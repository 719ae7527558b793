# A TLA+ model of minimc

minimc is a model checker for programs in an LLVM-like intermediate language.
It loads a program, transforms it, builds an initial analysis state, and
searches the graph of analysis states for a violated assertion. An analysis
state is a pair of a control part (the *Location* CPA) and data parts (the
*Concrete* or the *PathFormula* CPA). This directory models the parts that
decide what minimc answers, checks the models with TLC, and proves the main
results with TLAPS.

## 1. The system

| component | state it keeps | operations | interacts with |
|---|---|---|---|
| reachability search (`libs/algorithms`) | waiting list, found state, number of explored states; local to a search: the hash storage | `setSearchStrategy`, `search`, `foundState`, `getNumberExploredStates` | calls the enumerator, the transfer, goal and filter; called by `mc`, `enum` |
| transition enumerator (`successorgen.hpp`) | process, edge iterator, done flag | constructor, `++`, `*`, `bool` | reads the location part of a state; also used by the interpreter |
| transfer (`libs/cpa`, `interface.cpp`) | none | `AnalysisTransfer::Transfer` | runs the Location CPA, then each data CPA, on the same edge |
| Location CPA (`location/state.cpp`) | one stack of locations per process | `makeInitialState`, `doTransfer` | VM engine with a stack control only |
| Concrete CPA (`concrete/Query.cpp`) | frames and CPU registers per process, heap | `makeInitialState`, `doTransfer`, queries | VM engine with stack, registers, memory, path control |
| VM engine (`libs/vm`) | none | one `runInstruction` per instruction class, `execute` of a stream | both CPAs |
| concrete memory (`locvm/src/memoryt.cpp`) | blocks by base pointer, next base | `loadValue`, `storeValue`, `alloca`, `createHeapLayout` | Concrete CPA |
| PathFormula CPA (`pathformula`, `libs/smt`) | symbolic frames, heap, path formula | as the Concrete CPA, plus feasibility | external SMT solver |
| words (`libs/host`, `concvm/operations.hpp`) | none | fixed-width arithmetic, casts | VM engine through `Operations`, `Caster` |
| program model (`libs/model`) | functions, automata, registers, heap layout | `makeEdge`, `deleteEdge`, `deleteLocation`, symbols, frames, types | everything |
| transformations (`model/src/modifications`) | the program they edit | split asserts, expand nondet, lower phi, unroll, inline | run by `minimc.cpp` and `Controller` before a command |
| analyses (`model/analysis`) | dominators, loops | | the loop unroller |
| typechecker | none | one rule per instruction | loaders |
| interpreter (`bin/interpreter`) | named states, current state | print, edges, step, jump, bookmark | enumerator, transfer |
| commands (`bin`) | options | `mc`, `enum`, `convert`, `interpreter` | search, loaders, transformations |
| LLVM loader (`libs/loaders/llvm`) | maps from LLVM values, blocks and types to minimc's | passes over the module, one translation per instruction, globals, entry points and their stack | program model, typechecker |
| mmc loader (`libs/loaders/mmc2`) | | recursive descent over the text format | program model |

What is hard in this code:

* interleaving: the processes of an analysed program are interleaved by the
  enumerator, on one frame stack and one location stack each, and one heap;
* two engines over one edge: calls and returns are interpreted twice, by the
  Location CPA and by the data CPA, and nothing but the code keeps the stacks in
  step;
* failure in the middle: an instruction in the middle of a stream may fail its
  assumption or throw, after earlier ones took effect on the copy;
* state that outlives a call: the waiting list of a search;
* silent incompleteness: a search that misses a transition or merges two states
  reports the absence of errors with full confidence;
* transformations that edit a graph while they iterate over it, that key their
  maps by symbols which other passes duplicate, and that run one after the other;
* two arithmetics for one language: the host's instructions and the theory of
  bit vectors, which disagree at the ends of their ranges, and two memories with
  different byte orders;
* a formula that stands for all values at once: an assumption lost or placed at
  the wrong moment silently adds or removes runs;
* three readings of types: the loader's, the typechecker's and the engine's,
  which chooses its rule by the values that arrive.

The whole list, with lines and the properties that watch them, is under
`hazards` in `PROJECT.json`.

## 2. Modules

| module | models | state and actions |
|---|---|---|
| `StateGraph` | what the search sees of a program: successors per process and edge, hashes, feasibility; `Reach`, the least closed set of states, is the reference for reachability | none |
| `TransitionEnumerator` | the enumerator | `Start`, `Advance`, `Current` |
| `Reachability` | the search object | one action per public operation and per exit of the loop: `SetSearchStrategy`, `Search` (entry and insert of the initial state), `PopGoal`, `PopOther`, `Expand` (one round of the `for` loop), `Abort` (a transfer throws), `Exhausted` |
| `SearchOracle` | abstract specification of the search: `Ask`, then one answer that is right | refined by `Reachability` |
| `EnumeratorProofs`, `ReachabilityProofs` | lemmas about the enumerator; theorems about `Reachability` | |
| `VMProgram` | programs: functions, edges, instruction streams; which of them are `Disciplined` | none |
| `Machine` | `AnalysisTransfer::Transfer` over the Location and Concrete CPA | `Begin`/`Mismatch`, `LocStep`, `LocDone`, then one action per instruction (`Compute`, `Assign`, `NonDet`, `Skip`, `Check`, `Load`, `Store`, `Call`, `Ret`, `RetVoid`), `Throw`, `Undefined`, `Commit` |
| `CallDiscipline` | abstract specification of a transfer: one stack of activations per process, `Compute`, `CallStep`, `ReturnStep`, `FinishStep` | refined by `Machine` |
| `MachineProofs` | theorems about `Machine`: types, stacks, definedness, isolation; refinement of `CallDiscipline` | |
| `Words`, `ConcreteWords`, `SymbolicWords` | words and pointers of given widths; the host's operations and casts; the terms of the path formula | none |
| `DataPath` | the VM engine's instructions on data, run by both engines side by side on one accumulator | one action per class of instruction: `Binary`, `Compare`, `PtrArith`, `PtrEq`, `Cast`, `BoolExt`, `IntToBool`, `IntToPtr`, `Negate` |
| `DataPathProofs` | theorems about `DataPath` | |
| `ConcreteMemory`, `SymbolicMemory` | the two heaps | none |
| `HeapPath` | both heaps under the memory and aggregate instructions, side by side | `CreateBlock`, `Alloca`, `StoreWord`, `StoreAggr`, `LoadWord`, `LoadAggr`, `InsertValue`, `ExtractValue` |
| `ByteStore` | abstract specification of a heap: bytes and the last write over each | refined by `HeapPath` |
| `HeapProofs` | theorems about `HeapPath` | |
| `PathFormula` | the PathFormula CPA along a path, with a plain run of the path beside it | `Begin`, one action per instruction, `Commit`, `Filter` (the feasibility check), `Evaluate` and `Close` (the concretizer) |
| `PathProofs` | theorems about `PathFormula` | |
| `ControlFlow` | automata: making and deleting locations and edges | none |
| `Passes` | dominators and loops; lowering of phi edges, splitting of asserts, expansion of `NonDet`, unrolling, inlining | none |
| `ProgramRuns` | what an automaton does, as the engine runs it and as the source is meant | none |
| `Pipeline` | the passes in the order the `Controller` runs them | `Lower`, `Split`, `Expand`, `Unroll`, `BeginInline`, `Inline` (one call), `Finish`, `Prune` |
| `ModelChecking` | the `mc` command from the loaded program to the verdict, with the concrete CPA: `Pipeline`, the transfer of `ProgramRuns` and `Reachability` composed | `Compile` (the passes), `MakeSearch`, `StartSearch`, `SearchOn`, `Answered` |
| `Interpreter` | the `intp` command | one action per command of the language, and the loop that reads them |
| `CommandLine` | `main`: options, loading, passes, one command, the exit code; contains `Interpreter` | one action per stage |
| `CommandLineProofs` | theorems about `CommandLine` and its `Interpreter` | |
| `TypedProgram` | programs with types, and the rules they are built by (`WellFormed`); the rules and the order of the typechecker (`Check`) | none |
| `TypedRun` | the concrete engine on typed values, by the rule the values select | `TakeEdge`, `RunInstruction` |
| `TypedProofs` | theorems about `TypedRun`: type preservation and progress | |
| `LLVMModule` | what an LLVM module means (external: a part of the language reference) | none |
| `LLVMLoader` | the translation of an LLVM module | none |
| `Frontend` | from a module or a program to its runs | `LoadInput`, `Typecheck`, `Move` (a step of `TypedRun`) |
| `MCReachability`, `MCMachine`, `MCDataPath`, `MCHeapPath`, `MCPathFormula`, `MCPipeline`, `MCModelChecking`, `MCCommandLine`, `MCTypedRun`, `MCFrontend` | instances for TLC, and the statements the violation runs refute | |

The modules form four groups that look at one program at different levels.
`Frontend` and `Pipeline` are about how a program comes to be; `Machine` and
`PathFormula` about one transition of it, with opaque data; `DataPath` and
`HeapPath` about the data those leave opaque; `Reachability` about the search
over the transitions. `ModelChecking` puts passes, transitions and search together
and asks whether the verdict is the truth; `CommandLine` is the frame in which all
of them run.

`Reachability` treats a transfer as one step with a given outcome: the code is
single threaded, so no other activity sees the middle of it. `Machine` opens
that step. Its variables `nlocs` and `ndata` are the copies `doTransfer` works
on; `locs` and `data` are the source state until `Commit`. When a transfer ends
its locals get default values, so that dead variables do not multiply states.

Abstractions. In `Reachability` a state is an opaque value, and `out[s][p][i]`
is what `Transfer` answers for edge `i` of process `p`: a state, rejected, or
raised. In `Machine` a value is opaque: every TAC, comparison, pointer, cast and
aggregate instruction is `Compute` with the table of its function, and addresses
fall into four classes (in a block, across its end, without a block, not an
address), which is what decides between success, loss and an exception.
Undefined behaviour (a register outside the frame, `back()` of an empty vector)
leads to the phase `undefined`, about which nothing is assumed; a one-byte load
past its block, which the code does not check, yields any value.

`DataPath` and `HeapPath` compare two engines on one program. They run an
instruction on both and continue with the common value; the first instruction at
which they differ is recorded in `gap`, and the run stops there. Their property
`EnginesAgree` lists where that may happen. A register of the path formula is
represented by what its term denotes under one valuation.

`PathFormula` keeps terms abstract in another way: a term is a function from
*worlds*, the values chosen for the fresh variables, to values, and a formula is
the set of its models. The world of the plain run is arbitrary, so a statement
about it is a statement about every run of the path. What the SMT solver answers
is whether that set is empty, and one of its elements.

In `TypedProgram` and what is built on it all data is a number, and a byte has
`Radix` values. A value carries its type, and an instruction does what the types
of the values that arrive select, not what the program declares: that is how the
engine's overloads work, and what makes type soundness a question. What an
instruction computes is what the concrete host computes (`Calculated`, `Compares`):
a word is the set of its bits for shifts and bitwise operations, a byte divides
as the lower half of a word of two, ULE is `>=`, and a quotient the processor has
no room for is a fault. `TypedRun`
runs accepted programs, one edge or one instruction at a time. A call names its
function by a symbol, or by a pointer with the function's number (`CalleeOf`).
`Frontend` puts the loader and the typechecker before it. The LLVM language is external:
`LLVMModule` gives a direct meaning to modules (objects apart, phis in parallel,
no undefined behaviour), and the loaded program is compared with it.

`WellFormed` is what every program has by the way it is built: operands have the
types of their registers and constants are in range, an instruction has as many
operands as its class has fields, a change of the stack ends its edge
(`EdgeBuilder`), the heap is initialised by stores of constants, the entry point
returns nothing and sets the stack pointer before anything reads it.

`Disciplined` programs are those the CPAs are meant for: edges stay in their
function, a call has an edge of its own (`EdgeBuilder`), a return ends its edge
and leads to a location without edges, operands are registers of the function,
calls pass as many arguments as there are parameters (the typechecker), and a
function that returns a value is called with a local register and is no entry
point. The programs the LLVM loader builds have this shape; a hand-written mmc
file need not, and then the machine promises nothing.

## 3. Runs

| run | instance | shows |
|---|---|---|
| `reach` | 3 states; one process with up to two edges per state, cycles, rejected and raising edges, an infeasible state, colliding hashes; two processes with every distribution of at most one edge per state; no process; two searches per object; both strategies | all properties of `Reachability` |
| `machine` | a recursive program with two processes that share a heap cell (call depth 5), a program in which every instruction can fail, an entry point that returns a value; four values, one cell, one CPU register | all properties of `Machine` |
| `words` | words of 3, 5, 8 and 11 bits, every operand of the narrowest type, for the others the ends of their ranges, powers of two and the shift counts around the width | `TypeOK`, `EnginesAgree`, `PointersSurvive` |
| `memory` | blocks of up to three bytes at three bases, six heap layouts (one names a base twice, one has a block that is not named by its start), words of one and two bytes, aggregates of three | `TypeOK`, `HashCovers`, `EnginesAgree`, refinement of `ByteStore` |
| `paths` | programs with choices, branches, asserts in every place, calls, a call of a function without a body, an instruction that throws; one that leaves its frame; one with two entry points | `TypeOK`, `PathExact`, `AnswersReal`, `UndefinedIsUnsetCpu` |
| `passes` | every automaton of four locations with five or six edges from a menu of ten (phi edges, asserts, `NonDet`, loops, a self-loop), and programs with nested calls, by pointer and by symbol, under the combinations of the options | `TypeOK`, `ListsAgree`, `SameRuns`, `UnrolledAcyclic`, `UndefinedOnlyWhere` |
| `verdict` | the programs of `passes` with calls, its automata of six edges with an assert, an assert inside an edge; every combination of passes, both strategies | `VerdictRight` |
| `command` | all option records, two processes on a small graph with silent, rejected and raising edges, sessions of up to five lines | `TypeOK`, `StepsAreMoves`, `PrevUndoes`, `CrashIsMisuse`, `ExitTellsVerdict` |
| `frontend` | thirteen LLVM modules inside the language the loader covers (among them one for shifts and bits, one for the predicates), twenty outside it in one respect each, and 3598 typed programs, of which the typechecker accepts 166: one instruction over every combination of types, calls by symbol and by number, also of functions with varargs, phi edges that swap registers, a stack pointer that is moved, passed on and put back | `TypeOK` (what is loaded is `WellFormed`), `LoadedAccepted`, `LoadedMeansLLVM`, `AllocasApart`, `WellTyped`, `AcceptedRuns` |
| `reach_procs` | every two-process program | **violation**: a process without outgoing edges hides later processes |
| `reach_bfs` | a four-state diamond | **violation**: BFS does not find the nearest goal |
| `entry_return` | an entry point that executes `Ret` | **violation**: empty frame stack |

Bounds: `MaxSearches` bounds the searches of one object (two suffice to see what
an earlier search left behind); `MaxDepth` bounds the call depth, at the depth
the recursion of the instance needs. Three states give cycles, diamonds and a
state left waiting. The location numbers of `MCMachine` give each of its four
functions a frame of its own size where it matters.

The widths of `words` grow from type to type, and the fields of a pointer of
either kind fill a word of its width, those of a narrow pointer being no wider than
a pointer's, as in the program (`WidthsOK`). The bits of a word are a set, and `And`,
`Or` and `Xor` are operations on sets (`BitsOf`, `WordOf`). `OffSpan`
of `memory` is one more than the largest block, so an access can reach the end
of its block, the end of the offsets (where the symbolic address runs into the
next base) and the next block. `MaxVars` and `MaxDepth` of `paths` let a loop
choose again on every round and a callee choose beside its caller; `MaxDepth` is
a guard of `Call`. `MaxEdges` of `command` is the largest number of edges that
leave a location of its graph. `MaxUnroll`
and `MaxInline` are 2, the first value at which a copy is made of a copy;
`MaxCalls` bounds the activations of the runs that are compared, and runs that
are cut off there are compared one way only (`cut`). `MaxStates` of `verdict`
exceeds the number of analysis states of any program of the instance (a larger
one would be a deadlock). `MaxLines` allows a session that bookmarks, steps,
steps again, jumps back and uses what it jumped to; `MaxNumber` exceeds the
number of edges most states offer, and 0 is below it. `StackSize` and
`MaxFrames` of `frontend` hold the deepest call of the modules with room for its
allocas, and one module recurses up to the bound; runs are followed, and compared
with the module's, to their ends. `Radix` is 4, so that a byte has more values
than a boolean and a signed byte two of each sign, and `ByteBits` is 2, the bits
of that byte (`BitsOK`); `NonDetNumbers` is every value
of a byte. The named assumptions (`WidthsOK`, `MemoryOK`, `ControlFlowOK`,
`SourcesOK`, `GraphOK`, `RadixOK`, `BitsOK`, `TypedRunOK`, `StackFits`, `BoundsMatch`) say
what the instances have to respect.

Fairness: `FairSpec` of `Reachability` is weak fairness of `Step`, the body of
the `while` loop: `search` is one loop of one thread. Callers are under no
obligation, so `Search` and `SetSearchStrategy` are not fair. The other modules
state no liveness: a transfer is a pass over a finite stream, the passes, the
typechecker and the loader are functions, and a session ends when its user does.

Deadlock is checked in `verdict`, where every stage has to hand over to the next
(`Answered` marks the end). Elsewhere it is not: an object need not be searched
again, and a program, a session, a sequence of passes or a comparison of engines
may have ended.

### What the properties leave out

A property about two parts that are meant to agree names every place where the
code makes them differ; whatever is not named is checked.

* `EnginesAgree` of `DataPath` (`Excused`): the host takes shift counts modulo
  32 or 64; division by zero traps, and so does the signed quotient that does
  not fit; an 8-bit unsigned division sees the upper half of `AX`, which nothing
  clears; `ULe` compares with `>=`; a carry out of the offset of a pointer is
  dropped by the concrete engine and reaches the base in the symbolic one; the
  symbolic engine throws on `PtrEq`; the two lay a pointer out in different
  order, which shows in `IntToPtr` and in ordering pointers of different blocks;
  `IntToBool` looks at the lowest byte.
* `EnginesAgree` of `HeapPath`: an access outside a block (the concrete heap
  raises, the array answers); bytes read in another grouping than they were
  written in (opposite byte orders); words extracted from the middle of an
  aggregate; an aggregate replaced as a whole or loaded; `Alloca`, which no
  instruction of the current set reaches; a layout that names a base twice or a
  block not by its start.
* `PathExact`: an assert that is not the last instruction of its edge stops the
  plain run, and the formula does not notice. After the passes no such assert is
  reached unless the source had it.
* `SameRuns`: programs with such asserts (`AssertsLast`), and programs in which
  two locations share a symbol when loops are unrolled (`Aliased`): expanding
  `NonDet` makes them, and the unroller copies one of the two. `SplitAsserts::run`
  looks at the last instruction of an edge, although the comment of the class
  (`splitasserts.hpp:22`) speaks of each `Assert`: one before the last stays, and the
  engine treats it as an assumption, so the violating run is blocked, not reported.
* `VerdictRight`: asserts inside an edge, as above; and `NotFound` says nothing
  when a `NonDet` was not unfolded (the concrete CPA takes its default value and
  logs a warning), or when a run ends at the location unrolling or inlining cuts
  off at. `Found` is right without either of these two conditions.
* `UnrolledAcyclic`: a location no run reaches, which counts as a predecessor in
  the dominator analysis, can hide a loop.
* `UndefinedOnlyWhere`: the passes read a freed or missing object, or one of
  another class, when loops overlap or begin at the initial location; when a call
  that is inlined names its function by a symbol (`funcinliner.cpp:22` takes the
  operand for a `Pointer`: every call of the LLVM loader, and every call by name in
  the text format, is a `SymbolicConstant`); when the callee is the entry point
  itself, or has more than one edge to copy (its automaton grows during the
  iteration); and when a location with a self-loop is deleted. That they are
  defined otherwise is the property. So `--inline` is meaningful only for programs
  of the text format that call by pointer, and only of those do `SameRuns` and
  `VerdictRight` speak where it is given.
* `Mistyped`, `NoRule`, `Undefined` of `TypedRun` and `Unloadable`, `Differs` of
  `Frontend`: each disjunct stands for a place in the code. Among them: `PtrEq` has a pointer as result
  for the checker and a boolean for the engine; `PtrToInt` and `BitCast` are
  accepted and have no rule; whether a part lies inside its aggregate is only
  asserted; the result of a call that names the stack pointer goes to a register of
  the frame; `select` and `urem` are translated to nothing;
  integers of odd widths live in wider ones; every index of a nested
  `extractvalue` is looked up in the outermost type; an expression inside a phi
  puts an instruction before the phis that follow, which are then left out;
  `sdiv` becomes an unsigned division; an unsigned division of bytes sees the
  upper half of `AX` (`ByteDivision`); `icmp ule` is answered with `>=`
  (`LessOrEqual`); a call of a function with varargs is accepted, whatever its
  arguments, and raises.

But for the asserts, no document of the repository says otherwise of these.

### What the violation runs say

* `reach_procs`: `TransitionEnumerator::next` answers false when *one* process
  has no outgoing edge. With several entry points a process that has ended hides
  the ones after it. `GapFree` is the condition under which the search is
  complete.
* `reach_bfs`: `BFSList` pushes and pops at the back.
* `entry_return`: `RemoveRetEntryPoints` exists for this case and is never run.

## 4. Proofs

`ReachabilityProofs` (no bound on states, programs, goals or searches):

* `TypeCorrect`: `TypeOK` with `CursorOK`, the fact that the enumerator of a
  running expansion points at an edge. `TypeOK` alone is not inductive: `Expand`
  needs the current edge to exist.
* `FoundSound`: every waiting state, and the state under expansion, is feasible
  and in `Reach` of the starts that fed the list (the invariant `Sound`); a found
  state was popped from there.
* `NotFoundSound`: for programs that are gap-free and whose hashes separate
  states, every stored state is waiting, or expanded up to the cursor, or fully
  expanded; when the list is empty the stored states are closed under
  transitions, and `Reach` is the least such set.
* `CountExact`: `CountInv` adds to `Sound` that every stored hash is that of a state
  of `Reach`, and that a count on offer is the size of the storage. With
  completeness the hashes stored after `NotFound` are those of `Reach`, and where
  hashes separate states the two sets have the same size.
* `ExpandedOnce`: `WorkInv` holds in the first search of an object only. The hash of
  every waiting state, and of the one under expansion, is stored; so a state that
  `Insert` finds new has a hash that no waiting state has.
* `Refinement`: from these, each step is a step of `SearchOracle` or a stutter.

Assumptions are those named in `StateGraph` and `Reachability`: constants have
the right type and the outcomes are distinct.

`MachineProofs` is about the transfer, for every set of programs, any number of
processes, values and registers and any call depth. `TypeCorrect`, that is `TypeOK`, which is inductive. It needs no
discipline: an instruction that leaves its frame goes to the phase `undefined`
and changes nothing.

The properties between transfers, also in `MachineProofs`, are not inductive: the two
stacks move at different times: the Location CPA has carried out its call
when the Concrete CPA has not begun. The invariant `Inv` is `TypeOK` and, for
disciplined programs, `StackInv`, which says where a running transfer is:

* `nlocs` is `Moved` (the edge's target on top) while instructions of the Location
  CPA's run are left and `Final` (with the call or the return carried out) after
  it: a disciplined edge has its only stack instruction last;
* `Progress` relates `ndata` to `data`: other processes are untouched; before the
  stack instruction the frames have the heights, sizes and return registers they
  started with (`SameShape`); after it they are `Called` or `Returned`;
* the stacks the transfer started from agree (`Agree`), and the lowest location
  of a process is in its entry point, from which it follows that a function with
  a `Ret` has a caller that waits for the value.

`Inv` was model-checked on the instance of `machine` before it was proved. From
it:

* `StacksAlwaysAgree`: `Commit` turns `Final` and `Progress` into `Agree` for the
  new stacks, by cases on what the edge ends with;
* `AlwaysDefined`: the registers of the top frame are those of the function the
  edge is in, and `WellTyped` keeps operands within them; the caller of a `Ret`
  exists and named a local register;
* `Isolation`: only `Commit` changes the state, and `Progress` says how.

The last part of `MachineProofs` is `MachineRefines`. The abstract stack is the pairing of the two
concrete ones (`Activations`); a commit is `Compute`, `CallStep`, `ReturnStep` or
`FinishStep` of `CallDiscipline`, every other step a stutter. For programs that
are not disciplined `CallDiscipline` promises nothing (`Anything`).

Assumptions: `ValuesOK`, `NbCpuOK` and `NoRegOK` of `VMProgram` (the classes of
addresses are disjoint, the default is a value, the null register is no register)
and `ProgramsOK`, `MaxDepthOK` of `Machine`.

`PathProofs` is about the path formula, for every set of programs, of values and of
registers, any number of fresh variables and any call depth. The world is any
fixed choice of values, so a statement about it is one about all of them. The
invariant `PathInv` says, besides types, that in the chosen world the symbolic
state `Follows` the plain run: while that run goes on, the world is in the formula
and the frames, return registers and CPU registers `Mirror` each other; and a
world in the formula is one whose run no assumption has stopped. In the middle of
an edge the same holds of the working copies and of the formula cut by the
assumptions collected so far, which `Commit` adds: that is what makes the
invariant inductive, since an instruction that fails changes the assumptions
and not yet the formula. From it:

* `PathFormulaTypes`, `FormulaExact` and `AnswersAreReal`. None of them needs
  discipline: an access outside the frame ends in the phase `undefined`.
* `OnlyUnsetRegisters`, for disciplined programs, from `StackInv`: state and working
  copy have, location by location, a frame with the registers of its function,
  and a function with a `Ret` has a caller that waits in a register (`Active`); or
  the entry point has returned, and the one location left has no edges (`Over`).

`CommandLineProofs` is about `main` and the sessions of the interpreter, for every
graph, any number of processes and names, and sessions of any length. What
`get_edge` collects is a recursive function of the enumerator; that it yields edges
of the graph is shown by the least round at which it would not. `SessionInv` says
which names stand for states: once a line has named a state nobody made, a null
state may be anywhere, before that nowhere. It includes `StepsAreMoves`, `PrevUndoes` and
`CrashIsMisuse`, which are about the step just taken (`StepsMove`, `PrevIsBefore`,
`CrashNeedsMisuse`). `PhaseInv` says what `main` has done by the time it reaches a
stage: after the transformations the list of passes holds what was asked for, and
a search of `mc` has a verdict when it answers; from it `CommandTypes` and
`ExitIsVerdict`.

`HeapProofs` is about both memories, for every address space, block size and layout.
`EnginesAgree` is not inductive, since it says nothing of memory before two loads
differ. `HeapInv` adds `Agreement`: while no gap is recorded, bytes outside all blocks
are as they began (`OutsideUntouched`), bytes nobody wrote or an aggregate wrote
are the same in both (`BytesAgree`), and the bytes of a word mirror each other as long
as both of a pair are the word's (`WordsMirror`). That a store over half of a word
spoils the pair, and no other, is the heart of the proof; it needs that addresses of
different blocks differ. `MemoryTypes`, `BlocksHashed` and `MemoriesAgree` follow, and
`HeapIsByteStore`: an operation on the heap is a `NewBlock` or a `Write` of `ByteStore`
or changes nothing.

`TypedProofs` is type soundness: for every set of well-formed programs, every number
of values of a byte, any choices of `NonDet` and any call depth, an accepted program
keeps the declared type in every register (`TypesPreserved`), and raises or leaves what
the engine defines only at the instructions `NoRule` and `Undefined` name
(`AcceptedProgress`). Neither is inductive: that a register of the caller takes the
answer of a `Ret` depends on the call that entered the frame, that an instruction
finds its operands on the rest of the edge. `Soundness` says of a run
(`RunOK`), besides the types of its registers:

* every frame but the lowest was entered by a `Call` of the function below it
  (`Awaits`), with the result it will write to; so the types of a `Ret`, of the callee
  and of the caller's register meet, which the checker compares in two places;
* the instructions left of an edge are of the function on top, or initialise the
  heap, and a change of the stack comes last: what follows it would run in another
  frame;
* the stack pointer holds a pointer, unless the entry point has still to set it
  (`Starting`), and then that is the next instruction;
* the blocks of the heap are bytes, so what a load puts together is in range.

A step of an instruction is a case per family (`ComputeSound`, `CastSound`,
`PtrStepSound`, `LoadSound`, ..., collected in `RunSound`): it ends as the properties
allow or saves a value that fits the result, or changes the heap or the stack.
`AlikeKeeps`, `CallKeeps`, `RetKeeps`, `RetVoidKeeps` and `MoveKeeps` then restore the
invariant, the last also for phi edges, whose assignments happen at once. The numbers
underneath (`PowSteps`, `NumberRange`: a list of bytes is a number below `Pow` of its
length) rest on `Iteration` of `EnumeratorProofs`, which makes a recursive function
exist without induction. A loaded program is an element of `Programs` here: that it is
`WellFormed` is the invariant `TypeOK` of `Frontend`, which TLC checks.

`DataPathProofs` is about the instructions on data, for words of every width, pointers of
every layout and all constants. The types hold (`DataTypes`), the engines come apart only
where `Excused` says (`EnginesMean`), and a pointer survives its bit pattern and the narrow
type in each engine (`PointersKept`). The invariant `DataInv` joins the first two to
`Denotes`: as long as there is no gap the symbolic term means the concrete value. Types and
meaning need each other, since the next result is a function of both values, and a
pointer term says something about fields only when it is the concatenation of fields in
their ranges. An action is handed to `RunKeeps`, which asks of every outcome that it is
typed if the engines agree on it and that they agree or are excused; what an operation
returns is a lemma of its own:

* a number has one quotient and one remainder (`Unique`), so shifts by the width or more
  leave nothing but the sign (`ShiftedOut`, `ShiftsAgree`), and an extension with the sign
  is the same number modulo the wider size (`CastsAgree`);
* the quotient of two signed words leaves their range for one pair only (`Overflows`);
* a pointer in memory and a pointer term are three fields one above the other, in
  opposite order (`Three`, `Fielded`): hence each field comes out again, two pointers into
  a block are ordered by their offsets in both (`SameBlock`), and a step that does not
  carry moves the offset in both (`MovesAgree`);
* any set of bits makes a word (`BitsMakeWord`).

The powers of two and the sum of the bits are recursive functions, which exist by
`Iteration`; what holds of all exponents is shown by a least counterexample (`LeastNat`).
That `And`, `Or` and `Xor` agree needs nothing: both engines apply the same operation.

Assumptions of these: `WidthsOK` and `OperandsOK` (constants are words of their type);
`PathProgramsOK`, `PathBoundsOK`, those of `VMProgram`;
`GraphOK` (a graph, and the names the interpreter itself uses); `MemoryOK` and
`HeapPathOK` (bases and offsets fit the address, a block fits the offsets);
`RadixOK` and `TypedRunOK` (a byte has two values or more; the programs are well
formed; `NonDet` chooses among numbers). `BitsOK`, which ties the bits of a byte to
its values, is needed by no theorem: whatever the bits, `Calculated` picks numbers of
the width (`CalculatedRange`); for the byte divided as a word of two that takes
`QuotientFits`, where the divisor is above the upper half.

Left to TLC:

* `Terminates` of `Reachability`: liveness under fairness.
* `Pipeline` (`TypeOK`, `ListsAgree`, `SameRuns`, `UnrolledAcyclic`, `UndefinedOnlyWhere`)
  and `ModelChecking` (`VerdictRight`): passes and analyses are pure functions written
  with recursive operators and folds over the program, and what those compute for
  every input takes induction over data.
* `Frontend` (`TypeOK`, `LoadedAccepted`, `LoadedMeansLLVM`, `AllocasApart`): the loader is
  such a function, and the two languages are compared by all their runs.

## 5. Not modelled, and the plan

* The SMT solver and the translation of terms to its interface: external; a
  formula is the set of its models, a query whether the set is empty.
* LLVM's own passes that the loader schedules (lowering of switches, promotion
  of allocas), and loading with several entry points.
* The mmc text parser (`libs/loaders/mmc2`): recursive descent over
  characters, without state that outlives it; what it builds are the programs of
  `ControlFlow` and `TypedProgram`.
* `Uniform`, which no loader builds, and the passes no command runs:
  `ReplaceSub`, `RemoveRetEntryPoints`, `InsertBoolCasts` (reachable from Python
  only), constant folding.
* Printing, lookup of qualified names, the graph output of `convert` and `enum`.
* The Python bindings.
* `hash`, `util` and `support`: containers and exceptions, present in their
  effect.
* Files that are not compiled: `libs/loaders/src/mmc`, `bin/dominator.cpp`,
  `bin/parseoptions.cpp`, `libs/vm/src/vm.cpp`, the `castimpl.hpp`, `heap.hpp` and
  `instructionimpl.hpp` of the concrete CPA, `succegenerator.cpp`, `tojson.cpp`,
  `removeallocas.cpp`, `libs/model/src/cfg.cpp`, the interpreter's tasks.

What is left to prove first is `ListsAgree` of `Pipeline`: that `MakeLocation`,
`MakeEdge`, `DeleteEdge` and `DeleteLocation` keep the lists of an automaton in
agreement, and then each pass, which is an iteration of these. It takes the folds of
`Passes` as recursive functions, for which `Iteration` would do, and sources that are
assumed to satisfy the property themselves.
