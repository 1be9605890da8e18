# Teyjus in TLA+

Teyjus is an implementation of lambda Prolog: a compiler to the bytecode of an
abstract machine (`source/compiler`, OCaml), a linker that puts compiled modules
together (`source/linker`, C), and a simulator that loads the result and runs
queries against it (`source/loader`, `source/simulator`, `source/front`).  This
directory holds TLA+ modules for the parts whose correctness depends on
long sequences of steps or on several parts agreeing: the trail and the control stack, the
representation and unification of terms with the compiler's code for them, the
indexing of clauses, linking and loading of modules, and the builtin predicates
with the printing and reading of terms.  TLC checks them on small
instances; TLAPS proves the results about the trail, the control stack and the indexing
of clauses for every size of memory and every program.

Paths below are relative to `src/`; `source/simulator` and its like are where the
code is, `implnotes/simulator` where its documentation is.

## 1. Inventory

| component | state | operations | talks to | what makes it correct |
|---|---|---|---|---|
| trail and choice-point memory: `simulator/trail.c`, part of `abstmachine.c` | heap, stack, `HREG`, `HB`, `TR`, `B`, the trail | `TR_trailTerm/HTerm/ETerm/Type/Import`, making, retrying, discarding and cutting choice points, `TR_unwindTrail` | everything that binds | backtracking brings back all that a choice point preserves, with as little trailed as the tests allow |
| abstract machine: `abstmachine.c/.h`, `instraccess.h` | the stack of environments, choice points, implication and import records; `E B B0 I CI CE CP TOS UC P` | make, find and drop records; `AM_findtos*`, `AM_settosreg`, `AM_findCode` | the instructions | no record is laid over one still needed; the stack limit holds |
| control instructions: `siminstr.c` | the same | allocate, call, try, cut, push_impl_point, add_imports, switch_on_... | code of the compiler and the linker | a return finds its caller, its context and its universe; alternatives are come to by backtracking alone |
| term and type instructions: `siminstr.c`, `siminstrlocal.c` | heap, argument registers, environment, write mode registers | put, set, get, unify, globalize, the type instructions, `pattern_unify`, `finish_unify` | unification, normalisation | goals are built as written; a head matches exactly what unifies with it |
| interpreted goals: `builtins/meta.c` | stack and heap | `solve` on each form of goal | fixed code segments of `siminit.c` | as for compiled goals; a cut goes to a live choice point |
| simulation loop and query cycle: `simulator.c`, `siminit.c`, `front/` | status of the query | run, fail handler, new query, more answers, end of query | the user | each query ends if its search does; nothing of one query is left in the next |
| higher-order pattern unification: `hopu.c`, `types.c` | heap terms, PDL, live list | interpretive and compiled unification | trail, head normalisation | most general unifiers within the pattern fragment; scopes respected |
| head normalisation: `hnorm.c`, `hnormlocal.c` | heap terms, argument vector | reductions with suspensions | trail | the term keeps its meaning, destructive changes trailed |
| terms and types: `dataformats.c`, `mctypes.h`, `mcstring.c` | tagged words, strings | accessors, constructors | all of the above | plain data |
| builtin predicates: `builtins/` | heap, streams | evaluation, comparison, strings, input and output | streams, printer, reader | values are those of arithmetic; arguments are bound once |
| printing and reading terms: `printterm.c`, `io-datastructures.c`, `builtins/readterm.c`, `front/readterm.ml` | tables of variables, bound variables and nameless constants | write a term, an answer, a delayed pair; build a parsed term | parser, normaliser, front end | what is printed says what the term is and reads back as it |
| memory, errors, streams: `source/system` | memory partition, exception stack, streams | `EM_TRY/CATCH/THROW`, `STREAM_*` | all | characters pass in order, once |
| loader: `source/loader` | tables in memory | reads a linked file; search and hash tables | linker's output, `AM_findCode` | a lookup finds what was compiled |
| linker, merging: `linker/code.c`, `hashtab.c` | code area | patches two definitions into one | codegen's layout | the clauses of the younger, then those of the older |
| linker, names: `module.c`, `const.c`, `kind.c`, `CallResolution.c`, `rename.c`, ... | vectors and renaming tables | one table for all modules, segments of imports, static calls | codegen, loader | names mean in the program what they meant in their module |
| parser: `lplex.mll`, `lpyacc.mly`, `parse.ml` | parse stack | tokens, operator precedence | reader, compiler | agrees with the printer |
| types and typing passes: `types.ml`, `typereduction.ml`, `clauses.ml`, ... | abstract syntax | passes | compiler | sequential passes |
| variable annotation: `annvariables.ml` | variable and goal data of a clause | which variables live in the environment, where, how long | code generation; trimming of environments | every variable keeps its slot as long as a goal needs it |
| register allocation: `registers.ml` | register assignments | chunks, conflicts | clause generation | no live register is overwritten |
| clause generation: `clausegen.ml` | instruction list | code for goals, heads and terms | annotation; the machine | a clause leaves by one proceed, execute or fail; what an implication adds is taken away |
| definition generation: `codegen.ml` | code of a definition | choice and switch instructions | the machine, the linker | each matching clause is tried once, in order |
| bytecode and disassembly: `bytecode.ml`, `spitcode.ml`, `disassembler/` | files | write, print | linker | serialisation |
| instruction tables: `tables_gen/` | - | generators | - | - |

How they interact.  `annvariables` computes sizes that `clausegen` writes into
`call` and `push_impl_point`; the machine reads the size *back below the return
address* (`INSACC_CALL_I1`) each time it needs to know where the top of an
environment is.  `codegen` lays out a definition so that the linker can patch it
in place.  The linker numbers segments of imports and decides which calls become
jumps; the machine's import records and backchained counts rely on both.  The
loader lays out the search tables that `AM_findCode` reads.  The instructions for
heads call unification as soon as a term is not what they expect, unification calls
normalisation, and both overwrite the heap under terms that others share.  Builtins
normalise their arguments the same way and end in the code of `=`.  The reader
parses text in OCaml and builds the term cell by cell through C, with the query's own
table of variables, which the printer also uses for the names it makes up.

What is hard here.  The program is sequential: there are no threads and no
messages, nothing survives a crash.  What makes it hard is nondeterministic
search over destructively updated data: a choice point is a snapshot of the whole
machine, to be come back to after any number of steps, bindings, cuts and returns,
while the code overwrites whatever no choice point protects; a term is changed in
place while others share it.  The hazards are listed
one by one, at their lines, in `PROJECT.json`; the kinds that occur are sequences
of legal steps, stale registers and tables, order, limits, numeric edges, a step that fails
half-way, and progress.

## 2. The modules

Four groups; the first also has proofs.

| module | models |
|---|---|
| **the stack** | |
| `Backtracking` | the abstract store: cells, and whole snapshots |
| `Trail` | `trail.c`, choice points, fail handler, heap and stack tops |
| `TrailProofs` | theorems about `Trail` |
| `Control` | the stack layout and the fixed code of `SINIT_initCode`; the control stack, the control instructions, `solve`, the query cycle |
| `AnnVariables`, `ClauseGen` | `annvariables.ml`; `clausegen.ml` for goals, implications, imports |
| `Shapes` | what the instructions of `Control` need of compiled code, without running it |
| `ControlInvariant` | the inductive invariant of `Control` |
| `ControlViews`, `ControlMemory`, `ControlSteps` | lemmas: parts of the invariant, and steps that keep it |
| `ControlExtents` | lemmas: why the records stay apart |
| `ControlProofs` | the other steps, and the theorems about `Control` |
| `ControlClosures` | what implications lend: a second inductive invariant, and its theorem |
| `CodeGen` | `codegen.ml`: choice instructions, switches, extension of definitions |
| `Linker` | `linker/code.c`, `MergeHashTabs`: merging two definitions |
| `Indexing` | the choice and switch instructions alone, with a known first argument |
| `IndexingProofs` | theorems about `Indexing` |
| `MCTrail`, `MCIndexing`, `MCControl` | instances |
| **the heap** | |
| `Terms` | `dataformats.c`: objects on the heap, registers, PDL, live list, trailing |
| `HeadNorm` | `hnorm.c`, `hnormlocal.c` |
| `TypeUnify`, `PatternUnify` | `types.c`; `hopu.c` |
| `TermInstr`, `TypeInstr` | the instructions of `siminstr.c`, `siminstrlocal.c` for terms and for types |
| `GenTerms` | `clausegen.ml` and `annvariables.ml` for the terms of goals and heads |
| `Lambda` | the reference: what a heap term means as a lambda term |
| `TermMachine` | goals called on heads, choice points, properties |
| `MCTerms` | instances |
| **modules** | |
| `ModuleCode` | what the compiler leaves in a bytecode file (`spitcode.ml`, `codegen.ml`) |
| `ModuleLinker` | the linker's tables, renaming, segments, call resolution |
| `Loader` | the loader's tables and searches, as laid out in memory |
| `ModuleScopes` | the reference: what names and calls mean by the source |
| `Modules` | link, load, run; properties |
| `MCModules` | instances |
| **builtins** | |
| `Strings`, `Evaluation`, `Streams` | `mcstring.c`; `evalexp.c`, `compexp.c`; `stream.c` |
| `Printing` | `printterm.c`, `io-datastructures.c` |
| `Parsing` | `lplex.mll`, `parse.ml`: tokens, the operator-precedence automaton |
| `Reading` | `readterm.ml`, `readterm.c`: a tree becomes a term on the heap |
| `Builtins` | `io.c` and the callers of the above: arguments, errors, results |
| `Queries` | `solve` with builtins, the query cycle with answers; properties |
| `MCBuiltins` | instances |

`Trail` implements `Backtracking` by a refinement mapping.  `ClauseGen`,
`CodeGen`, `Linker`, `GenTerms`, `ModuleCode`, `ModuleLinker` and `Loader` are pure
operators, and the programs that `Control`, `Indexing`, `TermMachine` and `Modules` run
are what these compute from small source programs in the MC modules: nothing the
machine executes is written by hand, except the boot code, which `siminit.c`
writes by hand too.  `Queries` runs `HeadNorm` and `PatternUnify`, the same
operators as `TermMachine`.

### Trail

Addresses are the words of one memory block, the heap below the stack, because
`trail.c` compares addresses of both.  `hreg`, `hbreg`, `trail` and `cps` (the chain of
choice points from `B`) are the registers; `tos` is the live end of the stack.  A
cell holds a term, a type or a backchained count; each has its own trailing test.
`BindTerm`, `BindHTerm`, `BindETerm` and `BindType` are the callers of the trailing
functions (`a <= hbreg` in one test and `a < hbreg` in another are as in the
code); `SetImport` is `TR_trailImport`, whose test its callers make, in `Control`.
`Fail` and `Unwind` are the fail handler, one step per trail item; `Retry`,
`Trust`, `TrustExtFail` what the next alternative does.  `CutGoal` is the cut of an
interpreted goal, which resets `B` and leaves `HB`; `Restart` is
`SINIT_reInitSimState`, which leaves `HB` too.  Overflow ends in "toplevel".

### Control

`stk` is the stack word by word, each word carrying the name of the field it was
written as, so that reading a field of one record where another now lies is
visible.  `reg` has the registers.  `Step` has one action per instruction, and
`solve` one per form of goal.  `calls`, `snaps`, `live` and `ctx` are history: the calls not
returned from, the stack at each choice point, how many slots of the top
environment the clause still needs, and the records of the program context.  A call
keeps what it must find when it returns, and its `floor`: the newest choice point that it was
itself allowed to cut to, which nothing it calls may cut below.  `TypeOK` says nothing of `CE`: `CI` is not
reset between queries, and what is read into `CE` through it may be anything (`ClosureAlive`
says where it counts).  The heap and the terms are not there:
`unify` fails, succeeds, or binds any free variable of an environment still in use, and
`switch_on_term` goes any way.  These are more behaviours than any program has,
so what holds of them holds of the program; how the *right* way is taken is
`Indexing`, how terms unify is `TermMachine`.

`prog` is one of `Systems`, a set of programs with their tables, their queries, the
stack limit and the universe limit; one run thus checks several programs.

### AnnVariables, ClauseGen, CodeGen, Linker, Indexing

A source clause has variables for arguments and goals of every form the compiler
knows.  `Annotate` gives the slots and sizes; `GenClause` the code, in which one
`unify` stands for all the get and unify instructions of the head; `GenDef`
the definition with its switches; `MergeDefs` the merge.  `Indexing` runs one
definition with a given first argument and every clause failing, and records
which clauses are come to.  The choice points are a sequence of addresses (`ncl`).
What the compiler and the linker owe the instructions is stated of the code alone, as the assumption
`IndexedPrograms`: from each address that is come to, what is gone on with leads to
earlier clauses than what is left for backtracking, every clause that could match can be come to, and in
a keyed definition every alternative leads to one that can match.  `SharedByLinking`: only the linker brings
two clauses for one key under one label.  TLC evaluates both for all the definitions of the run `indexing`.

### Terms and unification

A machine is a record; its field `h` maps the address of the first word of an object to
the object, so that overwriting a cell by a reference, as normalisation does,
affects everyone who shares it.  Each C routine is an operator from machine to
machine that leaves its result in `rt` and raises `fail` or `err`; the recursion of the C
code is the recursion of the operators, and so these modules hold no theorems.
`GenTerms` compiles the arguments of goals and of heads to the instructions that
`TermInstr` and `TypeInstr` execute.  In `TermMachine` a goal puts its arguments, is
called, and its clauses are matched in turn, with a choice point while there are more;
a failure goes back.  `Lambda` reads any heap term, suspensions included, as a
lambda term, and all properties compare such meanings: no property looks at the
layout of the heap, but for `HeapClosed`.

### Modules

`ModuleCode` compiles a source module against the signatures of the others as
they were when it was compiled; `ModuleLinker` loads the modules of the top one depth
first, renames, merges, gathers import tables and resolves calls; `Loader` lays the
tables out.  `Modules` links, loads, then runs calls: the records of the context, the
counts of imports, the search for code, with any clause of several taken.  The ghost state
`scope` holds what `ModuleScopes` derives from the source alone.  A *path* says how
a module came into the program; elements of the linker's vectors carry the path they
come from, for the properties only.

### Builtins, printing, reading

A query is text that has been tokenised; `Init` parses it with `Parsing` and builds it with
`Reading`, as `query.ml` does.  `Queries` has one action per form of goal that
`BIMETA_solve` knows there and one per builtin of the dispatch table; `io` is the state of the streams,
`pr` that of the printer with the table of variables that the query, the printer and the reader
share.  A name counts as one character, all other characters stand for themselves.
Integers wrap at `IntWidth` bits; reals are quarters.  When C leaves the
order of operands open (`a + b` with both sides evaluated) the model takes either.
`log` and `asked` are history: what passed through the streams, and what the
arguments meant when a builtin was called.  `not`, cut, implications and user predicates are in
`Control`, not here.

## 3. What is checked

Every property has at least one plausible bug in a modelled definition
(`PROJECT.json`, "mutants") that breaks it under the same configuration; the faulty
forms stand before the definitions, marked "Fault".

| run | instance | properties |
|---|---|---|
| `trail` | one heap and two stack words (the first is the bottom choice point), two terms, two types, one count, 2 trail items, 3 choice points | `TypeOK`, `CPsOrdered`, `BacktrackPointSound`, `Restorable`, `ImplementsBacktracking`, `FailureHandled` |
| `indexing` | every definition of 1-4 clauses over five kinds of first argument, open and closed, and merges of two definitions; six first arguments | `SourceOrder`, `NoneSkippedApart`, `LastIsDeterministic`, `Fails` |
| `control` | seven programs: cuts, last calls and trimming; the same with a stack that overflows; interpreted goals of every form; imports of imports with hidden constants; implications in implications and universal goals; indexed predicates; a predicate merged by the linker | `TypeOK`, `ContinuationsIntact`, `RecordsApart`, `Restored`, `CutsToLive`, `SlotsAlive`, `AlternativesByBacktracking`, `ReturnsHome`, `CountsRestored`, `ClosureAlive`, `QueryEnds` |
| `terms` | about four thousand programs of one to three goals and one to three clauses, by families: first-order, higher-order, typed, quantified, lists, shared arguments, redexes, last calls | `TypeOK`, `HeapClosed`, `ArgsBuilt`, `OnlyInstantiated`, `HeadUnified`, `Scoped`, `Restored`, `NoSolutionLost`, `MostGeneral`, `FullyNormal` |
| `modules` | 21 programs of up to five modules: chains and diamonds of imports, accumulation, hidden and exported names, kinds, implications, stale signatures | `OperandsDenote`, `TypesResolve`, `CallsReach`, `ContextAsSource`, `StaleRejected` |
| `builtins` | 378 queries with up to three answers: expressions, streams over files and strings, operators of every fixity on either side of each other, binders, read and printed variables | `EvaluatesTo`, `StreamsInOrder`, `RoundTrip`, `AnswersRead` |
| `linking_skips`, `control_import_cut`, `control_cut_again`, `control_true`, `terms_const`, `modules_context` | see the findings | one each, violated |

What the less obvious ones say:

- `Restorable`: for *every* choice point still there, unwinding to it gives back
  each cell it preserves.  `ImplementsBacktracking` says the same as refinement,
  of `Backtracking`, step by step.
- `BacktrackPointSound`: `HB` may lag above the heap point of the newest choice point, as it does
  after an interpreted cut and at the start of a query, and never below.
- `RecordsApart`: the extents of all records that anything can still read (the
  current continuation, each choice point's continuation and context) do not
  overlap, and end before the place where the next one is put.
- `ContinuationsIntact`: the chain of return addresses is that of the calls, from
  here and from every choice point.
- `SlotsAlive`, `ClosureAlive`: the compiler's sizes never trim a slot that a later
  goal, or a clause of an implication that outlives it, reads.
- `ReturnsHome`: a predicate that returns leaves the program context and the
  universe count of its call.
- `NoneSkippedApart`, `SourceOrder`: the clauses come in the order
  of the source, none that can match left out, apart from the merges of finding 4.
- `QueryEnds`, `Fails`, `FailureHandled`: progress.  The programs have no recursive
  predicate, so that a search that does not end is the machine's doing.
- `OnlyInstantiated`: across everything the machine does to the heap during a match, each
  argument means what it meant when the goal was called, under the bindings made since.
- `HeadUnified`, `NoSolutionLost`, `MostGeneral`: a match is a unifier, a failure means
  that no values in a finite set make the terms equal, and each such solution is an instance of the
  match (`NewVars` values for the variables the unifier introduced).
- `Restored` (`terms`): after backtracking the arguments are the terms they were, and the universe
  counts of their variables too.  The two-clause programs of `EqualPrograms` lower universes on every path but
  that of `hopu.c:968`, which fails to restore them (section 5).
- `Scoped`: no variable's value holds a constant, or a variable that may become one,
  of a universe later than the variable's.
- `OperandsDenote`: an operand in loaded code, traced back through the loader's
  addresses and the linker's offsets and renamings, is what the file it comes from had there.
- `CallsReach`, `ContextAsSource`: whatever the linker did to calls, tables and segments, a
  call tries the clauses the source gives it, in its order, in the context the source gives it.
- `EvaluatesTo`: the value computed from shared, delayed, partly normalised terms is the
  value of the expression that the term means; other arguments keep their meaning.
- `StreamsInOrder`: what a stream delivered is a prefix of its content even when readers were
  backtracked over; lines end where they end; what was written is in the file
  or in the buffer, in order; a closed stream is not used.
- `RoundTrip`: a term printed to a string and read back is the same up to names
  of variables.  `AnswersRead`: parsing the lines of an answer gives the bindings, one
  name for one variable throughout.

Bounds.  `Trail` with one heap cell and one stack cell has every comparison of an
address with `HB`, `HREG` and `B` come out both ways, and three choice points let one be
cut from below another; two trail items let one cell be trailed twice.  Beyond that
the proofs take over.  For `Indexing` four clauses give a switch before and after a
variable clause, and sequences of one, two and three (the three shapes
`try/retry/trust` can take).  For `Control` the stack (`stackEnd`) is large enough
for the deepest call of each program, except in `SmallSystem`, where it is not;
universe counts are bounded by `ucMax`, small enough that one program exceeds it.
In `terms` each family of programs is the product of all goals and heads of a small
grammar: applications of depth two, up to two binders, two arguments, two universes; the values a
solution is sought among are listed by type in `MCTerms` (`MCValues`), `NewVars` = 2 is how many
variables made by a unifier are given values, a normal form is searched for in 30 steps, and a path
through the heap has at most `Depth` = 60 objects (more would be a cycle); none of the programs come near.
In `modules` `Width` is the number of elements a packed index can have, as in the code;
`Depth` = 4 bounds nested calls, and a program has at most five
modules, enough for a module that is reached by two ways, accumulated by one that is
imported, and compiled against another version.  In `builtins` a word holds 4
characters and an integer 8 bits, so that a sum overflows and a string crosses a word; the table
of variables has `MaxFreeVars` = 12 places, and some queries fill it.

Fairness.  `SIM_simulate` is a loop that executes the instruction at `P` and never
waits, so `WF_vars(Step)` is all that `Control` and `Indexing` assume, and in `Trail` weak
fairness of unwinding and of the alternative that follows it.  No assumption is made
on the user: asking for more answers is never fair.  `TermMachine`, `Modules` and
`Queries` state safety only and assume nothing.  `CHECK_DEADLOCK FALSE` stands where the
program really stops: after an overflow, `stop` and `halt`, a program that failed to link or
whose query is answered, and a query that ended in "no" or in an error.

## 4. What is proved

### The trail

`TrailProofs` proves, for all `StackBeg < StackEnd`, any trail size, any number of
choice points and any contents (with `FreeType` among the types):

- `TypeCorrect`: `Spec => []TypeOK`;
- `ChoicePointsStayOrdered`: `Spec => []CPsOrdered`;
- `RegistersStaySound`: `Spec => [](BacktrackPointSound /\ TestsCover)`.  The registers *bound* what is preserved, they are not
  those of the newest choice point: `HB` is never below its heap point but may lag above it, and `TestsCover` says that each
  cell of *any* choice point is below the register its binding is tested against;
- `TrailingIsSufficient`: `Spec => []Restorable`;
- `TrailImplementsBacktracking`: `Spec => Abs!ASpec`, the refinement.

The inductive invariant is `IInv == TypeOK /\ CPsOrdered /\ BacktrackPointSound /\
Restorable`.  `Restorable` alone is not inductive: that an untrailed binding
disturbs no choice point needs the cell to lie above what *every* choice point
preserves, while the tests look only at `HB` and the newest one.
`BacktrackPointSound` bounds what the newest preserves by the registers and `CPsOrdered`
carries this over to the older ones; that is lemma `PreservedBound`.  The lemmas
`UntrailedWrite`, `TrailedWrite`, `UnwindStep` and `PopChoicePoints` each say what one kind of
change does to `Restorable` for all choice points at once; `NextIInv` then has one step
per action.  For the refinement, `AbsStore` during unwinding is already the
snapshot it will be, so that unwinding is a stutter and the failure itself
the abstract restore; that the concrete store *is* the snapshot once unwinding is over is
`Restorable` with no entries left.

Assumptions are `SizeAssumption` and `ContentAssumption` of `Trail`.  `CPMax` bounds `Try` for
TLC and is any natural number in the proofs.

### Indexing

`IndexingProofs` proves, for definitions with any number of clauses and any code of which
`IndexedPrograms` and `SharedByLinking` hold.  *Shared* definitions, those merged by the linker with two clauses for one
key in one of them, are set apart in all three theorems (finding 4 is about them):

- `TriedInOrder`: `Spec => [](~prg.shared => SourceOrder)`.  The run finds `SourceOrder` in shared
  definitions too, the proof does not reach them;
- `NonePassedOver`: `Spec => [](NoneSkippedApart /\ (~prg.shared => LeftToTry))`.  `LeftToTry`: each clause that could match has been
  tried, or can still be come to from `P` or through a choice point;
- `LastHasNoChoicePoint`: `Spec => []LastIsDeterministic`.

None of the three is inductive: what has been tried says nothing of what is still to come.
The invariant adds it.  `Ahead(q)` are the clauses that can be come to from address `q`; `InOrder` says that what
has been tried precedes what is ahead of `P`, that what is ahead of `P` precedes what is ahead of every choice point,
and that newer choice points precede older ones; `Covered` that these together are all that was ahead of the entry;
`InPlace` that a later clause is only come to through the newest choice point.
The steps are of two kinds, and each has a lemma: `GoingOn`, and `FallingBack` to the newest choice point.
What the assumption says is local to each address and of the code alone: the theorems
are the step from there to runs with backtracking.

### The control stack

`ControlProofs` and `ControlClosures` prove, of every program in `Systems`, whatever its code, tables, goals,
stack and universe limits:

| theorem | `Spec => [](WellShaped(prog) => ...)` |
|---|---|
| `Invariant` | `IInv`, the inductive invariant |
| `RegistersInBounds` | `TypeOK` |
| `CallersKept` | `ContinuationsIntact` |
| `EachReturnIsHome` | `ReturnsHome` |
| `CutsAreLive` | `CutsToLive /\ CutsStayInCalls`: no cut drops a choice point older than the call it works for allows |
| `VariablesKept` | `SlotsAlive` |
| `LaterClausesByBacktracking` | `AlternativesByBacktracking` |
| `BacktrackingRestores` | `Restored` |
| `RecordsStayApart` | `RecordsApart` |

| theorem | `Spec => [](WellShaped(prog) /\ ClosuresShaped(prog) => ...)` |
|---|---|
| `ClosuresInvariant` | `CInv`, the second inductive invariant |
| `ClosuresAlive` | `ClosureAlive` |

*Why a hypothesis.*  The machine checks nothing: given code that reads an unset variable, or leaves a record behind,
it goes astray, and findings 2 and 3 are that.  `Shapes` says what code must be like.
The *shape* of an address is what can be seen of the code before it, linearly, as a verifier of bytecode would:
whether the clause has an environment there, what each variable holds, how many
records and universes the clause has entered, whether `B0` is its cut point, whether `A1` holds a goal, and
of how many predicates the definition may be extended.  `Finds` is what
each instruction needs, `After` what it leaves; code is `WellShaped` if each instruction finds what it needs where it
stands, and the labels lead where the shapes fit.  No theorem assumes anything about runs.
The hypothesis leaves three things aside, and no theorem of `Control` is about them: queries with a cut that no predicate
encloses (there `CutsToLive` is false, finding 2), code with imports, and procedures that the linker has merged.  `control` runs
programs of the last two kinds, `control_cut_again` one of the first.

A clause of an implication also reads variables of the clause around it, through `CE`.  Two more tables are seen in the code:
`Homes`, the table (of an implication) whose definition the clause at an address belongs to, if it can be come to through no other;
and `Pushes`, the tables a clause has pushed and not popped.  Code is `ClosuresShaped` if `init_variable` stands only
where the home is known, jumps stay within a home, calls by label lead to no home, and wherever a table is pushed the clause has, set and not trimmed
away, each variable that the clauses of that table read (`Lent`).

The hypothesis is met: `CompiledShaped` of `MCControl`, an assumption that TLC evaluates, says that the code which
the models of the compiler's passes generate for the programs of the run is well shaped, implications in implications included: all but those with imports, or
merged by the linker, which the shapes leave aside (a jump over `push_import` depends on
a count, and merged code has the labels of finding 4).  What `SlotsAlive`, `ClosureAlive` and `AlternativesByBacktracking`
say of the compiler is so split in two: TLC shows, for the programs of `MCControl`, that it generates well-shaped code, and the theorems say what
the machine then does with *any* such code.  A variable given up one goal early by `Sizes`, or an ending without `proceed`
(finding 3), makes `CompiledShaped` false.

*The argument.*  None of the properties is inductive.  That a return finds its caller's
environment depends on where everything else lies; that backtracking restores it, on what was trailed; that a cut
names a live choice point, on the cut points kept in every environment that may
yet be returned to, now or after backtracking.  The invariant (`ControlInvariant`) has three parts.

- A *view* is what a clause can rely upon: the records of its context are what they should be (`Records`),
  records, environments and choice points lie apart and below `TOS` (`Layout`), each call waits with an environment of the
  shape of its return address, with levels that name choice points no callee may have cut (`Calls`), and the clause itself is
  as the shape at `P` says (`Running`).  While the machine runs it has a view, of the shape at `P`;
  each choice point keeps another one, of the stack *as it was when the choice point was made*, with the shape of the clause to be tried
  next (`Waits`).
- *Memory*: for each choice point, every word that was known then is the same now, or
  has been bound since and stands in the trail above the choice point's mark, and every trail item above the mark holds what
  was known (`Keeps`, `Trailed`, `Logged`).  Of words that were unused nothing is known, and they may be written.
- *Inheritance*: what the machine's view, or that of a choice point, has below an older choice point, is what that choice point keeps: each
  environment there is one of its environments, with no more variables needed than there, and each record one of its records (`Heir`, `Inherits`).

A step that goes on changes the view: `ControlViews` has lemmas that a view holds in any stack
that keeps what it is about, and that each part of the layout may be added to, popped or trimmed, and its second part puts them together
for allocating, calling, returning, pushing and popping records, cutting, and making a choice point.  `ControlMemory` has what
writes, bindings, new choice points and dropped ones do to the memory, and that unwinding the trail brings back what each choice
point knows (`Unwinds`, `Rewinds`).  A failure exchanges the view: the kept view of the newest choice point, moved to the stack that
unwinding leaves, is the view of the machine.  `ControlSteps` and `ControlProofs` then have
one lemma per action, `StepsKeep` one case per action, and `TypeHolds` to `RestoredHolds` what follows in every state.
TLC checked the invariant on the programs of `control` before it was proved.

`RecordsApart` speaks of what can be *reached*: the chains of environments and of records are followed through the stack as it
is now, from the machine's registers and from what every choice point saved.  `ControlExtents` shows that a chain reaches only what the
view has (`Gathered` and `ChainIn`: the links lead downwards, so that what is gathered along them is well defined), that what a choice point keeps
lies where it lay when the choice point was made, and, by inheritance, that a later view's records either are an older one's or lie above
the older choice point, which lies above all that it keeps.  A view alone does not give this: it says that its own records lie apart
from each other and from all choice points, but not which records it shares with them.

`ClosureAlive` needs a second invariant, `CInv`, beside the first.  `IInv` says that what waits is kept, not *whose* environment
`CE` is.  `CInv` says it: each record that a waiting clause has pushed holds that clause's environment and the table it was pushed for
(`Lends`); the clause that runs came from a record for its home, which `CI` names (`ComesFrom`), and so did every waiting clause, by the `CI`
saved in its environment; a predicate that a record extends has its code from an older record, named beside it (`NextHome`, which
`trust_ext` follows); `CE` is what the record in `CI` lends (`Enclosed`); and the same holds of what each choice point may resume (`Resumes`).
A step that only writes keeps this because the records, and the words `CI` of the environments, are firm (`ClosuresStay`); a call adds a waiting clause that
lends (`LendingAdds`), a return drops one (`LendingDrops`); a lookup ends in a record of the context (`NamedComes`); a choice point made takes a copy
(`ChoiceCloses`), and a failure takes it back (`ComesBackKnowing`).  At a read, the record in `CI` is above the module's, so some waiting clause has pushed it
(`SomeonePushed`: between two calls the context has grown by what that clause pushed); that clause's environment is on the chain
(`ChainHas`, the converse of `ChainIn`), and the shape of its return address, by `Lent`, has the variable within its size and set (`LentAlive`).
TLC checked `CInv` too on the programs of `control` before it was proved.

Assumptions: `SystemAssumption` of `Control` (the fields of a system), and the numeric layout of its records.

### Only model-checked

- Liveness (`QueryEnds`, `Fails`, `FailureHandled`): fairness and `ENABLED` are out of the prover's reach.
- All properties of `Control` for programs with imports and for merged definitions, and with them `CountsRestored`:
  lemma `RestoredHolds` covers it too, but well-shaped code changes no count.
- Everything about terms, linking, printing and parsing, whose operators are recursive over the
  data: what a recursive definition computes for every input needs induction over data, and modules
  that reach a `RECURSIVE` operator are out of the prover's reach altogether.

## 5. Findings

Each is a run whose property TLC finds violated.

1. **`control_import_cut`** (`simulator/siminstr.c:1434`).  `add_imports` and `remove_imports`
   trail a backchained count only if `B` is above the choice point the count was last changed
   under.  After a cut that choice point is gone and its address may be higher than
   that of a newer one, so that the change is not trailed; after backtracking the
   count says that imports are present which are not, and the next call
   of the predicate skips pushing them.
2. **`control_cut_again`** (`simulator/siminit.c:253`).  `SINIT_reInitSimState` resets `B` but
   not `B0`.  A query that begins with an interpreted conjunction saves the `B0` of
   the query before, and its cut goes to a choice point that no longer exists.
3. **`control_true`** (`compiler/clausegen.ml:1836`).  A last `true` in a clause with an
   environment compiles to `deallocate` with no `proceed`: the clause runs on into
   the code that follows it.
4. **`linking_skips`** (`linker/code.c:745`).  The linker fills the two labels of
   `try_else` and `retry_else` in the opposite order to the one the simulator reads them in, so
   that a clause is passed over.  This takes two or more clauses for one constant in the younger definition
   and some in the older; no clause is tried twice or out of order even so, and calls end, which
   `indexing` shows.
5. **`terms_const`** (`simulator/siminstrlocal.c:541`).  When the argument is flexible only after
   normalisation, a typed constant of a head tests the number of binders where its
   untyped twin tests the number of arguments, and so binds `F` to the constant in `F a`.
6. **`modules_context`** (`simulator/siminstr.c:1502`).  `call` with a static address leaves `CI`
   alone.  Called from the clause of an implication, a clause of the module that imports reads and writes the
   count of its segment in the implication record, which has none.

The programs of the passing runs avoid what these need (a cut between two imports, a
second query that cuts before it calls, a last `true`, repeated keys in `NoneSkippedApart`, a typed
constant against a flexible application, an implication over a predicate with imports),
and what is listed below;
the merged predicate of `control` does have repeated keys: the
records stay sound even so, the clause alone is lost.

### Further divergences, kept out of the passing programs

Met while modelling; the models follow the code, and the inputs that would bring these out are left out of
the MC modules, at the places named here.

Unification and terms:
- `get_p_structure` compares arguments and binders the wrong way round for a rigid term
  found after normalisation (`siminstr.c:574`): solutions are lost.
- Flexible terms under more binders than the rigid one (`hopu.c:1651`) go on with the counts of the other term.
- `H c d = f (H d a)` delays a pair that is looked at for ever (`hopu.c:1578`).
- `HOPU_bndVarFlex` (`hopu.c:968`) lowers the universe of the head of `F a` when a variable of a lower universe is bound to that
  term, but trails the address of the application: after backtracking the head keeps the lower count.
  With `Programs <- LoweredPrograms` in `MCTerms.cfg` TLC finds `Restored` of `TermMachine` violated; `EqualPrograms` leaves the pair out.
- `unify_m_constant`, `unify_p_constant` read a universe count left by an earlier instruction
  when the argument was delayed (`siminstr.c:763`, `777`).
- The suspension case of the renumbering of an environment (`hnormlocal.c`) pushes the skeleton; `HN_addNPairEmpEnv` numbers from 0;
  `get_type_arrow` and `set_lambda` use a static register of an earlier instruction; a caught type failure leaves types bound (`hopu.c:196`).
- `switch_on_bvar` assigns where it should compare (`siminstr.c:1749`); the compiler does not emit it.

Linker and loader:
- A static call to an accumulated predicate without clauses resolves to -1; `AccImportTab` appends
  open predicates with operands that are not renumbered (`importtab.c:250`); imports of accumulated
  modules are not marked dynamic; a predicate that is `exportdef` without clauses compiles to `fail` even if an import extends it.
- `GetBvrTabInd` uses the offset of hash tables (`module.c:415`); the loader overwrites the head of a structured type
  and its checks of indices are off by one (`i > num`).

Builtins:
- A stream is closed by marking one term; head normalisation copies stream terms
  from environments into arguments (`hnormlocal.c:235`, `414`), and a copy goes on using the closed stream, against the comment at `io.c:113`.
- Reading adds the text's variables to those of the query, where they stay when the
  read is backtracked over; a full table ends the query with "no" although choice points remain.
- String `<` tests `>=` (`compexp.c`); this one is modelled and no property is about it.  `mod` by zero is
  unchecked; the logarithm of a number that is not positive raises the error of square roots.
- Text: `=<` and `~` are printed as `<=` and `-`, quotes in strings undoubled, negative numbers with a sign that does not
  read back, a prefix operator to the left of an infix one without the
  parentheses that the parser needs; an operator as a bare argument, and an infix operator with one
  argument, are not written as they are read (for the latter `writeApp` goes past the vector).
- A name read twice, or one that is a name of the query, is another variable with the same name.

## 6. What is not modelled, and why

- The heap in `Control`, and the stack records in `TermMachine` and `Queries`: each model has
  what its properties need; that the compiler's terms survive calls is
  `HeapClosed` (last calls), that its environments do is `SlotsAlive`.
- Register allocation (`registers.ml`): `GenTerms` takes a fresh register each time, as an
  allocator that never reuses one would; that reuse is right is not shown.
- Compound trail items (`MULTERM1`, `MULTERM2`), treated as terms of one cell; overflow of heap and PDL; the
  checks `AM_heapError` of each routine.
- The byte layout of words and files, the loader's type skeletons, reading
  errors, the disassembler, the table generators: serialisation without behaviour of its own.
- The typing and clause-processing passes of the compiler: programs enter as these leave them.
- Sockets and the clock, which the code does not implement either; the trigonometric functions; messages.
- Batch options of the driver (`-m`, `--min`), prompts, command lines.
- Universe indices of hidden constants (`AM_initLocs`).

See `PROJECT.json`, "components", for each part.

## 7. Plan

Done, in this order: the trail with its abstract store and proofs; the
control stack with the compiler passes that feed it; indexing; the proofs about both; the linker's merge; terms, normalisation and
unification; linking and loading of modules; builtins with printing and reading.

Next:

1. Proofs: the theorems of `Control` for code with imports, whose shapes would have to say what `add_imports` skips.
2. `Registers`: chunks and argument registers (`registers.ml`), composed with `GenTerms` in place of fresh registers.
3. Universe indices of hidden constants across imports and backtracking, as an extension of `Control`.
4. The exception stack (`system/error.h`) and the handlers of the front end.
5. Merges of three and more definitions.

An abstract specification worth stating: a search tree whose nodes are goals and
contexts, which `Control` implements for programs without terms (answers in the order of a
depth-first search).
