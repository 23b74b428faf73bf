# A TLA+ model of the EnlightenedC compiler

EnlightenedC (`ecc`) compiles a C/HolyC dialect.  This directory models the parts of the
compiler that have a life of their own: state that many visits share, results that
travel between passes, errors that unwind through half-done work.  Every definition is
translated from the code under `src/` (paths below are relative to it); `PROJECT.json` maps
each one to its lines.

Contents: [inventory](#inventory), [modules](#modules), [runs](#runs),
[proofs](#proofs), [what the models found](#what-the-models-found),
[not modelled](#not-modelled), [plan](#plan).

## Inventory

`Ecc::run` (`lib/ecc.cpp`) compiles the files of the command line one after the other in one
process.  For each a `Driver` runs a `Frontend` (the system's `cpp` behind a pipe, a
Flex lexer, a Bison parser that builds the AST) and a `Backend`, which runs the passes

    AST --MIRSynthesizer--> MIR --Validator--> MIR --LIRSynthesizer--> LIR --CFGBuilder--> CFG

each one a visitor that walks the tree the one before has built.  Code generation is a stub.

| Part | State it keeps | Operations | What is hard |
|---|---|---|---|
| CFG graph (`lowering/cfg/cfg.*`) | blocks, terminators, `succs` and `incoming` of each block, constant pool | create blocks, terminate, set targets, link | the successors of a block exist twice; targets are set long after the terminator is made; constants are shared by value |
| `CFGBuilder` | `curr_func`, `curr_blk`, `infostack`, `pending_gotos`, `labeled_blocks` | one visit per LIR node | blocks are made before and wired after nested visits; goto both ways; short circuit changes the current block in the middle of an expression |
| CFG walkers | `visited`, the order, the iterator's cursor | `walk_function`, `blocks()`, `next()` | chains followed in a loop instead of by recursion; one object reused for many functions |
| `SymbolTable`, `SymbolTableWalker` | the scope tree, per scope five maps; `current`, `next_scope_idx`, `prev_scope_idxs` | push, enter, pop, reset; inserts; lookups | scopes entered by index; aliases displace symbols others refer to; label lookup stops at function boundaries that are drawn late |
| `MIRSynthesizer` | the walker of the table, `last_result`, `found_errors` | one visit per AST node | scopes pushed by three mechanisms; errors caught in two of many visits |
| Semantic visitors and guards | the stack of visited nodes, scope guards | enter/leave a node, a scope | guards unwind with exceptions, explicit pops do not |
| `Validator` | stack of visited nodes, stack of switches, `main`, print function | one visit per MIR node; `always_returns` | answers questions about control flow before there is a CFG |
| `LIRSynthesizer` | queues of items to hoist per function | one visit per MIR node | functions nest in MIR and not in LIR |
| Driver, `Ecc` | diagnostics, interned strings, the arena | run, reset | five kinds of exceptions end a file or the process; global state survives a file |
| Frontend | the pipe to `cpp`, a flag between parser and lexer | parse, close | `cpp` runs concurrently, may fail at any time and blocks on a full pipe; the lexer needs to know what the parser has seen |
| Types (`TypeContext`) | interned types, reference counts of arrays, classes and what they inherit | make, size, release, compare, convert, find members | arrays whose size is known later; members numbered through ancestors; types filled in while others refer to them |
| Expressions, values, constant folding | none, the tree itself | check, convert, fold, lower | some twenty kinds of nodes handled by four passes that must agree on types, on lvalues and on what is evaluated once; arithmetic at every width and sign |
| Arena | slabs, cleanup chain | allocate, create, reset | slab boundaries, oversized objects, reset with live destructors |
| Containers | linked nodes, chunks | insert, remove, move, swap | neighbours, ends, ownership |
| AST, MIR, printers, tokens, configuration | plain data | | |

The components interact by calls only, within one thread; the one concurrent actor is `cpp`.
State is shared through the symbol table (all passes), the arena and the interned strings
(all files).  What is hard about it is therefore not interleaving but *order*: nested visits
that leave work for later, state that belongs to the wrong lifetime, and errors that
leave in the middle.  The hazards in `PROJECT.json` list where this bites, line by line.

What makes each part correct: the CFG is complete, consistent and means what the source
says; a walk delivers each reachable block once and in depth-first order; names resolve
lexically and no symbol in use is lost; scopes are popped in step with visits, and a program
with an error goes no further; lowering keeps the statements, locals and functions of the
source and their order; a checked expression keeps its types and its meaning through folding and
lowering; blocks of the arena never overlap and each destructor runs once; a file leaves
nothing behind for the next, and the exit status says what happened.

## Modules

| Module | Models |
|---|---|
| `CFGraph` | the graph of one function as a value, and its primitives |
| `CFGBuilder` | the visits of statements as actions on that graph |
| `CFGProgram` | `CFGBuilder` restricted to the programs MIR synthesis and validation let through |
| `BlockOrder` | abstract: what consumers of a postorder walk are promised |
| `CFGWalker` | `visit_block` with its call stack, the three walkers and their iterators |
| `SymbolTable` | the scope tree, names, and the walkers on it |
| `MIRSynthesizer` | the nesting of visits, scopes and errors of the synthesizer |
| `Validator` | the stack of nodes, the trackers of switches, where statements may stand |
| `LIRSynthesizer` | the queues, hoisting, functions and locals of the LIR |
| `Lowering` | both of them walking the same program |
| `Primitives` | primitive types, promotion, the operators' signatures |
| `Types` | types as values: conversions, completeness, members by name and by index |
| `TypeContext` | the types that live: declarations, initializer lists, sizes and release of arrays |
| `Values` | compile-time values and the operators on them |
| `ExprValidator` | what each kind of expression asks of its operands, and the conversions it inserts |
| `ConstantFolder` | the constant evaluator and the folding pass |
| `ExprLowering` | expressions in the LIR, and as instructions, blocks and phis |
| `Expressions` | one expression on its way through all of these |
| `Arena` | `BumpAllocator`: slabs, custom slabs, cleanups, reset |
| `Driver` | `Ecc::run`, `Frontend` with `cpp` as a process, `Backend`, over the arena |
| `ListOrder` | abstract: what a linked list does to sequences of nodes |
| `LinkedList` | `ds::LinkedList`: every operation as updates of links and ownership |
| `CFGBuilderProofs`, `CFGProgramProofs`, `CFGWalkerProofs`, `SymbolTableProofs`, `MIRSynthesizerProofs`, `LoweringProofs`, `LinkedListProofs`, `DriverProofs` | the proofs about these modules |
| `MC...` | instances for TLC |

Definitions marked as mutants or mutations are not part of a specification: each is the
definition it stands before with a plausible bug, under which the property named with it in
`PROJECT.json` fails.

### CFGraph, CFGBuilder, CFGProgram

*State.* `g` is the graph of `curr_func`: number of blocks, terminator and targets of each,
both edge lists, and `ice`, the text of the `ECC_ASSERT` that failed.  `curr` is `curr_blk`,
`pending`, `labeled` the builder's maps.  `stack` holds what the C++ call stack holds: for
each visit of a statement with nested items, the locals it uses after they have been visited
(the exits of branches, the blocks of a loop) together with its `NestedStmtInfo`.  The
`infostack` is the subsequence of loop and switch frames.

*Actions.* A visit without nested items is one action.  A visit that recurses is split where
it recurses: `EnterX`, then any actions for the items, then `ExitX`.  The LIR is not stored:
the environment's choice of the next action is the program.  Expressions are
abstracted to whether they branch: `EvalGraph` is a short-circuit operator, which ends the
current block and goes on in another.

*CFGProgram* is the composition with the earlier passes.  It tracks, per statement in
progress, what `Validator::always_returns` would say of the items so far, where the validator
allows break, continue and case, and the `Return` the MIR synthesizer appends to a void
function; a function may only end when these allow it.  Next to it, `live` computes by the
structure of the source alone whether the current point can be reached.  It is the
independent account that `GraphMatchesStructure` compares with the graph.

*Left out.* The position of blocks in the function's list, the init and step of a loop as
branching expressions (conditions, statements, returned values and switch controls do branch),
inline assembly, the constant pool.  What the visits of expressions emit, phi nodes among it,
is in `ExprLowering`.

### BlockOrder, CFGWalker

`CFGWalker` has the loop of `visit_block` step by step: `calls` is the C++ call stack, each
activation with its loop variable, its chain, and the next successor to look at.  A
`use` of a walker is its kind and the functions it is to walk, a declaration among them
being `NoBody`.  `Begin` and `Read` are `blocks()` and the iterator's `next()`.
`BlockOrder` says what a consumer relies on, with no word on how: each block once, only what
the entry reaches, no block before those it leads to unless they lead back.
`PostorderPromise` is the refinement.

### SymbolTable

`tree`, `names`, `syms` are the table; `walker` the `SymbolTableWalker` of the synthesizer with
its three fields; `reader` a walker that replays the moves, as an `ASTScopeGuard` does in
the READ state (`include/semantics/semantics.hpp`) and the unit tests do; no pass of the
current compiler is such a visitor, the later ones set `current` directly.  A symbol's
type is reduced to the signature of a function, a model value.  Inserts that
throw change nothing and are absent.  Lookups are operators.

### MIRSynthesizer

`frames` are the visits in progress, `scopes` the path from the global scope to
`syms.current`.  Statements are classed by how they treat sub-statements: lists take
whatever an item leaves in `last_result`, an `if` takes one or two statements, a `for`
takes one and pushes a scope, the rest take one.  `Throw` is any `UnableToContinue` or caught
`EccError`, unwinding to the innermost compound or function, after `AddError`, which every
such place of the code calls; `Report` is `add_error` without a throw; `CheckConstant` the check of a
constant expression or `constexpr` by an `ExprValidator`, whose diagnostics are drained before
the visit throws.  `Escape` is an error that only `Backend::run` catches, `EvalEscape` one that only
`Ecc::run` does, and `EnterBody(TRUE)` is `insert_implicit` throwing a `Symbol*`.

Errors are numbered as they are found (`noticed`).  `reported` are the diagnostics of the
synthesizer, `found` is `found_errors`, `told` what has been printed.  `Finish` is the end of
`generate_mir` and the gate behind it, which looks at `found_errors` only if there are diagnostics.

### Validator, LIRSynthesizer, Lowering

*State.* Of the `Validator`: `ctxt` is `ctxt_stack`, `switches` the `SwitchTracker`s, `marked` says
whether `main` and the print function have been met, `errors` is `found_errors`.  Of the
`LIRSynthesizer`: `current_q` and `queue_stack`, in `visits` the locals of the visits in progress
(the queues they sort their parts into), `func_stack`, and the `LIRSymbolMap`.  An item is a
function, a declaration or a token of a statement list: a statement with nested lists, one node
in the code, is written as its brackets with what is between them, so that order and nesting
can be read off a sequence.

*Actions.* `EnterX` and `ExitX` for what nests, one action for the rest.  `Validator` catches
`UnableToContinue` at each statement and goes on; a second `main` is thrown out of the
function.  In `Lowering` each action of the program is the two visits in step: the second pass
starts only if the first finds no error and meets the nodes in the same order, so it is
stopped at the first error.  `source` records, independently of both, what a reader finds in the
program: per function its statements and locals in their order.

*Left out.* Expressions (next section), the diagnostics' text, and the flattening of initializer
lists to bytes.

### Primitives, Types, TypeContext

`TypeContext` of the code interns: equal types are the same object.  In `Types` a type is a
record that says how it is built, so that equal means equal, and `records`, the only state,
says what classes and unions consist of so far.  Coercion, casts, completeness and the lookups
of members are operators on them; `Stray` is what `find` reads behind the members of a class.

`TypeContext` has what is alive: `arrays` with their reference counts, `pointers`, `open` records,
the `symbols` that have been declared, and `frames`, the initializer lists being visited.
`StartRecord`, `AddParent`, `AddMember`, `FinishRecord`, `DeclareParam` and `DeclareVar` are
declarations in the order of the program; `Element`, `OpenList` and `CloseList` the visit of an
initializer, which tells an array without a size what size it has, and `StrayElement` that of an
element whose member is read from behind the class, after which nothing is known; `CheckVar` and `UseVar`
the `Validator` on variables and on the expressions that name them.

*Left out.* Layout (the LLVM backend answers it), mangling, `atomic` and `volatile` (no syntax),
attributes.

### Values, ExprValidator, ConstantFolder, ExprLowering, Expressions

An expression is a tree of nodes with types.  `ReadX` of `Expressions` is the visit of a node
whose operands have been visited: `ExprValidator` checks them, inserts the implicit conversions
and gives the node its type, or refuses it.  A checked tree is then the initializer of a
`constexpr` (`EvalConstexpr`), or it is folded (`Fold`, optional as the pass is),
lowered (`LowerIt`) and made into instructions (`Build`).  `CodeOf` threads the state of
the `CFGBuilder` through the expression: the current block, edges, instructions, phis.

The integers keep their widths: `Values` wraps, extends and truncates at `Bits[r]` bits.  The
widths are a constant, and small in the instance; nothing in the code depends on the numbers 8
to 64 but on their order.  Independently, `Meaning` says what a checked expression is
worth, each operator working on the types of its operands; `ConstObject` whether an
expression stands for a const object, whatever way it is reached.

*Left out.* Floating-point values (the types are there), inline assembly as an operand, strings
as more than their length.

### Arena, Driver

*Arena.* `slabs` and `custom` are sizes, `cur` the start of the free space, offsets in a slab stand for
addresses.  `create` is two steps, as the constructor may create more or throw:
`StartCreate` takes the memory, `FinishCreate` links the cleanup, `Unwind` is an exception that
leaves any number of constructors.  `blocks`, `complete`, `destroyed`, `parts`, `born` are history
variables.  `Release` ends a reset or the arena's life.

*Driver.* `at` is where the compiler stands, `throwing` the exception on its way.  `Uses` stands for
anything the passes do with the arena and the string pool.  `cpp` is a process of its own:
it writes while the pipe has room, may fail at any time (`CppFails`), exits, or is killed by
SIGPIPE when the read end is closed.  `Parsed` is the end of the parser, with or without an
exception; `Closes` and `Reaps` are `pclose`, first its close and then its wait, whether
`Preprocessor::close` or the destructor calls it.  `Caught` is the catch clause of `Ecc::run` that
applies, and the walk of the cleanups takes a step per object.  `Driver` extends `Arena` and uses
only its actions; `DriverProofs!Refinement` shows that it does.

*Left out.* Names of output files, what a file's diagnostics say, reading options.

### ListOrder, LinkedList

*State.* `links` are the four pointers (`first`, `last` of a list; `next`, `prev` of a
node), `nodes` the map that owns the nodes of each list, `val` what they hold.  A node is an
address, and may be used again once it is free.  `copying` holds the locals of the loops of
`extend`, `prepend` and copy assignment between two turns.

*Actions.* One for each member function that changes a list.  `LinkBack`, `LinkFront`,
`LinkBefore`, `LinkAfter` and `Unlink` are the private helpers of these names, `SwapNodes`
the three cases of `swap`.  The loops that copy take a step for each node, so that what they read
next is read from the list as it then is, and end early if there is no memory.

`ListOrder` has no links: a list is a sequence of nodes, an operation says what it does
to the sequence.  `KeepsOrder` is the refinement, under which a list is the sequence a loop from
`begin()` meets.

*Left out.* Iterators kept while the list changes (the types do not protect them and callers
do not keep them), `operator==`, and two calls the code does not protect against and nobody makes:
`extend` with the list's own nodes, which does not end, and move assignment to itself.  Memory may
run out when a node is made (`OutOfMemory`), but not in the map that owns the nodes: `link_back` and
its siblings link a node before they insert it there, and a throwing `emplace`
(`include/ds/linkedlist.hpp:560`) would leave links to a node that is destroyed again.

## Runs

`lowering`, `lowering_reinit` and `driver` check for deadlock: the program can always go on until it is
over (`Finished`).  The other specifications stop when their bounds are exhausted or the
program is over, and do not check it.

Where a run names one property for several, the property is the conjunction of the named
parts, usually the type invariant and what belongs to it: `WellFormed`, `GraphComplete`,
`StructureKept`, `WalkExact`, `WalkersFollow`, `LookupsLexical`, `ScopesTied`, `ListsAgree`,
`VisitsInStep`, `TypesFinite`, `FilesIndependent`.

| Run | Shows | Bounds |
|---|---|---|
| `cfg_programs` | no assertion fails but the one about pending gotos, and that only with a goto to another label ahead; every block that must be is terminated, every target is set, both descriptions of edges agree, the graph matches the structure of the source, loops do not skip their parts | six families, see below |
| `walks` | walks are sound, complete, depth-first and end; iterators yield the order; refinement of `BlockOrder` | all graphs of 4 blocks in which blocks have up to 2 successors and the entry up to 3; two functions of up to 3 and 2 blocks with a declaration, each kind of walker |
| `sym_scopes` | walkers keep to their path, replays follow, no symbol lost, lexical lookup, labels within functions | 6 scopes without names, one reset, replays; 5 scopes with 2 symbols of one name; 3 scopes with 3 |
| `mir_errors` | scopes in step with visits, functions tied to their own scope, errors stop the unit and are all printed, once and in order | 5 visits in progress, 5 scopes, 3 errors |
| `lowering` | trackers in step with switches; what the `Validator` accepts is hoisted without losing, reordering or misplacing a statement, a local or a function, and can be placed by the `CFGBuilder` | 2 functions, 4 items, 4 deep, no constant initializers, no function inside a loop or switch |
| `types` | no record contains itself, arrays in use stay known, members are found the same way through every ancestor, and by the index given for them | 3 classes that may inherit, a union, an enumeration, 2 names, 6 declarations (a variable counts as 3), lists of 2 elements, anonymous members of class and union type |
| `expressions` | types agree at every node, folding and lowering keep the meaning, const objects are not written, `constexpr` values are exact, effects happen once, phis match edges | five vocabularies, see below |
| `driver` | blocks never overlap, cleanups run once and in order, files do not see each other, the exit status tells, only what `cpp` completed is compiled, each child is waited for once, the process ends | 2 files, `stop_at` 1, 2, 3 and 8 (a gate each, or none), 2 pieces from `cpp` through a pipe that holds 1, 2 uses of the arena per file, slabs of 4 units that double, sizes 1 and 5, alignments 1 and 4 |
| `linked_list` | links and ownership agree both ways, indices are found, loops that copy stay on the list, refinement of `ListOrder` | 2 lists, 4 nodes, 2 values; nodes, lists and values are interchangeable |
| `lowering_reinit`, `types_release`, `expr_callee` | the findings below | smallest that show them |

*Families of `cfg_programs`.*  (1) all structured statements and branching expressions, 6
blocks, two deep; (2) loops of all shapes, 7 blocks, two deep: a loop takes up to 6 blocks
of its own, so that a nested loop, or a loop with a break or a continue, fits; (3) two labels
with loops, 5 blocks; (4) with switches too, cases inside loops inside the switch, no default, 4 blocks;
(5) the same labels in two functions one after the other, 3 blocks each; (6) functions that
return a value, 5 blocks.  The builder keeps nothing from one function to the next
but `pending`, which `TargetsResolved` shows to be empty, so two functions are enough.  In (3)
to (5) reachability is not a matter of structure, and `GraphMatchesStructure` and
`LoopPartsNotSkipped` say nothing, and a function in which the assertion about pending gotos fails is
built no further.  The families leave out what two findings are about: switch bodies that fall out,
and loops in functions with a value.

*Walks.* Four blocks are the least in which a branch, a join, a cross edge and a back edge
occur together.  All block lists are distinct and nothing leads to the entry: the
builder creates the entry first and no statement jumps to it.

*Names.* One name: names interact only with equal ones.  Five scopes hold a
function, blocks in it, and a nested function beside; three symbols let an alias displace one that another
hides.

*Lists.* Four nodes let `swap` meet neighbours and nodes with one between them, at either
end and in the middle; two lists let nodes change their owner.

*Lowering.* Four items are a function, another in it, and two statements of which one may
hold the other: the least in which the queue of an inner function could end up in the outer
one.  The case values include two of different types with the same bits.

*Vocabularies of `expressions`.*  `Everything`: all kinds of nodes, up to three; `Arithmetic`: five
nodes over operands of two widths; `Access`: six, for the ways to reach and change an object;
`Calls`: five, with branches in all operands (a branch costs nothing, so that they nest);
`Effects`: six, side effects on the way to what is assigned.  Integers have 2 to 5 bits: the
widths differ, and every wrap-around, extension and shift beyond the width is in reach.
`MeaningKept` gives each variable the values 0, 1 and -1.

*Driver.* Two pieces and a pipe of one are enough for `cpp` to block; two files for one to
follow another, and since nothing but the emptied arena and pool, `errors_found` and the
children waited for survives a file (`FilesIndependent`), more would add nothing.  With a
threshold of 4 the size 5 gets a slab of its own, and three blocks with their cleanups fill
a slab and need the next.

*Fairness.* `CFGWalker`: `walk_function` and a range-for over `blocks()` run to their end once begun,
being plain loops of a single thread; whether another walk begins is left open.
`Driver`: weak fairness of the compiler and of `cpp`, two processes the operating system
schedules.  Nothing makes `cpp` fail.  The uses of the arena are bounded per file, as
parsing and the passes are, so that fairness of the compiler as a whole is enough for it to get on.

## Proofs

Checked by TLAPS for every value of the constants, under the assumptions the modules name: that the
bounds are natural numbers, and the ones mentioned below.

Each proof is of one kind.  The property is seldom inductive; an inductive invariant is stated that
says why it holds, with a lemma per primitive of the model, a lemma per action, one about the next-state
relation, and a temporal step last.  Where a definition is a recursive function on numbers (a path in the
scope tree, the sequence along a list), its defining equation and the induction are lemmas on the numbers for
which the claim holds.

### The control-flow graph

*`CFGBuilderProofs!TypeCorrect`, `Edges`*: the builder's state keeps its types, and every edge
is recorded at both ends, leaves a terminated block and joins blocks of the function
(`EdgesConsistent`), under *any* sequence of visits: `CFGProgram` only restricts the choice.
A visit links to blocks it finds in the stack, in the pending
gotos or in the labels, so the inductive invariant `IInv` adds that all of these are blocks
that have been created, and that a block whose exit is still to be linked is one whose
terminator is a `Goto` or an `If` with room for the target.

*`CFGProgramProofs!SuccessorsAgree`, `EndedOnce`, `Resolved`*, under any sequence of visits too: the targets of a
terminator and the edges of its block are the same, each as often (`WellFormed`); no block is given a second
terminator or an instruction behind it; between functions no target is missing and no goto waits
(`TargetsResolved`).  A target may be missing for long, so the invariant `BInv` keeps account: what
a terminator lacks (`Lacks`) is what the stack of statements and the pending gotos owe it (`Debts`), block by
block.  Each setter pays one debt, and finds a terminator of the kind it expects (`FrameKinds`); with nothing on the
stack there is nothing owed.  `TypeOK` or the edges alone would allow a setter to overwrite a
target that has been set already.

*`AssertionsHold`*: on programs the earlier passes accept, with any labels and gotos, one assertion can fail at
most, that no goto is pending when a label is declared, and only while a goto of the same function waits for another
label that is still to come (`OnlyGotosAhead`).  It does fail then, see
[what the models found](#what-the-models-found).  A visit after a failed assertion is ruled out first (`StepsWhileFine`), and `PendingOK` says what a goto that waits belongs to.
`Restricts` shows that what is proved of `CFGBuilder` holds of `CFGProgram`.

*`VoidComplete`*: a void function whose switch bodies end (`Subject`) is complete when its construction is over
(`GraphComplete`), whatever loops, branches, gotos and switches it has.  "Every block is terminated" is false until
then; `Kept` says which are not: the current one, and those a frame will come back to, the end of a `then` while
its `else` is built, the init and the step of a loop.  `LastEnds` adds that a function ends behind
its return, the one MIR synthesis appends if need be.  For functions with a value, `GraphComplete` is about reachable
blocks only, and stays with TLC.

### Walks

*`CFGWalkerProofs!TypeCorrect`, `Soundness`, `Completeness`, `Exactness`*: on every set of blocks and every
graph, a walk visits only blocks in every closed set that holds the entry, and when it is over
has visited a closed set that holds the entry: the blocks the entry reaches (`WalkExact`).  For
completeness the inductive invariant says of
each visited block that each of its successors is visited or will be looked at by an activation
in progress (it is the loop variable of the next, or has an index not yet reached).  Assumed is
that the entry is a block and graphs map blocks to sequences of blocks.

*`IteratorYields`*: iterators yield the order of the last walk, or its reverse, each block once (`ReadInv`: what has been
yielded, and where the cursor stands).

*`PromiseKept`*: the walker refines `BlockOrder`, step by step (`PostorderPromise`).  A block is
delivered when all it leads to is delivered, but for blocks that lead back to it.  So the invariant
`PathInv` is about the chains of the activations on the C++ stack: each block of a
chain leads to all behind it (`LeadInv`, over the closed sets), a block is in one chain once (`OnceInv`), and what
is visited is in a chain or has been delivered, not both (`DeliveredInv`).  When a chain is given up, a visited
successor that is not delivered is thus further up, and leads back.

### Scopes and names

*`SymbolTableProofs!Owned`* (`NameInv`): whatever is inserted, displaced and defined, each symbol is
owned by its scope, in the map of its kind or among the shadowed ones.

*`Follows`* (`ScopeInv`): walkers know their way back, and a READ walker stands at each point where the
builder stood.  The reader goes by indices, the builder by what it has just made; what
joins them is that `visits`, cut at any point, determines which scopes have been seen, and that the
children of a scope are numbered in the order they are first entered (`Followed`, `Behind`).

*`Lexical`*: a lookup finds the innermost symbol of the name; labels are found within the function.  Both
invariants are needed, and induction along the path to the root.

*`MIRSynthesizerProofs!ScopesFollow`, `Errors`* (`SynthInv`): scopes are those of the visits until an error is
thrown (`ScopesTied`); afterwards there may be more, left behind by explicit pops that did not happen, but none of the
visits in progress has lost its own (`Around`).  Without the second half the first is not inductive: the scope a
handler pops must still be the one it pushed.  A unit with an error is never a success, and one that is given up in an
ordinary way has had every error printed (`ErrorsTold`).  `found_errors` alone does not stop a unit, so `Reporting` says that
whatever has been noticed or thrown while the visits go on has its diagnostic with the synthesizer.

### Hoisting

*`LoweringProofs!OrderKept`, `StorageKept`* (`SourceOrderKept`, `StorageWhereDeclared`): programs of any size, nested in any
way, are lowered without losing, repeating, reordering or misplacing a statement, a local or a function, and every variable
has its storage in the function whose map finds it.  Both properties speak of the end of the
program, and nothing can be said of `current_q` alone before: what has been read of a function is
spread over the visits in progress, partly sorted in their locals, partly in their queues, and some of it is not yet in
order.  The invariant `Inv` says, while there is no error, what is where:

* `Content(j)` is what the j-th visit would emit if it ended now, what it has sorted before what is in its
  queue.  The contents of the visits, put together from the program inwards and starting anew at each function
  (`Ledger`), are what has been met so far of each function being visited.
* `Levels` counts the functions among the visits, and says which entry of `func_stack` belongs to which:
  the declarations travel through the queues, the symbols go by `func_stack`, and this is why they agree.
* `Matches` says that the ledger holds what `source` has read of each open function, `Book` that a function that has been
  left has it in its `FunctionLIR`, that no function is entered twice, and that no variable is declared twice,
  by the numbers they are named with.

`Ledger` survives the end of a visit because sorting a queue and emitting it below regroups a concatenation.  That
sorting keeps each sort in its order, and distributes over concatenation, are lemmas by induction on
lengths (`TakenIs` gives the recursive function its equation).

*`JumpsKept`* (`JumpsPlaced`): where no function stands in a loop or switch (`NestInBodies`; otherwise it is
false, see below), the `CFGBuilder` finds every break, continue, case and default of a lowered program in a loop or
switch of its own function, and no switch with a value twice or two defaults, for any nesting and any number of labels.
`JumpsPlaced` looks for the brackets around a position of a finished body by counting them; the `Validator` only
knows its stack and its trackers.  The invariant `JInv` relates the two while a body is being read:

* `Held`: each loop or switch on the stack has a position in the body, from which as many more brackets have opened than
  ended as there are statements on the stack from it on; and no other loop or switch is open.  A loop brings several
  brackets at once, its init, step and body, all of which but the first are closed or mere separators (`Innocent`).
* `Tracked`: each tracker belongs to such a switch and knows the values of the labels whose nearest switch it is.
* `Placed`: everything already read is where it belongs.  It stays there: what is around a position does not depend on
  what is read later (`AroundBegins`).
* `Unhindered`, `Flat`: a function starts with nothing open around it, and the function around it goes on where it stopped.

*`VisitsAgree`* (`VisitsInStep`): with errors too, `switches` holds one tracker for each switch among the
nodes being visited, and there are as many queues as visits.  A second function marked `main` ends the visit it is nested
in from within, which is where the trackers could fall behind.  The invariant
needs that the stack alternates between what holds a compound and the compound (`Alternates`).

Assumed are, beyond the bounds, that the values of case labels are finite in number and natural numbers, and that the
global scope (`NoFunc`) is no function.

### Memory, lists, the driver

*`DriverProofs!TypeCorrect`, `Apartness`, `Cleanups`*: for every slab size, threshold, growth delay and
minimal alignment, and whatever is asked for, blocks lie inside their slabs, aligned and apart,
and objects with destructors are destroyed once and before their parts.  `BlocksApart` is
not inductive: a new block is apart from the others because it starts behind `cur`, and all blocks of
the current slab end before; `MemoryOK` adds this.  `ObjectsOK` relates the list of cleanups to the
constructors that are running: whatever was made in one that has not finished is ahead of it,
so that linking it in front keeps owners ahead of their parts.  That rounding up to an alignment gives
a multiple that is not smaller is the lemma `Aligned`.  One assumption
is about numbers: powers of two up to `SlabSaturate` are positive.  It is
evaluated by TLC.

*`LinkedListProofs!TypeCorrect`, `LoopsSafe`, `WellLinked`, `Agreement`*: for any sets of lists and values, any finite
set of nodes
and any sequence of operations, there is for each list a sequence of distinct nodes which
its ends and links spell out both ways and which holds exactly the nodes it owns, no node is
owned twice, and a loop that copies reads and links only nodes that exist.  The inductive invariant
is the conjunction of these: an operation on one list must leave the links of the others alone,
which follows from their being disjoint, and a copying loop must not be handed a node that went
away.  What `LinkBefore` does to a sequence is a
lemma about `Represents`, and so on; every operation is then one or two lemmas.  `Agreement` adds that the
loop from `begin()` finds that sequence, and `index` each node in it (`ListsAgree`), by induction along the links.

*`LinkedListProofs!Sequences`*: the lists implement `ListOrder`, where a list is just a sequence of nodes (`KeepsOrder`).
Every operation is mapped to the operation on sequences, and every iteration of a copying loop to an addition, by what
`Agreement` says of the sequence found from `begin()`.  A copying loop needs more: `ListOrder` knows from the start which
nodes are to be copied, the loop only its next node.  When the list it reads is the list it adds to, it adds before the
nodes it still has to copy, so that what is left does not grow (`CopiesAhead`, which with `Agreement` is the
invariant `OInv`).

*`DriverProofs!Refinement`, `ArenaKept`, `FilesApart`*: every step of `Driver` is a step of `Arena`
or leaves it alone, so what is proved of the arena holds here; for any number of files, whatever is
thrown, interned strings lie in live blocks and each file starts with nothing
(`FileInv`: what the arena is like at each place the compiler may stand).  Assumed is that a character has
an alignment.

*`Reported`, `ExitStatus`, `ChildrenReaped`*: only what `cpp` completed is compiled or reported; the exit status is
right; each child is waited for once.  What has been recorded of the files, together with where the
compiler stands, determines the status to come (`OutcomeInv`) and the children still to be waited for (`ReapInv`).

### Model-checked only

* Liveness under fairness, which the prover does not do: `WalkEnds`, `Terminates`.
* What is recursive over trees, or compared with a recursive reference: everything about types and
  expressions, and `OrderIsDepthFirst`, the depth-first search in `MCCFGWalker`.
* `StructureKept`, and `GraphComplete` of functions with a value: both speak of the blocks that can be reached in a
  graph under construction.

## What the models found

With a run that shows it:

* `lowering_reinit`: a variable declared in a loop with a constant initializer is initialized once per
  call and not each time around: the initializer is hoisted with the declaration
  (`lib/lowering/lir/synthesizer.cpp:500`, `lib/lowering/cfg/builder.cpp:158`).
* `types_release`: an array type without a size is released while types built from it live, when
  an initializer tells the size of an array of arrays (`lib/semantics/types.cpp:2010`).
* `expr_callee`: a call whose callee branches is appended to a terminated block
  (`lib/lowering/cfg/builder.cpp:990`).

In the models, outside the bounds of the passing runs or what their properties say.  The first four show in
the run that is named once it checks the property that is named instead of its own:

* `cfg_programs`, `NoAssertionFails` (with `Families <- MCTwoLabels`, at once): a label declared while a goto
  to another label waits trips `num_pending_gotos() == 0` (`lib/lowering/cfg/builder.cpp:285`).  With one
  label at a time the assertion holds, which is why tests do not meet it.
* `types`, `ExcessIsDropped`: `find` with an index behind the last member of a class that inherits reads
  behind its own members, as the number it is compared with counts those of the ancestors too
  (`lib/semantics/types.cpp:810`, `553`).  An initializer list with an element too many asks for it, where
  the code means to drop the element (`lib/semantics/mir/synthesizer.cpp:1668`).  The unit test of an index out of
  range (`test/unit/inheritance_tests.cpp:270`) takes one too large for the comparison to miss.
* `types`, `IndexFindsNested`: `index` of a record that has the name in an anonymous member gives a path that
  leads elsewhere (`lib/semantics/types.cpp:505`), against the comments where it is used
  (`lib/lowering/lir/synthesizer.cpp:249`); a unit test has it as it is.  A member of an anonymous member can
  also hide a name of an ancestor, which `find` then gives and `index` does not.  `UpcastKeepsMembers` and
  `IndexFindsMember` therefore set names in anonymous members apart.
* `expr_callee`, with `Vocabularies <- DecaysOnly`: an array that is a member of a constant object gets a const type
  of its own, and its decay, as in `c.a + 1`, trips an assertion (`lib/semantics/validator.cpp:784`).
* `MCFallout`: the block of a last case without break is left without a terminator
  (`lib/lowering/cfg/builder.cpp:403`).
* `MCInfiniteLoop`: `always_returns` takes a `for (;;)` left by break for one that never ends
  (`lib/semantics/validator.cpp:387`); a goto into a block it takes as decisive misleads it too.
* `MIRSynthesizer`, `outcome = "ice"`: an ordinary error inside the block of an `if` or a loop is
  caught there, and the parent, which takes a statement, gives up with an internal error
  (`include/semantics/mir/synthesizer.hpp:185`).
* `MIRSynthesizer`, `outcome = "uncaught"`: a variadic function with a parameter `argc` throws a `Symbol*`
  that nobody catches (`lib/semantics/mir/synthesizer.cpp:467`).
* `MIRSynthesizer`, `outcome = "raised"`: the error of a constant expression that cannot be evaluated, such as
  `case 1 / 0`, is caught by `Ecc::run` only (`lib/semantics/mir/synthesizer.cpp:2139` catches another class;
  `parse_constexpr_init` catches both): the diagnostics so far are not printed and the files that follow
  are not compiled.
* `NestInBodies = TRUE`: a break in a function nested in a loop passes the `Validator`, whose search of
  the stack does not stop at functions, and `JumpsPlaced` fails (`lib/semantics/validator.cpp:670`).
* `driver`: a syntax error ends the run and the remaining files are skipped, while a file with semantic
  errors is followed by the next (`lib/ecc.cpp:27`); and a syntax error found while `cpp` has more to
  write than the pipe holds is reported as a failure of the preprocessor
  (`lib/frontend/frontend.cpp:28`).

Read on the way, and modelled as it is where a module has the place:

* A designated initializer is visited with the type of the member at its position
  (`lib/semantics/mir/synthesizer.cpp:1607`), and the size of an array does not look at designators.
* `DuplicatePrintError` takes the location of `main`, which may not exist
  (`lib/semantics/validator.cpp:411`).
* A call with default arguments inside the function's own body finds none: they are added after the body
  has been visited (`lib/semantics/mir/synthesizer.cpp:420`).
* `constexpr` values are compared with limits after a cast to 64 bits, so that an unsigned value above the
  largest signed one wraps (`lib/semantics/mir/synthesizer.cpp:617`).
* The evaluator computes unary operators on promoted operands while the checked expression keeps the
  small type (`Regular` of `Expressions` sets these apart).
* `get_scalar` finds constants by value without their type (`lib/lowering/cfg/cfg.cpp:296`).
* `SymbolTableWalker::reset` keeps `next_scope_idx`, against its comment
  (`include/semantics/symbols.hpp:658`).
* A switch without default has no edge for a value that matches no case
  (`lib/lowering/cfg/builder.cpp:396`).

## Not modelled

* Pure output: the printers of AST, MIR, LIR and CFG, and the wording of diagnostics.
* Plain data: AST nodes, tokens, configuration; attribute checks, which are tables.
* The Bison automaton and the Flex scanner, both generated; what the program adds is one flag between
  them.
* The layout of types and the bytes of constant initializers: the first is the LLVM backend's to
  answer, the second is a flattening of data without control of its own.
* Code generation, which is a stub.
* `ArenaVec` and `StringMap`: no client keeps a reference into one across a change.

## Plan

Done: the control-flow graph, its builder and walkers; symbol table and MIR synthesis; validation and
lowering of statements, of types and of expressions; arena, driver and frontend; linked lists; and the
proofs above.  Left, in order of importance:

1. The constant pool: constants by value and type, with the hash and equality of `Value`, composed with
   `ExprLowering`.
2. Expressions inside statements: `ExprLowering` on the graphs of `CFGBuilder`, for loops whose init and
   step branch.
3. Calls with default arguments in the function's own body; redeclarations with different attributes.
4. The flag between parser and lexer, as a two-party protocol with lookahead.
5. Proofs: `StructureKept` and `GraphComplete` of functions with a value; and the types
   once their recursion over ancestors is a function on numbers.
