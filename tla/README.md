# A verification project for the ToyC compiler

ToyC is a C-like teaching language; the repository is a compiler from it to RV32IM
assembly, written in C++20. It is a sequential batch program: it reads one file, runs
its stages one after the other and writes one file. What is hard about it is not
concurrency but *order*: passes that edit shared tables in turn, fixpoint loops that
must end at the right place, instructions emitted one after the other that must look
simultaneous, and values read from a place that has had several owners by then. A wrong
step there is silent, the program compiles and computes something else, and it
needs a particular arrangement of a dozen live values to show. That is what this
project models and proves about.

Paths in `PROJECT.json` begin with `src/`, the root of the repository; below, paths are relative to
that root (the code generator is `src/codegen/codegen.cpp`).

## 1. Inventory

| Component | Where | State it keeps | Operations | What makes it correct |
|---|---|---|---|---|
| Driver | `src/driver/` | options, diagnostics | run the stages, stop at the first error | no stage runs after a failed one |
| Lexer, parser, AST | `src/frontend/` | position, previous token, one token of lookahead, the tree | one function per nonterminal; statements that begin with a name are read on a way of their own | the tree is the one the grammar gives; a text nobody can have written is refused |
| Semantic analysis | `src/sema/` | stack of scopes, current function, loop depth, constant values | one visit per declaration, statement and expression | names resolve to the innermost declaration; every path of an int function returns; constants are computed as the target would |
| IR generation | `src/ir/irgen.cpp` | current block, scopes of allocas, stack of loop targets | one visit per statement and expression | blocks end in one terminator; control goes where the statement says |
| IR | `src/ir/ir.cpp`, `include/toyc/ir.h` | functions, blocks, instructions, use lists | create, append, replace uses | use lists agree with operands |
| mem2reg | `src/ir/mem2reg.cpp` | control-flow graph, dominator tree, frontiers, one stack per variable | phi placement, renaming, cleanup | a load is replaced by the value last stored on every path |
| Scalar optimiser | `src/ir/optim.cpp` | the function, tables per pass | fold, number, move out of loops, simplify control flow, strength reduction, tail recursion | same result for every input, phi entries agree with edges |
| Globals and inliner | `src/ir/optim.cpp`, `src/ir/inliner.cpp` | summaries of what functions read and write; the blocks of the caller | localize globals, inline a call | a call sees globals written before it; inlined variables start afresh |
| Register allocation | `src/codegen/codegen.cpp` | live sets, interference graph, map from values to registers | liveness, colouring, block-local scan, loop constants | values needed at the same time never share a register |
| Stack frame | same | offsets | lay out the areas, reserve callee-saved registers | areas do not overlap and are large enough |
| Instruction lowering | same | block layout, the text written so far | prologue, one case per opcode, phi copies, calls, epilogue | an instruction reads its operands where their values are |
| Parallel copies | same, twice | list of copies | emit a ready copy, break a cycle through `t2` | a batch of copies acts at once |
| Printers, text output | `src/frontend/ast_printer.cpp`, `src/ir/ir_printer.cpp`, `src/codegen/asm_writer.cpp` | none | formatting | not modelled |

How they interact: `compile` (`src/driver/compiler.cpp`) calls the stages in order,
each on the data structure the previous one filled. Without `-opt` locals stay in
memory (`alloca`, `load`, `store`) and nothing is allocated to registers. With `-opt` the
module goes through `localize_globals`, the inliner, mem2reg and the scalar optimiser, and the
code generator runs its register allocator. Within the code generator three planners
fill one map, `value_regs_`; the frame is laid out from it; and the lowering reads both.

Behaviour that is hard, in this code: order of edits to shared tables, fixpoints,
sequential moves standing for simultaneous ones, stale placement (a comparison
evaluated later than it stands), limits (more live values than registers, more
arguments than argument registers), control flow left open at the end of a void
function. There is no concurrency, no persistence and no network, so there are no hazards
of those kinds. The list with its lines is `hazards` in `PROJECT.json`.

## 2. Modules

```
Words <- Ast <- Parser, Grammar, Sema, ToyC
         Parser, Grammar, Sema, IRGen, ToyC <- FrontEnd      MCFrontEnd
Picking <- FunctionIR <- IRGen
FunctionIR <- Dominators <- Mem2Reg                          MCMem2Reg
                            '- DominatorsProofs <- RenamingProofs <- Mem2RegProofs
FunctionIR, Words <- SsaIR <- ScalarPasses <- Interprocedural <- Optimiser
                                          Optimiser <- OptimiserProofs, MCOptimiser
SimultaneousCopy  <- refined by -  ParallelCopy              ParallelCopyProofs, MCParallelCopy
FunctionIR <- Liveness <- RegAlloc <- Frame <- Lowering      MCLowering, MCDefects
              |                                   '- LoweringProofs
              '- MCLiveness
Picking <- RecursionFacts <- LoweringProofs, DominatorsProofs, OptimiserProofs
Words <- Selection                                           SelectionProofs, MCSelection
```

**`Words`** is two's complement arithmetic with a parameter for the width (`Half` is the magnitude of
the smallest integer), and the evaluation of the IR's operators (`eval_binary` in
`optim.cpp`). Signed overflow, undefined in C++, wraps in the build;
the smallest integer divided by minus one stops the host (`Traps`).

**The front end.** `Ast` has the syntax trees as records; a node is known by its path from the root, as the
code knows it by its address. `Parser` is the lexer as far as it needs more than one character class (is a minus
the sign of the number behind it?) and the class `Parser` function by function, errors included; a literal out of range
ends the compiler in `stoi`. `Grammar` is what the parser is compared with: `Written` gives the tokens of a tree,
with parentheses only where precedence needs them, `Spelled` the symbols of the text.
`Sema` is the class `Analyzer` (`src/sema/sema.cpp`) and
`IRGen` the class `IRGenerator` (`src/ir/irgen.cpp`), one operator per `analyze_...` and
`visit_...` function, from one state of the object to the next: scopes, loop depth, what the last
statement returns and the tables of `SemaResult` there; blocks, insert point, loop stack and
the map from declarations to slots here. `ToyC` is the
abstract specification: a small-step semantics of the language with a stack of what is still to
be done, scopes and a store; other functions and global variables are its environment.
`FrontEnd` composes them. `Read`, `Analyse` and `GenerateIR` are what `run_compiler` and `build_ir` of the driver do to a text, each
with its failure (`unreadable`, `aborted`, `rejected`, `trapped`, `failed`). Then
the last function of the unit is called with any arguments and runs twice, as source
(`SourceMoves`) and as IR (`IRMoves`). Both stop at each event the environment sees (a call, a global
read or written, a return, the end), and `Answer` lets both go on with the same answer.

**`Dominators`** is `DominatorTree::analyze` (`src/ir/mem2reg.cpp`, 54-134) step by step: the
explicit-stack depth-first search, the sweeps with `intersect`, the frontiers. **`Mem2Reg`** is the rest
of the pass: `CollectPromotable`, `InsertPhis` with its worklist, the recursive `rename_block` as a stack of
calls (`DefineVariable`, `RewriteLoad`, `FillPhis`, `RenameChild`, `PopVariables`), `Cleanup` and the order of phi entries.
The result then runs in step with the function as it was: both take the same branches, and at each instruction that is
not a load or store of a local both read the same operands. Values are names as in `Lowering`: what a result is
called is forgotten when the instruction runs again. A local read before it is set is 0 in the memory program, as the code decides in
`current_value`; every block is reachable, which is what `IRGen` yields (`WellFormed`).

**The optimiser.** `SsaIR` is the IR as the optimiser edits it, with block numbers, entry order and use lists, and
an interpreter over a stack of frames: what it returns and leaves in the globals, or that it does not end within `Fuel` turns of ten steps, is the meaning of a module.
`ScalarPasses` has each pass of `run_optim`'s loop (`src/ir/optim.cpp`) as what it finds and how it rewrites it: constant folding, branch folding, unreachable
blocks, phi simplification, block merging, dead code, algebraic identities, strength reduction of
multiplication and division with its proof that a counter is not negative, loop-invariant code motion, value numbering.
`Interprocedural` has the passes over the module: `localize_globals` with the summaries of what callees touch, the
inliner for functions in memory form (`src/ir/inliner.cpp`), `limited_inline` with its budget, and tail recursion. mem2reg, modelled step by step in `Mem2Reg`,
is here one step that takes a function to its result (`Promote`). `Optimiser` is the driver: stages in
order, functions in order within a stage, `Passes` with the rounds of `sccp` inside the iterations of `run_optim`; each action is
one rewriting or the end of a pass (`NextPass`). At the start it notes what the last function computes for each
argument (`expected`); `SameResult` interprets the module again after every rewriting. `dangling` remembers which use lists still name
instructions that were erased with unreachable blocks; a pass that follows such a list reads freed memory, and the run ends as
`undefined`. `stale` remembers that a folded branch has left an entry in a phi of a block that is still there.

**`ParallelCopy`** is the resolver that the code contains twice, in `emit_phi_copies`
(613-711) and in `lower_call` (775-839). `pending` and `source` are the list of copies
(destination, and where each reads from now, `forced_source` included), `hold` the
registers. `EmitReady` erases a copy whose destination nobody else reads; `BreakCycle`
saves a destination in `t2` and redirects its readers. **`SimultaneousCopy`** is the
abstract specification: one assignment of all registers at once. The refinement maps the
abstract registers to their old values while the list is not empty and to `hold` after.

**`Picking`** has one operator, the members of a list at given places in their order; the loops that filter a list
are written with it. **`FunctionIR`** is the SSA function the back end receives, as data: parameters, blocks,
instructions with operands, results and targets, use lists, successors, phi operands per edge.

**`Liveness`** is the fixpoint at the head of `plan_global_registers` (1302-1362): one
action `VisitBlock` per block visit, `SweepAgain` for the next round of the `while`,
`LivenessDone` for its end. `EdgeLive` keeps the order in which the code edits the set,
phi by phi.

**`RegAlloc`** is the rest of the allocator, in the order of the constructor (177-190):
`BuildGraph` (interference, values crossing calls, priorities), `Colour` once per value
in order of priority, `ScanSite` once per instruction of the block-local scan, `CacheLiteral`
for loop constants. `regOf` is `value_regs_`. Where the code breaks a tie
by numbers, any order is allowed, so the properties hold for all of them.

**`Frame`** computes the offsets of `FunctionFrame` (56-173), in words.

**`Lowering`** composes them: it runs the emitted code on a machine of registers and
stack words. A place holds a *set of names* rather than a number: `v \in reg[r]` says
that `r` holds the current value of the SSA value or variable `v`. Recomputing `v` removes its name
everywhere else (`Forget`), so "the instruction reads what the IR means" is exactly "the
place it reads holds the operand's name". Actions: `Enter`, `MoveParam...`, `EnterBody`
(prologue, 858-889); `Compute`, `Defer`, `LoadLocal`, `SetLocal`, `Pass` (instructions);
`StackArguments`, `RegisterArguments`, `CalleeReturns` (calls: the callee may leave
anything in a caller-saved register); `Branch` with the phi copies of the edge; `Return`,
`FallInto`, `FallIntoExit`, `Leave` (exit); `GiveUp` for the error path. Branches take
either target: conditions have no values.

**`Selection`** is what `Lowering` leaves open, the choice of instructions for one IR instruction (`lower_binary`, `try_lower_immediate_binary`, `lower_icmp`, `try_lower_direct_compare_branch`, `lower_cond_br`,
`materialize_i32`, loads and stores at offsets beyond the immediate range): `Lowered` gives the
sequence, and a machine with words of any width executes it, one action per format (`Register`, `Immediate`, `LoadWord`, `StoreWord`,
`Jump`, `FallThrough`).

### What each run checks

| Run | Instance | Shows |
|---|---|---|
| `front_end` | 5073 texts (233,359 states), words of three bits, answers 0 and 2 | the tree is the one written and every other text is refused; what is accepted is generated but for two shapes of dead code; accepted units do as IR what they say, at every event; int functions return; blocks have one terminator and are reachable; neither program runs ahead for ever |
| `promotion` | 400 functions over two locals: branch, loop, loop with break or continue, nested loops, short circuit, a last block left open (158,372 states) | exact dominators and frontiers, SSA form, same operands as the program with its locals in memory, the pass ends |
| `optimiser` | 255 modules of one to three functions, words of four bits (11,396 states) | no rewriting changes a result or a global, values stay defined on every path, phi entries agree with edges, every rewriting leaves less work, and the loop ends with nothing left for any pass |
| `parallel_copy` | every request over 4 registers and 1 memory operand (625) | sources survive, the scratch register is never saved into while somebody waits for it, the loop ends, the sequence is one simultaneous copy |
| `liveness` | about 360 functions: a loop with two phis and a possible break; two nested loops; all choices of the values read (6,092 states) | the sweeps end and give exactly the values some path still reads; none that is read is missing |
| `lowering` | about 650 functions with and without `-opt` on a machine with `t3`, `a0`, `a1`, `s1` (45,157 states) | operands, parameters, arguments, results and saved registers are where they are looked for, on all paths; functions are refused for two reasons only |
| `selection` | every opcode with every place and constant of its operands, all words as dividends (2.4 million states) | the chosen sequence delivers the value or takes the branch the opcode means, and writes nothing else |
| `defect_...` | one function each, or the family of a passing run | findings 1 to 5 below |

**Bounds and why they are enough.** In `front_end` each family varies one thing completely: the ways
control leaves a loop body on two branches and behind them, in an outer loop too; what stands behind a loop whose body returns, with conditions that
are constant, look constant or are neither, in the outermost block, in a block inside it, and in a branch or a loop (`AfterLoops`); the kind, name and initial value of the
declarations of two nested blocks below globals and a parameter; the shape of an expression with two operators
over a constant zero, a constant that is not, and a global (`Expressions`); all binary operators at the ends of the range (`Arithmetic`, with three-bit words
overflow, the trap and both kinds of division occur); every pair of operators in every grouping, signed operands too (`Groupings`, `Signed`); `Slips` leaves out, doubles, swaps or
spoils each token of a text that uses the whole grammar, `Numerals` writes literals at and beyond the range. 2 and 0 as answers decide all conditions both ways.
In `promotion` each of three marked blocks does one of four things with the variables, in
each of five graphs. In `optimiser` the families are named for what they are about: branches that fold (`Branches`, `Decided`, `ShortCircuits`), counters with and
without guard and the divisions by powers of two they decide (`Counting`, `Unguarded`), erased users, nested loops, the smallest
integer, tail recursion with arguments that read other parameters, calls that read and write globals directly and through others
(`Calling`, `Transitive`, `Storing`), straight-line callees, and chains of branches of which each decides the next (`Chains`): `sccp` settles one of them per
round, so that a chain of ten reaches its limit of eight and the next iteration goes on. Words of four bits (`Half = 8`) let counters overflow within a few rounds; the inputs
-3, 0, 2, 7 reach both signs, zero and the largest word; an outcome is compared when the module ends within 150 steps, and the rewritten module gets
twice as many. Every disjunct of the next-state relation is taken. Four registers hold every shape of copy the
argument distinguishes: two disjoint swaps, cycles of length two to four, chains that
hang off a cycle, one source with several readers, reloads; the theorems then cover
all sizes. Liveness is monotone over sets of values, so the interesting dimension is the
shape of the graph (a loop, a break, a loop in a loop), and which values cross which
edges, which is enumerated; again the theorems cover all functions. The machine of
`lowering` is as small as it can be with each class of register still there: with one
`t`, two `a` and one `s` register three live values already force spills, a call with
three arguments already passes one on the stack, two values across a call already leave one
without callee-saved register. `Straight` enumerates all arrangements of three
additions and calls and all values they may read; the others are the shapes ToyC's statements
produce (`if`, `while`, `break`, procedures without `return`, locals in memory). In `selection` four-bit words with immediates of two bits
(`ImmHalf = 2`) put one of the slots 1, 4 and 6 within reach of an immediate and two beyond it, and most constants beyond it.

The families of `lowering`, and the sequences of phis in `liveness`, are chosen away from the findings of the back end, which are about functions
for which the properties are false; `FailuresKnown` says what is left of "every
function compiles": the code generator gives up for a condition that is not a comparison, with `-opt`, and for an `int` function with an open block
(`codegen.cpp:219`). `TestsCall` and `OpenExit` are in the family for these two, and `OpenLoop` because the other properties hold for it. In `optimiser` the findings are in the families: the properties are stated for as long as the module is
`Exact`, that is, nobody has followed a use list with an erased entry and no folded branch has left an entry behind. `PhisMatchAlways` and `NoDanglingUser` (and
`OpenBlockEnds`, `NeverFails`) have no such exception and are checked by the runs that refute them.

**Fairness.** `FrontEnd` has weak fairness of the steps of each program, nothing of the environment: a
machine that is not at an event can always step. `Mem2Reg` has it of the pass (`Pass`). `ParallelCopy` and `Liveness` have weak fairness of the whole next-state relation: they are
loops of one sequential program that nothing interrupts. `Lowering` has it for the compiler's steps. `Optimiser` has none: that its loops end does not rest on their limits but follows from
`Shrinks`, a measure that every rewriting decreases, which is more than termination under fairness and is proved for every module; motion out of loops, the exception, looks at each loop once.
`Selection` has none, its code has no loops. No property assumes that the compiled program ends.

**Deadlock** is checked in every run: each module has a final stuttering step where the code ends.

**Agreement with the compiler.** The 5073 texts of `front_end` were printed as ToyC, with the literals of three-bit words replaced by those of 32 bits, and
given to the repository's compiler: what is read, refused by the parser (356), ends in `stoi` (3), is rejected by the analysis (1452),
stops the host by the division (9), fails in IR generation (214, the compiler crashes on some of them) and is generated (3039) agrees on all. For the 1042 generated units of an earlier set (loops, scopes, and expressions over logical operators and
division) the blocks, opcodes and branch targets of the model were also those of `-dump-ir`.

## 3. Findings

The source programs were compiled with the repository's compiler and their assembly was executed. Each of the first five is a run whose one property TLC refutes.

1. **Late comparison** (`defect_late_branch`, `codegen.cpp:384`). A comparison that only the branch
   at the end of its block reads is evaluated by the branch, but its operands are dead for the
   allocator from the comparison on: `int c = a < b; a = h(a + 5); b = h(a); if (c) ...`, `-opt`.
2. **Order of phis** (`defect_phi_order`, `codegen.cpp:1339`). In the liveness of an edge, a value
   that one phi takes is erased again if it is itself a later phi of the block.
   `int b = 1; int a = 0; while (i < n) { int t = a + b; a = b; b = t; i = i + 1; } return a;` gives 512 for `n = 10` with `-opt`,
   and 55 without.
3. **Open blocks** (`defect_open_block`, `codegen.cpp:213`). A void function may end
   without terminator in a block that is not the last: `void f(int n) { int i = 0; while (i < n) { if (i == 3) { g = g + 100; }
   i = i + 1; } }` loops for ever, with and without `-opt`.
4. **Entries of phis** (`defect_phi_edges`, `optim.cpp:227`). Folding a branch removes an edge and leaves the entries for it in the phis of a block that can
   still be reached; the code generator then takes an entry for an edge that is no more, or the phi counts as redundant.
   `int f() { int r = 1; if (1) { r = 2; } return r; }` gives 1 with `-opt`, and 2 without.
5. **Use lists** (`defect_dangling`, `optim.cpp:282`). Unreachable blocks are erased without detaching their instructions from the use lists of
   their operands, and a later pass follows the list: `int t(int x) { return x && (0 && x); }` ends the compiler itself with `-opt`.

Four more can be run by hand with the configurations beside the modules (`tlc -config DefectPrologue.cfg MCDefects`; the last one with `MCFrontEnd`).

6. **Prologue moves** (`DefectPrologue.cfg`, `codegen.cpp:871`). Parameters move to their registers
   one after the other, with no resolver. If an early parameter's register is the argument register of a
   later one, the later one is lost. Seen with a leaf function of five parameters and seven loop
   variables, `-opt`.
7. **Block-local scan** (`DefectLocalScan.cfg`, `codegen.cpp:1611`). It starts from an empty
   table, as if `t3`-`t6` had not been handed out by the colouring. Seen with 26 values live over a loop, `-opt`. The theorem `LocalScanCollides`
   says more: whatever the scan gives such a register to collides.
8. **Conditions that are not comparisons** (`DefectTestedCall.cfg`, `codegen.cpp:1291`). The test for
   "only the branch reads it" does not ask for a comparison; such values get neither
   register nor slot, and `if (f(i))` and `if (a && b)` do not compile with `-opt`.
9. **Statements behind a return** (`DefectDeadCode.cfg`, `irgen.cpp:86`). `analyze_block` stops behind a statement
   that returns; so does `visit_block_stmt`, but the outermost block of a function goes through `walk_block`, which does not, and meets
   statements without entries in `SemaResult`: `int main() { int x = 1; return x; x = 2; }` does not compile. Nor does
   `int main() { int x = 1; { while (1) { return x; } x = 2; } }`: for the analysis such a loop always returns, while in IR generation it leaves its exit block open (`irgen.cpp:189`), and
   `visit_block_stmt` goes on to what stands behind it. `FailsOnlyOnDeadCode` says that there is no third shape.

## 4. Proofs

Proved for every value of the constants that the named assumptions admit; TLC evaluates each assumption in a run.

**Parallel copies** (`ParallelCopyProofs`). Assumptions: the registers are finitely many, the scratch register is none of
them, memory is apart. The inductive invariant `IInv` strengthens the properties with what
relates `source` to `wanted`: a waiting copy reads its wanted place or the scratch register. The
question behind `ScratchIsFree` is why one scratch register is enough, as nothing in the code checks it. The argument counts: when
no copy is ready, every destination is read by another waiting copy; sources of waiting copies are one
place each, so with as many readers as destinations no copy is left to read the scratch register. That is
a pigeonhole fact over finite sets (`FiniteSetTheorems`). `Refinement` then maps the last emission to the abstract step and all
others to stuttering.

**Recursion** (`RecursionFacts`). The properties describe paths with sets that a step is applied to over and over, the
code sweeps and climbs. For any finite set and any step that keeps what is there, the lemmas say that the function exists which the recursion
describes, that it stops growing after as many steps as there are members (`ChainSettles`), and that it ends with the least closed set
(`ChainLeast`). So a definition that counts paths of bounded length means paths of any length, and a property of all paths becomes a
property of closed sets. `ClimbEnds` says the same of a climb with a measure that goes down, `SequelUnfolds` of a
function on the places of a list that is defined from each place to the next. `PickedIs` says what is in a list that was filtered, and in which order, `GreatestIs` that
finitely many numbers have a greatest.

**Liveness** (`LoweringProofs`). Assumptions: blocks are numbered from 1, branches go to blocks. The invariant says that the sets solve the
equations of every block the current sweep has visited unless `changed` is set; so they
solve all of them at the end (`EquationsSolved`). `NothingReadIsMissed` concludes
`LivenessCovers` under `PhisReadBackwards`, the condition that no phi takes a later phi of its
block, and finding 2 shows that the condition is needed. In the other direction there is no condition: `NothingKeptInVain` proves, for every moment of the sweeps, that
whatever is in a set is read on some path. Both together are `SweepsAreExact`, which is `LivenessExact` for all functions whose phis read backwards.

**Register allocation** (`LoweringProofs`). Assumptions: the lists of registers have no member twice and none in common, literals are no values. The
graph is a union of cliques, hence symmetric; a value is coloured once, with a register no neighbour has. From that, neighbours stay
apart as long as only the colouring hands out registers, and values that are live across a call have callee-saved registers or none
(`ColouringCorrect`, which states `NeighboursApart` up to the end of that stage). The inductive invariant also says that a
value was refused only because its neighbours hold all it may have (`NothingRefusedInVain`), which no later pass undoes. This is what
makes finding 7 a theorem: a register that the block-local scan gives to such a value belongs to a neighbour (`LocalScanCollides`).
`NeighboursApart` itself therefore cannot be proved for the later stages; the run checks it on functions the scan leaves alone. `CachedAlone`
holds in all stages.

**Stack frame** (`LoweringProofs`). Besides the assumptions above: instructions are numbered from 1 in their block. Every area numbers its members
by how many come before; `Ranks` shows, for any finite set and any strict total order on it, that such numbers are different and smaller than the
size of the set. The sizes of the area for outgoing arguments and of that for phi temporaries are maxima of finite sets (`MaxOfSet`). `FrameLaidOut` concludes that no two
things share a word, at every step of allocation.

**Lowering** (`LoweringProofs`). Assumptions, besides those above (`FunctionsWellFormed`, `NamesApart`): the functions are what IR
generation and the passes produce (each value has one definition, and on every path it comes before the reads; phis stand at the head of their
block and have a value for each edge; a branch or return is the last instruction), there is an `a0`, and no name stands for two things. That the passes produce such functions is what
`WellFormed`, `InSsaForm` and `StaysSsa` check. The proof has three layers.
*The compiler's part*, `Compiled`: the invariants of liveness and allocation still hold in every later stage, and `crossing` is still what is
live across calls; hence `CrossingAlwaysSaved`, also for the block-local scan, and constants have registers only in functions without calls.
*The machine's part*, `Course` and `Stored`: where control can be in each stage, what is in memory at all; with it `LoweringTypeCorrect`.
For each action a lemma `...Writes` says which registers, which words and which names a step may touch. From the lemmas and the layout of the frame follows
`CallerKept` (a callee-saved register is in its word or was never written), hence `CallerGetsBack`, which needs no condition at all.
*The values' part*, `Placement`: before an instruction, each value of `Wanted` is in its place. `Wanted` is what makes this inductive. A value kept in the frame is in it from
its definition on; a value in a register only as long as liveness has it, or as long as a comparison that is left to the branch of the block still has to read it (`Held`). Behind the first of
a block's phis all of them have run (`Behind`). `WantedBefore` and `WantedAcrossEdge` take a wanted value back to the instruction or edge before, `WantedApart` and `PhisApart` say
that what is defined there has another register. During the prologue, `Delivered` says for each parameter on which side of its move it is;
between the two halves of a call the stack words are already there, then all arguments (`StackArgumentsPlaced`, `ReadyBehind`).

The back end has findings, so the theorems have conditions. `Unaffected` names them one by one, each the absence of one finding: `LivenessCovers` (2; true of every
function with `PhisReadBackwards`), `NeighboursApart` (7), `ComparisonsKept` (1), `ParamsMoveApart` (6), `OpenBlocksEnd` (3). They are about the function and the finished allocation, not about the
execution. TLC found them to hold, and the invariant with them, in every state of `lowering`, with one exception: a function that is in the family for its
open block. On the functions of the `Defect` configurations, where the conditions fail, the invariant was checked as an implication.
Under `Unaffected`, `OperandsAlwaysIntact`, `ArgumentsArrive` and `ResultReturned` prove the properties of the run; `ParamsArrive` needs `ParamsMoveApart` alone. `UnoptimisedIsRight` has no such
condition: without `-opt` nothing is allocated, and all four hold for every function whose only open block is the last. `FailureExplained` proves
`FailuresKnown` for every function.

**Instruction selection** (`SelectionProofs`). Assumptions: words have at least two bits and their number is a power of two (`WidthAssumption`), immediates
divide the word into pages, names of scratch registers are not assigned, the stack pointer reaches every slot.
`OnlyTheResultIsWritten` proves `Preserves` for words of any width: each sequence is *quiet* but for its last store (writes only
scratch registers and the destination), and the machine executes exactly that sequence.
`EveryInstructionDelivers` proves `Delivers`. A sequence without jumps is *run* from a state (`Run`, `Runs`), runs are joined end to end (`RunsBoth`), and one
lemma per building block says what it puts where and that it leaves the rest (`Puts`, `Only`): numbers in two parts, far slots, operands (`BothRun`), then one lemma
per opcode (`DivisionRuns`, `FormRuns`, `IcmpRuns`, ...), `SpillRuns`, and `BranchRuns` for the one or two jumps of each placement of the targets. The invariant
`DeliveryInv` says that the machine is at its `pc` on such a run, or behind it with the jumps not taken so far refuted. It quantifies over runs, which are functions, so
TLC does not evaluate it; what it concludes is checked in `selection`.
The arithmetic comes first in the module: bias and arithmetic shift give the quotient rounded toward zero for every dividend
(`DivisionByShifts`), and subtracting the shifted quotient leaves the remainder even where the product overflows
(`RemainderByShifts`). Words are determined by their bits, and every choice of bits is a word (`SameBitsSameWord`, `WordOfBits`). These are inductions over the width, made with
the smallest counterexample of a set of naturals. With them `StrengthReduction` proves the optimiser's replacement of a division by a
shift and of a remainder by a mask, for dividends that are not negative.

**Dominators** (`DominatorsProofs`). Assumptions: blocks are numbered from 1, branches go to blocks other than the entry, and every block is reached
(`BlocksInOrder`, `TargetsAreBlocks`, `AllReached`): IR generation opens a block for every loop, and `WellFormed` checks that it leaves none out of reach; tail recursion, which would lead back to
the entry, puts a new one before it, and comes later. `DominatorsAreExact` and `FrontiersAreExact` prove `DominatorsExact` and `FrontiersExact` for all of those, in four steps, each an invariant of a stage.
`Searching`: a block the search has left was entered from one that is still on its stack or was left later, so in the reverse postorder some predecessor of each block comes before it (`Ordered`).
`Tree`: while the tree is built, whatever strictly dominates a block dominates the block it hangs from, which has a higher number. `intersect` compares numbers without knowing that the tree is unfinished; that it never climbs past a dominator is
`StepUp`: the block with the lower number does not dominate the other one (`DominatorsComeFirst`).
`Sweeping`: as long as the sweep has changed nothing, the blocks it has passed are where their turn put them. A tree no turn changes (`Complete`) has only dominators above a block: the blocks a climb does not come through form
a set that paths cannot leave without going through the dominator left out (`AboveIsDominance`). `FrontiersGrow`: the frontiers are what the climbs so far have come through.

**mem2reg** (`DominatorsProofs`, `RenamingProofs`, `Mem2RegProofs`). `Mem2RegTypeCorrect`, `PromotionIsSsa` and `PromotionKeepsOperands` prove `TypeOK`, `InSsaForm` and `SameOperands` for
functions of any size. Assumptions, besides those above:
`InstructionsInOrder` (instructions and operands are numbered from 1), `FunctionsWellFormed` (the function is in SSA form but for its variables; `alloca`s stand in the entry, and only loads and stores
name them; branches and returns end blocks; phis stand first and have one entry for each predecessor) and `NamesApart` (a new phi is no old value). The code justifies them: every `alloca` the compiler creates before the pass goes to the entry (`irgen.cpp:19`, `inliner.cpp:204`, `optim.cpp:1057`), the language has no address-of operator, IR generation makes no phi at all (`promote` is the first to make one, and the assumption on phis is there for every input the operators allow), and `fresh_id` counts up. TLC evaluates
them in `promotion`.

Nothing in the state says what a variable's value *is* at a place the walk has left: the stacks are popped and loads are replaced as the walk goes. The proof therefore carries a solution that the
program does not keep, and `PassInv` says that it exists at each step. It quantifies over functions, so TLC does not evaluate it; what it concludes is checked in `promotion`.
- `Known` and `Inserting`: the tree and its children, and where phis are. A block behind a store or a phi for a variable has phis for it in its whole frontier, the worklist's blocks excepted; the empty phis stand at the heads of blocks, in front of what was there.
- `Solved`: `sig` is what became of each value, `cur[b][p]` what the variables have at a place. A block starts with what its parent in the tree ends with; phis and stores change it; a load
  becomes what its variable has. Each value in it may be named where it is (`Fits`): its definition is above, and it is neither a load nor an address.
- `Rewritten`: the function is at each moment the one with phis in place, operands turned by `sig` and phis filled by the edges seen to. Because `replace_all_uses_with` edits the whole function while the stacks keep what they have, this
  needs that no load is ever on a stack, which `Fits` gives.
- `Walking` and `Stacked`: the calls that have not returned are a path of the tree, and the height of each stack at each of them is the number of pushes below. The top of a stack is the solution at the call's block.
- `Finished`: behind `Cleanup` every instruction is in its slot with its operands turned, every phi has its entries in the order of the predecessors, and no entry is missing, as the walk has been to each of them. `FinalForm` reads `InSsaForm` off that.
- `Agree`: in the two runs, a variable holds what the solution has for it here, and a value of the old function is that of what it became. A computation gives both the same result (`ComputeAgrees`). At a branch
  (`GotoAgrees`), if the target has a phi for a variable the entry carries the value over. If it has none, no block strictly between the target's parent and the edge defines the variable, for the target would be in that block's frontier, so the variable still has
  what it has at the parent's end (`Carried` says that entering a block changes nothing defined above it, also when a loop is entered again).

The last point is why a value must not be compared as it was computed but as it is named: in a loop, what a name stands for changes, and `Agree` holds only for what may be named at the place.

**Optimiser** (`OptimiserProofs`). `OptimiserTypeCorrect`, `EntriesAlwaysExact`, `EveryRewritingShrinks` and `EndsWithNothingLeft` prove `TypeOK`, `EntriesExact`, `Shrinks` and `EndsAtFixpoint` for every module; `ModuleStaysWellFormed` and
`EveryEdgeHasEntry` say more than the run asks: whatever has been rewritten, functions are well formed, and even after an entry has gone stale no phi lacks one
(finding 4 leaves entries over, never out, which is what `codegen.cpp` needs in order not to fail). Assumption (`ModulesAssumption`): the modules are what IR generation leaves: no phis; a branch or a return is the last
instruction of its block and has no result; results are numbered, and only what is there for its effect may have none; branches go to blocks of the function, none to the entry; block numbers lie below `fresh_id`; calls name functions of the module. TLC evaluates it in `optimiser`.
Nothing is assumed of SSA form, of reachability, or of how blocks end.
- *The invariant*, `OptInv`, is what the passes rely on in turns. `FunctionOk` of every function, and `Covered` (an entry for every edge), hold always. While nothing is stale entries
  are `Tidy` (none twice, none for an erased block), and `Tight` (none for what is no edge) but in the function whose branches are being folded: `FoldBranch` breaks
  `Tight`, and after `RemoveUnreachable`, the next pass, it holds again unless the block at the other end is still reached, which is what `stale` notes (`NoStaleEntry`). `EntriesExact` alone is not inductive for that
  reason, and because the inliner splits blocks without a look at phis, which is right only where there are none yet (`WithoutPhis` up to mem2reg). For `TypeOK`, the invariant adds that no use list
  names an erased instruction before the loop of `run_optim` (`Early`). TLC found it to hold in every state of `optimiser`.
- *One lemma per rewriting*, `...Fits` or `...FitsExactly` in form: given a well-formed function, its result is one, has the same name and parameters, is covered, and is tidy or exact if the function was. Most rewritings are `Alike`:
  they change operands or single instructions and leave targets and phis' entries where they are (`AlikeFits`; hoisting, splicing and erasing too). Those that move edges have an argument each: merging hands the edges of the second block to the
  first and renames them in the entries (`MergeBlocksFits`), erasing blocks takes their entries with them (`RemoveUnreachableFits`: what is reached is closed under successors, `ReachableIs`, and the order of
  what stays is a filtered list, `OrderedAnew`), tail recursion makes a phi per parameter in a new block with one entry for the entry and one per erased call
  (`EliminateTailRecursionFits`), the inliner splits the block of the call around a renamed copy of the callee, whose blocks are new and apart (`ClonesAre`, `BodyOk`, `InlineCallFits`), mem2reg's result has a phi in each join with the predecessors in list order as entries (`PromoteFits`).
- *One lemma per action*, `...Keeps`, which puts the new function in the place of the old one (`RewritingKeeps`: calls elsewhere still find their callee, as names stay) or moves on (`NextFunctionKeeps`, `NextPassKeeps`).
- *Less work*. `Work` adds up the blocks, the instructions, and once more the instructions that may become cheaper (`condbr`, `mul`, `div`, `rem`). For each action of `run_optim`'s loop a lemma `...Shrinks` maps the
  instructions of the new function, each to one of its own, into those of the old one, costly ones to costly ones (`Comes`), with a block, an instruction or a costly one left out (`LeavesOut`); counting finite sets does the rest (`LessWork`).
  It needs `OptInv`: a value that nobody uses, or that is replaced by another, belongs to an instruction that is erased by its result, and an instruction that is not there for its effect has one (`Named`).
  The attempt to prove it for `Work` without the blocks failed at an empty block nobody branches to, which `RemoveUnreachable` erases without erasing an instruction:
  `if (x < y) { g = y; return; } while (1) g = g + x;` in a `void` function leaves one. The measure now counts blocks, and the family `Endless` of the run has such functions.
- *Nothing left*. `EndsAtFixpoint` says that the loop of `run_optim` ends, unless it has used up its iterations, with a module in which no pass finds anything. That is not plain from the code: passes run one after the other, function after
  function, `sccp` stops after eight rounds whether or not it is done, and one variable remembers all of it. The invariant `FixpointInv` says: as long as an iteration has changed nothing, no function left behind in it has anything to rewrite, nor have the
  passes already over for the present one (`Quiet`). A rewriting makes that empty (`RewritingKeepsFixpoint`); where a pass ends without one, its own condition for having nothing to do is the new part (`OverIsQuiet`).

**Only model-checked.** Whatever is a liveness property or needs ENABLED: that the sweeps, the
copy loop and mem2reg end. The front end, whose trees are read, analysed and run by recursive operators, which the prover does not reason about. Of the
optimiser, `SameResult` (an induction over the steps of two runs for each rewriting) and `StaysSsa` (dominance after each change of the graph). The limits on rounds and
iterations are no promise: a chain of more than eight branches reaches the first (`Chains`), and a chain of more than eighty would reach the second, which `EndsAtFixpoint` leaves out and which means no more than an optimisation left unfinished.

## 5. Not modelled

- **AST and IR printers**: debug output. **Module emission and assembly text** (`asm_writer.cpp` and the `emit_...` helpers): sections, labels, and the spelling of instructions; nothing
  reads it again. Of the lowering itself, the addresses of globals, pseudo-instructions, labels and the exit system call of `main` are left out.
- **Lexer**: classes of characters, comments, and line and column counts. **Diagnostics**: wording and places; only whether there is an error.
- **Driver**: options, files and exit codes.
- `const_eval.cpp` has no code; constants are evaluated by the `Analyzer`.
- `WellFormed` leaves out functions with an endless loop that returns, and those with dead code in their outermost block: `int main() { while (1) { return 3; } }` is accepted, the exit block
  of the loop stays open, and code generation without `-opt` refuses it. The model of IR generation says so too, and `Lowering` has such a function (`OpenExit`). `DeadCode` units are checked only by the configuration that refutes
  `AcceptedIsGenerated`. A failure of IR generation is one outcome in the model, whether the code reports it or crashes on the missing entry.
- Whether a block ends with a jump or falls into the next is not part of the properties of branches in `Lowering`: there a branch always reaches its target. `is_fallthrough` (`codegen.cpp:1146`) compares with the same final order.
- A local read before it is set is 0 in the memory program of `Mem2Reg`, as `current_value` decides, and every block is reachable, which is what `IRGen` yields.
- Folding the smallest integer by minus one (`optim.cpp:46`) stops the compiler; the optimiser's model ends as `trapped` there, and no property says that it should not happen: the
  program divides so itself when it runs that far.
- Values of 32 bits are words of three or four in the runs; what depends on the width alone is proved for all widths (`SelectionProofs`).
