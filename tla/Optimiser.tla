----------------------------- MODULE Optimiser -----------------------------
(***************************************************************************)
(* What the driver does to a module between IR generation and code         *)
(* generation with -opt (build_ir in src/src/driver/compiler.cpp):         *)
(* localize_globals, the inliner, mem2reg and run_optim with its fixpoint  *)
(* loops, one rewriting at a time, in the order of the code.  At any time  *)
(* the last function of the module, called with any arguments, has to      *)
(* return what it returned at the start and leave the same globals.        *)
(***************************************************************************)
EXTENDS Interprocedural

CONSTANTS
  Modules,     \* the modules to optimise, as IR generation leaves them
  Inputs,      \* arguments the last function is called with
  Initially,   \* the globals before that call
  Fuel         \* turns of ten steps it is given; longer calls are not compared

-----------------------------------------------------------------------------
(* What IR generation sees to, and every pass has to leave. *)

IsSequence(s) == Len(s) \in Nat /\ s = [i \in 1 .. Len(s) |-> s[i]]

Terminators == {"br", "condbr", "ret"}

\* Whatever is not there for its effect has a result, and results are numbered.
ValueNames == {"v"} \X Nat
Named(op, res) == res \in ValueNames \/ (res = NoValue /\ op \in Essential)

InstOk(inst, names) ==
  /\ inst = Inst(inst.op, inst.res, inst.args, inst.to)
  /\ Named(inst.op, inst.res)
  /\ inst.op \in Terminators => inst.res = NoValue
  /\ inst.op = "br" => DOMAIN inst.to = {1}
  /\ inst.op = "condbr" => DOMAIN inst.to = {1, 2}
  /\ inst.op = "call" => inst.to[1] \in names

\* Phis come first; a branch or a return comes last.
BlockOk(block, names) ==
  /\ IsSequence(block)
  /\ \A i \in DOMAIN block :
       /\ InstOk(block[i], names)
       /\ block[i].op \in Terminators => i = Len(block)
       /\ block[i].op = "phi" => \A j \in 1 .. i : block[j].op = "phi"

\* The list has every block once; nothing branches to the entry.
FunctionOk(f, names) ==
  /\ f = [name |-> f.name, params |-> f.params, blocks |-> f.blocks, order |-> f.order,
          next |-> f.next, void |-> f.void]
  /\ IsSequence(f.params) /\ f.next \in Nat
  /\ Blocks(f) \subseteq 0 .. f.next - 1
  /\ f.order \in Seq(Blocks(f)) /\ f.order # << >>
  /\ ToSet(f.order) = Blocks(f)
  /\ \A i, j \in DOMAIN f.order : f.order[i] = f.order[j] => i = j
  /\ Phis(f, EntryOf(f)) = {}
  /\ \A b \in Blocks(f) :
       /\ BlockOk(f.blocks[b], names)
       /\ Succs(f, b) \subseteq Blocks(f) \ {EntryOf(f)}

WithoutPhis(f) == \A b \in Blocks(f) : Phis(f, b) = {}

ASSUME NoValueAssumption == NoValue \notin ValueNames

ASSUME ModulesAssumption ==
  \A m \in Modules :
    /\ IsSequence(m) /\ m # << >>
    /\ \A i \in DOMAIN m :
         FunctionOk(m[i], Names(m)) /\ WithoutPhis(m[i])

-----------------------------------------------------------------------------

VARIABLES
  module,      \* the functions, as they are now
  expected,    \* arguments -> outcome at the start
  stage,       \* the part of the driver that is working
  at,          \* ... on this function
  pass,        \* the pass of run_optim's loop
  round,       \* of the loop in sccp
  iteration,   \* of the loop in run_optim
  inRound,     \* the round has changed something
  changed,     \* the iteration has
  visited,     \* what the pass has been over and will not look at again
  inserted,    \* instructions limited_inline has inserted
  budget,      \* and may insert
  dangling,    \* <<function, value>> whose use list names an erased instruction
  stale,       \* some phi has had an entry for an edge that is no more
  rewritten    \* the last step changed the module

control == <<stage, at, pass, round, iteration>>
flags == <<inRound, changed>>
history == <<dangling, stale>>
vars == <<module, expected, control, flags, visited, inserted, budget, history, rewritten>>

\* run_optim's loop over the passes; the first six are a round of sccp, and the
\* four parts of cfs are passes of their own.
Passes == <<"constprop", "branches", "unreachable", "phis", "blocks", "dce",
            "algebraic", "multiplications", "divisions", "licm", "dce", "gvn",
            "branches", "unreachable", "phis", "blocks">>
RoundLength == 6
MaxRounds == 8
MaxIterations == 10

SizeOfAll(m) == SumFunction([i \in DOMAIN m |-> Size(m[i])])

Calls(m) == [1 .. Len(Last(m).params) -> Inputs]
Outcomes(m) == [given \in Calls(m) |-> Outcome(m, Last(m), given, Initially, Fuel)]

This == module[at]
Running(p) == stage = "scalar" /\ Passes[pass] = p

-----------------------------------------------------------------------------
(* A rewriting, and the end of a pass or stage. *)

\* slip: the pass forgets to say that it has changed something
RewriteSilently(f) ==
  /\ module' = [module EXCEPT ![at] = f]
  /\ inRound' = (stage = "scalar")
  /\ rewritten' = TRUE
  /\ UNCHANGED <<expected, at, pass, round, iteration, changed, inserted, budget, stale>>

Rewrite(f) ==
  /\ module' = [module EXCEPT ![at] = f]
  /\ inRound' = (stage = "scalar")
  /\ changed' = (stage = "scalar")
  /\ rewritten' = TRUE
  /\ UNCHANGED <<expected, at, pass, round, iteration, inserted, budget, stale>>

StillDangling(f) ==
  {d \in dangling : d[1] # at \/ d[2] \in SsaValues(f)}

RewriteOnly(f) ==
  /\ Rewrite(f)
  /\ dangling' = StillDangling(f)
  /\ UNCHANGED <<stage, visited>>

\* replace_all_uses_with follows the use list of v.  If it names an erased
\* instruction, nothing can be said of what the program does from here on.
Replacing(v, f) ==
  /\ Rewrite(f)
  /\ dangling' = StillDangling(f)
  /\ stage' = IF <<at, v>> \in dangling THEN "undefined" ELSE stage

ReplaceValue(v, w) == Replacing(v, Substitute(This, v, w))

\* The stage goes on with the next function, or is over.
NextFunction(next) ==
  /\ IF at < Len(module) THEN at' = at + 1 /\ UNCHANGED stage
     ELSE at' = 1 /\ stage' = next
  /\ visited' = {}
  /\ rewritten' = FALSE
  /\ UNCHANGED <<module, expected, pass, round, iteration, flags, inserted, history>>

-----------------------------------------------------------------------------
(* Before mem2reg, and mem2reg. *)

\* A global, in any order: the code takes them from a hash table.
Localize(x) ==
  /\ stage = "globals"
  /\ x \in Localizable(module, This) \ visited
  /\ Rewrite(LocalizeGlobal(This, x, FreshId(module)))
  /\ visited' = visited \cup {x}
  /\ UNCHANGED <<stage, dangling>>

GlobalsDone ==
  /\ stage = "globals"
  /\ Localizable(module, This) \subseteq visited
  /\ NextFunction("inlining")
  /\ UNCHANGED budget

\* The first call that can be.
Inline ==
  /\ stage = "inlining"
  /\ Inlinable(module, This) # {}
  /\ LET s == FirstOf(This, Inlinable(module, This))
     IN  RewriteOnly(InlineCall(This, s, FunctionNamed(module, At(This, s).to[1]),
                                FreshId(module)))

InliningDone ==
  /\ stage = "inlining"
  /\ Inlinable(module, This) = {}
  /\ NextFunction("promoting")
  /\ UNCHANGED budget

PromoteLocals ==
  /\ stage = "promoting"
  /\ Slots(This) # << >>
  /\ RewriteOnly(Promote(This, FreshId(module)))

\* Here run_optim starts: limited_inline sets its budget.
PromotingDone ==
  /\ stage = "promoting"
  /\ Slots(This) = << >>
  /\ budget' = SizeOfAll(module)
  /\ NextFunction("straight")

InlineStraightLine ==
  /\ stage = "straight"
  /\ LET calls == StraightCalls(module, This, inserted, budget)
         s == FirstOf(This, calls)
         callee == FunctionNamed(module, At(This, s).to[1])
     IN  /\ calls # {}
         /\ module' = [module EXCEPT ![at] = InlineStraight(This, s, callee, FreshId(module))]
         /\ inserted' = inserted + Size(callee) - 1
  /\ rewritten' = TRUE
  /\ UNCHANGED <<expected, control, flags, visited, budget, history>>

StraightDone ==
  /\ stage = "straight"
  /\ StraightCalls(module, This, inserted, budget) = {}
  /\ NextFunction("tail")
  /\ UNCHANGED budget

TailCalls ==
  /\ stage = "tail"
  /\ TailBlocks(This) # {}
  /\ RewriteOnly(EliminateTailRecursion(This, FreshId(module)))

TailDone ==
  /\ stage = "tail"
  /\ TailBlocks(This) = {}
  /\ NextFunction("scalar")
  /\ UNCHANGED budget

-----------------------------------------------------------------------------
(* The passes of run_optim's loop. *)

FoldConstant ==
  /\ Running("constprop")
  /\ LET sites == {s \in Sites(This) : Foldable(At(This, s))}
         inst == At(This, FirstOf(This, sites))
     IN  /\ sites # {}
         /\ IF FoldingTraps(inst)
            THEN stage' = "trapped" /\ rewritten' = FALSE
                 /\ UNCHANGED <<module, expected, at, pass, round, iteration, flags, inserted,
                                budget, history>>
            ELSE ReplaceValue(inst.res, Folded(inst))
  /\ UNCHANGED visited

FoldConstantBranch ==
  /\ Running("branches")
  /\ ConstantBranches(This) # {}
  /\ RewriteOnly(FoldBranch(This, FirstOf(This, ConstantBranches(This))))

EraseUnreachable ==
  /\ Running("unreachable")
  /\ Reachable(This) # Blocks(This)
  /\ Rewrite(RemoveUnreachable(This))
  /\ dangling' = StillDangling(RemoveUnreachable(This))
                   \cup ({at} \X LeftDangling(This))
  /\ UNCHANGED <<stage, visited>>

SimplifyPhi ==
  /\ Running("phis")
  /\ RedundantPhis(This) # {}
  /\ LET phi == At(This, FirstOf(This, RedundantPhis(This)))
     IN  ReplaceValue(phi.res, phi.args[1])
  /\ UNCHANGED visited

Merge ==
  /\ Running("blocks")
  /\ CanMerge(This)
  /\ RewriteOnly(MergeBlocks(This))

EraseDead ==
  /\ Running("dce")
  /\ DeadValues(This) # {}
  /\ RewriteOnly(EraseValues(This, DeadValues(This)))

\* One sweep: an instruction that becomes simpler behind the sweep stays.
ToSimplify ==
  {s \in Sites(This) : At(This, s).res \notin visited /\ Simplifiable(This, s)}

Simplify ==
  /\ Running("algebraic")
  /\ ToSimplify # {}
  /\ LET s == FirstOf(This, ToSimplify)
         inst == At(This, s)
         upto == {t \in Sites(This) : FirstOf(This, {s, t}) = t}
     IN  /\ ReplaceValue(inst.res, CHOOSE v \in Simpler(This, inst) : TRUE)
         /\ visited' = visited \cup ({At(This, t).res : t \in upto} \ {NoValue})

ReduceMultiplications ==
  /\ Running("multiplications")
  /\ Multiplications(This) # {}
  /\ LET s == FirstOf(This, Multiplications(This))
     IN  Replacing(At(This, s).res, ReduceMultiplication(This, s))
  /\ UNCHANGED visited

\* is_nonneg_counter_phi follows the use list of the dividend, and those of the
\* comparisons with a constant it finds there, until it has found a guard: an
\* erased instruction may be met before or only where there is none.
CountersWithErasedUser ==
  {s \in SitesWith(This, {"div", "rem"}) :
     LET v == At(This, s).args[1]
         compared == {At(This, c).res : c \in {c \in SitesWith(This, {"lt"}) :
                        At(This, c).args[1] = v /\ IsConst(At(This, c).args[2])}}
     IN  /\ PowerOfTwo(At(This, s).args[2])
         /\ \E w \in {v} \cup compared : <<at, w>> \in dangling
         /\ CountsUp(This, v)}

FollowErasedUser ==
  /\ Running("divisions")
  /\ CountersWithErasedUser # {}
  /\ stage' = "undefined"
  /\ rewritten' = FALSE
  /\ UNCHANGED <<module, expected, at, pass, round, iteration, flags, visited, inserted,
                 budget, history>>

ReduceDivisions ==
  /\ Running("divisions")
  /\ Divisions(This) # {}
  /\ LET s == FirstOf(This, Divisions(This))
     IN  Replacing(At(This, s).res, ReduceDivision(This, s))
  /\ UNCHANGED visited

\* Loops from the smallest to the largest; among equals in any order.
LoopsLeft ==
  {h \in Headers(This) \ visited : Preheaders(This, h) # {} /\ Invariant(This, h) # {}}

Hoist(h) ==
  /\ Running("licm")
  /\ h \in LoopsLeft
  /\ \A g \in LoopsLeft :
       Cardinality(LoopBlocks(This, h)) <= Cardinality(LoopBlocks(This, g))
  /\ Rewrite(HoistInvariants(This, h))
  /\ visited' = visited \cup {h}
  /\ dangling' = StillDangling(HoistInvariants(This, h))
  /\ UNCHANGED stage

Number ==
  /\ Running("gvn")
  /\ Repeated(This) # {}
  /\ LET s == FirstOf(This, Repeated(This))
     IN  ReplaceValue(At(This, s).res, At(This, Original(This, s)).res)
  /\ UNCHANGED visited

\* Nothing left to do for the pass.
PassOver ==
  /\ Running("constprop") => ~\E s \in Sites(This) : Foldable(At(This, s))
  /\ Running("branches") => ConstantBranches(This) = {}
  /\ Running("unreachable") => Reachable(This) = Blocks(This)
  /\ Running("phis") => RedundantPhis(This) = {}
  /\ Running("blocks") => ~CanMerge(This)
  /\ Running("dce") => DeadValues(This) = {}
  /\ Running("algebraic") => ToSimplify = {}
  /\ Running("multiplications") => Multiplications(This) = {}
  /\ Running("divisions") => Divisions(This) = {} /\ CountersWithErasedUser = {}
  /\ Running("licm") => LoopsLeft = {}
  /\ Running("gvn") => Repeated(This) = {}

\* An entry for an edge that is no more, from a block that is still there.
HasStaleEntry(f) ==
  \E b \in Blocks(f) : \E phi \in Phis(f, b) : \E k \in DOMAIN phi.to :
    phi.to[k] \in Blocks(f) /\ b \notin Succs(f, phi.to[k])

\* slip: changed is overwritten for each function, and only the last one counts
GoesOnIfLastChanged == inRound /\ iteration < MaxIterations
GoesOn == changed /\ iteration < MaxIterations

\* The next pass, round, function or iteration.
NextPass ==
  /\ stage = "scalar"
  /\ PassOver
  /\ IF pass = RoundLength /\ inRound /\ round < MaxRounds
     THEN /\ pass' = 1 /\ round' = round + 1 /\ inRound' = FALSE
          /\ UNCHANGED <<stage, at, iteration, changed>>
     ELSE IF pass < Len(Passes)
     THEN pass' = pass + 1 /\ UNCHANGED <<stage, at, round, iteration, flags>>
     ELSE /\ pass' = 1 /\ round' = 1 /\ inRound' = FALSE
          /\ IF at < Len(module)
             THEN at' = at + 1 /\ UNCHANGED <<stage, iteration, changed>>
             ELSE /\ at' = 1
                  /\ IF GoesOn
                     THEN iteration' = iteration + 1 /\ changed' = FALSE /\ UNCHANGED stage
                     ELSE stage' = "done" /\ UNCHANGED <<iteration, changed>>
  /\ visited' = {}
  /\ rewritten' = FALSE
  /\ stale' = (stale \/ (Running("unreachable") /\ HasStaleEntry(This)))
  /\ UNCHANGED <<module, expected, inserted, budget, dangling>>

-----------------------------------------------------------------------------

Init ==
  /\ module \in Modules
  /\ expected = Outcomes(module)
  /\ stage = "globals"
  /\ at = 1 /\ pass = 1 /\ round = 1 /\ iteration = 1
  /\ inRound = FALSE /\ changed = FALSE
  /\ visited = {}
  /\ inserted = 0 /\ budget = 0
  /\ dangling = {}
  /\ stale = FALSE
  /\ rewritten = FALSE

Over == stage \in {"done", "trapped", "undefined"} /\ UNCHANGED vars

Next ==
  \/ \E x \in GlobalsOf(This) : Localize(x)
  \/ GlobalsDone \/ Inline \/ InliningDone \/ PromoteLocals \/ PromotingDone
  \/ InlineStraightLine \/ StraightDone \/ TailCalls \/ TailDone
  \/ FoldConstant \/ FoldConstantBranch \/ EraseUnreachable \/ SimplifyPhi \/ Merge
  \/ EraseDead \/ Simplify \/ ReduceMultiplications \/ FollowErasedUser
  \/ ReduceDivisions
  \/ \E h \in Blocks(This) : Hoist(h)
  \/ Number \/ NextPass
  \/ Over

Spec == Init /\ [][Next]_vars

-----------------------------------------------------------------------------

TypeOK ==
  /\ stage \in {"globals", "inlining", "promoting", "straight", "tail", "scalar", "done",
                "trapped", "undefined"}
  /\ at \in DOMAIN module
  /\ pass \in DOMAIN Passes
  /\ round \in 1 .. MaxRounds
  /\ iteration \in 1 .. MaxIterations
  /\ inRound => changed
  /\ DOMAIN expected = Calls(module)
  /\ \A d \in dangling : d[2] \in SsaValues(module[d[1]])
  /\ \A i \in DOMAIN module : \A b \in Blocks(module[i]) : b < module[i].next

Exact == ~stale /\ stage # "undefined"

\* No rewriting changes what the module computes: for all arguments, the last
\* function returns what it returned in the module IR generation made, and
\* leaves the same globals.
SameResult ==
  Exact /\ rewritten =>
    \A given \in Calls(module) :
      expected[given] # << >> =>
        Outcome(module, Last(module), given, Initially, 2 * Fuel) = expected[given]

\* Every value is still computed on all paths to where it is read.
StaysSsa == Exact /\ rewritten => SsaForm(This)

\* Phis have one entry for each edge, whatever blocks were erased, merged,
\* split or put in front, unless a branch into the block was folded whose other
\* end can still be reached.
EntriesExact ==
  /\ Exact
  /\ ~Running("branches") /\ ~Running("unreachable")
  => \A i \in DOMAIN module : PhisMatchEdges(module[i])

\* The same without the exception, as the design document has it.  Violated:
\* FoldBranch removes an edge and leaves the entries as they are.
PhisMatchAlways ==
  ~Running("branches") /\ ~Running("unreachable") =>
    \A i \in DOMAIN module : PhisMatchEdges(module[i])

\* No use list names an erased instruction, as the comment of erase_dead has it.
\* Violated: EraseUnreachable erases blocks and detaches nothing.
NoDanglingUser == dangling = {}

\* run_optim ends at a fixpoint of its passes, as its comment has it, unless the
\* last iteration it is allowed has changed something: no function has work left
\* for any pass.  What sccp leaves when its rounds are used up, and what a pass
\* makes possible for one that ran before it, is done by a further iteration.
NothingLeft(f) ==
  /\ \A s \in Sites(f) : ~Foldable(At(f, s)) /\ ~Simplifiable(f, s)
  /\ ConstantBranches(f) = {} /\ Reachable(f) = Blocks(f)
  /\ RedundantPhis(f) = {} /\ ~CanMerge(f)
  /\ DeadValues(f) = {} /\ Repeated(f) = {}
  /\ Multiplications(f) = {} /\ Divisions(f) = {}
  /\ \A h \in Headers(f) : Preheaders(f, h) = {} \/ Invariant(f, h) = {}
EndsAtFixpoint ==
  stage = "done" /\ (iteration < MaxIterations \/ ~changed) =>
    \A i \in DOMAIN module : NothingLeft(module[i])

\* The work there is for the passes: instructions and blocks that may go, branches
\* that may fold, operations that may become cheaper.
Work(f) ==
  Size(f) + Cardinality(Blocks(f)) + Cardinality(SitesWith(f, {"condbr", "mul", "div", "rem"}))

\* Every rewriting of run_optim's loop leaves less work than it found, except
\* for licm, which looks at each loop once: no pass can go on for ever, and no
\* two passes can undo each other's work in turns.
Shrinks ==
  [][stage = "scalar" /\ rewritten' /\ ~Running("licm") => Work(module'[at]) < Work(This)]_vars
=============================================================================
