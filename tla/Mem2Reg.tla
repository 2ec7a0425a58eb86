------------------------------ MODULE Mem2Reg ------------------------------
(***************************************************************************)
(* mem2reg (src/src/ir/mem2reg.cpp): local variables in memory become SSA  *)
(* values.  Phis go to the iterated dominance frontiers of the stores, a   *)
(* walk of the dominator tree renames loads to what is on top of a stack   *)
(* per variable, and loads, stores and allocas are erased.                 *)
(*                                                                         *)
(* Then the function as it was and the function as it is now run side by   *)
(* side on the same inputs.  The values they compute are literals; what an *)
(* instruction other than an access to a local variable computes is any    *)
(* literal, the same one in both.                                          *)
(***************************************************************************)
EXTENDS Dominators

CONSTANT Zero  \* the ConstantInt 0
ASSUME ZeroLiteral == Zero \in Literals

-----------------------------------------------------------------------------
(* The functions: what IR generation and the inliner deliver.              *)

\* Where v is available in f: in the blocks its definition dominates, behind it.
DefinedAt(f, v, s) ==
  \/ v \in Literals \cup Params(f)
  \/ /\ v \in Results(f)
     /\ LET d == DefSite(f, v)
        IN  IF d[1] = s[1] THEN d[2] < s[2] ELSE StrictlyDominates(f, d[1], s[1])

\* A value has one definition, which is on every path to where it is read; a phi
\* reads at the end of the predecessor.
SsaForm(f) ==
  /\ \A s, t \in Sites(f) : At(f, s).res = At(f, t).res => s = t \/ At(f, s).res = NoValue
  /\ Results(f) \cap (Params(f) \cup Literals) = {}
  /\ \A s \in Sites(f) :
       LET inst == At(f, s)
       IN  IF inst.op = "phi"
           THEN /\ DOMAIN inst.args = DOMAIN inst.to
                /\ \A k \in DOMAIN inst.to :
                     DefinedAt(f, inst.args[k], <<inst.to[k], Len(f.blocks[inst.to[k]]) + 1>>)
           ELSE \A v \in ToSet(inst.args) : DefinedAt(f, v, s)

Opcodes == {"alloca", "load", "set", "arith", "call", "store", "phi", "br", "condbr", "ret"}
Locals(f) == {At(f, s).res : s \in {t \in Sites(f) : At(f, t).op = "alloca"}}

\* The phi that stands for x at the head of b.
PhiValue(x, b) == <<"phi", x, b>>

ASSUME InstructionsInOrder ==
  \A f \in Functions :
    /\ f \in [params : {f.params}, blocks : Seq(ToSet(f.blocks)), void : BOOLEAN, opt : BOOLEAN]
    /\ \A b \in Blocks(f) :
         /\ f.blocks[b] \in Seq(ToSet(f.blocks[b]))
         /\ \A inst \in ToSet(f.blocks[b]) :
              inst \in [op : Opcodes, res : {inst.res}, args : Seq(ToSet(inst.args)),
                       to : Seq(ToSet(inst.to))]

\* Local variables are declared in the entry, and only loads and stores name
\* them; branches and returns end blocks, phis begin them and have one entry for
\* each predecessor.
ASSUME FunctionsWellFormed ==
  \A f \in Functions :
    /\ SsaForm(f)
    /\ \A s \in Sites(f) :
         LET inst == At(f, s)
         IN  /\ inst.op \in {"alloca", "load", "phi"} => inst.res # NoValue
             /\ inst.op \in {"set", "store", "br", "condbr", "ret"} => inst.res = NoValue
             /\ inst.op = "alloca" => s[1] = Entry
             /\ inst.op = "load" => Len(inst.args) = 1
             /\ inst.op = "set" => Len(inst.args) = 2
             /\ \A k \in DOMAIN inst.args :
                  inst.args[k] \in Locals(f) <=> inst.op \in {"load", "set"} /\ k = 1
             /\ inst.op \in {"br", "condbr", "ret"} => s[2] = Len(f.blocks[s[1]])
             /\ inst.op = "phi" => /\ s[1] # Entry
                                  /\ s[2] \in PhiSites(f, s[1])
                                  /\ IsInjective(inst.to)
                                  /\ ToSet(inst.to) = ToSet(Preds(f, s[1]))

\* fresh_id gives each phi a name of its own.
ASSUME NamesApart ==
  \A f \in Functions :
    /\ NoValue \notin Params(f) \cup Literals
    /\ \A x \in Locals(f), b \in Blocks(f) :
         PhiValue(x, b) \notin SsaValues(f) \cup Literals \cup {NoValue}

VARIABLES
  original,    \* the function before the pass
  promotable,  \* its local variables, in order
  variable,    \* place in promotable of the variable that gets phis now
  worklist,    \* blocks whose frontiers still need a phi for it
  stacks,      \* variable -> values it was given on the way to here
  walk,        \* the calls of rename_block that have not returned
  pc,          \* <<block, index>> in original
  before,      \* value -> literal, for original
  after        \* value -> literal, for fn

passVars == <<original, promotable, variable, worklist, stacks, walk>>
runVars == <<pc, before, after>>
vars == <<domVars, passVars, runVars>>

-----------------------------------------------------------------------------
(* Which variables, and where their phis go. *)

\* collect_promotable: allocas of the entry read and written only by loads and
\* stores, not by other instructions that take the address.
CollectPromotable ==
  /\ FrontiersFound
  /\ promotable' =
       LET insts == fn.blocks[Entry]
           found == {i \in DOMAIN insts :
                       /\ insts[i].op = "alloca"
                       /\ \A u \in Uses(fn, insts[i].res) : At(fn, u[1]).op \in {"load", "set"}}
       IN  Picked([i \in DOMAIN insts |-> insts[i].res], found)
  /\ stage' = "choosing"
  /\ UNCHANGED <<fn, visiting, postorder, idom, turn, changed, frontier, edge, runner,
                 original, variable, worklist, stacks, walk, runVars>>

\* A phi put there for a variable, and the variable.
Inserted(inst) ==
  inst.op = "phi" /\ \E i \in DOMAIN promotable, b \in Blocks(fn) :
                       inst.res = PhiValue(promotable[i], b)
VariableOf(inst) == inst.res[2]

\* insert_phi: starts with the blocks that store to the variable.
ChooseVariable ==
  /\ stage = "choosing"
  /\ variable < Len(promotable)
  /\ variable' = variable + 1
  /\ worklist' = {s[1] : s \in {u[1] : u \in Uses(fn, promotable[variable + 1])}
                                \cap {s \in Sites(fn) : At(fn, s).op = "set"}}
  /\ stage' = "inserting"
  /\ UNCHANGED <<fn, visiting, postorder, idom, turn, changed, frontier, edge, runner,
                 original, promotable, stacks, walk, runVars>>

\* slip: a phi is not itself a new value of the variable
InsertPhisOnce(b) ==
  /\ stage = "inserting"
  /\ b \in worklist
  /\ LET x == promotable[variable]
         heads == {c \in frontier[b] : PhiValue(x, c) \notin Results(fn)}
     IN  /\ fn' = [fn EXCEPT !.blocks = [c \in Blocks(fn) |->
                     IF c \in heads
                     THEN <<[op |-> "phi", res |-> PhiValue(x, c), args |-> << >>,
                             to |-> << >>]>> \o fn.blocks[c]
                     ELSE fn.blocks[c]]]
         /\ worklist' = worklist \ {b}
  /\ UNCHANGED <<stage, visiting, postorder, idom, turn, changed, frontier, edge, runner,
                 original, promotable, variable, stacks, walk, runVars>>

\* A block of the worklist, in any order: the blocks of its frontier that have
\* no phi for the variable get one, and are new definitions themselves.
InsertPhis(b) ==
  /\ stage = "inserting"
  /\ b \in worklist
  /\ LET x == promotable[variable]
         heads == {c \in frontier[b] : PhiValue(x, c) \notin Results(fn)}
     IN  /\ fn' = [fn EXCEPT !.blocks = [c \in Blocks(fn) |->
                     IF c \in heads
                     THEN <<[op |-> "phi", res |-> PhiValue(x, c), args |-> << >>,
                             to |-> << >>]>> \o fn.blocks[c]
                     ELSE fn.blocks[c]]]
         /\ worklist' = (worklist \ {b}) \cup heads
  /\ UNCHANGED <<stage, visiting, postorder, idom, turn, changed, frontier, edge, runner,
                 original, promotable, variable, stacks, walk, runVars>>

VariableDone ==
  /\ stage = "inserting"
  /\ worklist = {}
  /\ stage' = "choosing"
  /\ UNCHANGED <<fn, visiting, postorder, idom, turn, changed, frontier, edge, runner,
                 original, promotable, variable, worklist, stacks, walk, runVars>>

-----------------------------------------------------------------------------
(* rename_block, one step at a time.  A call that has not returned is its  *)
(* block, the index of the instruction it is at, the number of the child   *)
(* to rename next and the variables it has pushed a value of.              *)

Call(b) == [block |-> b, index |-> 1, child |-> 1, pushed |-> << >>]

StartRenaming ==
  /\ stage = "choosing"
  /\ variable = Len(promotable)
  /\ stacks' = [x \in ToSet(promotable) |-> << >>]
  /\ walk' = <<Call(Entry)>>
  /\ stage' = "renaming"
  /\ UNCHANGED <<fn, visiting, postorder, idom, turn, changed, frontier, edge, runner,
                 original, promotable, variable, worklist, runVars>>

\* current_value: 0 for a variable without a value.
CurrentValue(x) == IF stacks[x] = << >> THEN Zero ELSE Last(stacks[x])

Here == Last(walk)
Renaming == stage = "renaming" /\ walk # << >>
RenamingInst == Renaming /\ Here.index \in DOMAIN fn.blocks[Here.block]
This == fn.blocks[Here.block][Here.index]

Local(inst) == inst.op \in {"load", "set"} /\ inst.args[1] \in ToSet(promotable)

\* slip: the address instead of the value
PushAddress(x, v) ==
  /\ stacks' = [stacks EXCEPT ![x] = Append(@, x)]
  /\ walk' = [walk EXCEPT ![Len(walk)].index = @ + 1, ![Len(walk)].pushed = Append(@, x)]

Push(x, v) ==
  /\ stacks' = [stacks EXCEPT ![x] = Append(@, v)]
  /\ walk' = [walk EXCEPT ![Len(walk)].index = @ + 1, ![Len(walk)].pushed = Append(@, x)]

\* A phi put there for a variable, or a store to it: the variable's new value.
DefineVariable ==
  /\ RenamingInst
  /\ \/ Inserted(This) /\ Push(VariableOf(This), This.res)
     \/ This.op = "set" /\ Local(This) /\ Push(This.args[1], This.args[2])
  /\ UNCHANGED <<domVars, original, promotable, variable, worklist, runVars>>

Replaced(args, v, w) == [k \in DOMAIN args |-> IF args[k] = v THEN w ELSE args[k]]

\* replace_all_uses_with, in the whole function; the stacks keep what they have.
RewriteLoad ==
  /\ RenamingInst
  /\ This.op = "load" /\ Local(This)
  /\ fn' = [fn EXCEPT !.blocks = [b \in Blocks(fn) |-> [i \in DOMAIN fn.blocks[b] |->
              [fn.blocks[b][i] EXCEPT !.args =
                 Replaced(@, This.res, CurrentValue(This.args[1]))]]]]
  /\ walk' = [walk EXCEPT ![Len(walk)].index = @ + 1]
  /\ UNCHANGED <<stage, visiting, postorder, idom, turn, changed, frontier, edge, runner,
                 original, promotable, variable, worklist, stacks, runVars>>

KeepInst ==
  /\ RenamingInst
  /\ ~Inserted(This) /\ ~Local(This)
  /\ walk' = [walk EXCEPT ![Len(walk)].index = @ + 1]
  /\ UNCHANGED <<domVars, original, promotable, variable, worklist, stacks, runVars>>

\* The end of the block: its edges bring the current values to the phis.
FillPhis ==
  /\ Renaming
  /\ Here.index = Len(fn.blocks[Here.block]) + 1
  /\ LET filled(inst) == [inst EXCEPT !.args = Append(@, CurrentValue(VariableOf(inst))),
                                      !.to = Append(@, Here.block)]
     IN  fn' = [fn EXCEPT !.blocks = [c \in Blocks(fn) |-> [i \in DOMAIN fn.blocks[c] |->
                 IF c \in Succs(fn, Here.block) /\ i \in PhiSites(fn, c)
                    /\ Inserted(fn.blocks[c][i])
                 THEN filled(fn.blocks[c][i]) ELSE fn.blocks[c][i]]]]
  /\ walk' = [walk EXCEPT ![Len(walk)].index = @ + 1]
  /\ UNCHANGED <<stage, visiting, postorder, idom, turn, changed, frontier, edge, runner,
                 original, promotable, variable, worklist, stacks, runVars>>

RenamingChildren == Renaming /\ Here.index = Len(fn.blocks[Here.block]) + 2

RenameChild ==
  /\ RenamingChildren
  /\ Here.child \in DOMAIN Children(Here.block)
  /\ walk' = Append([walk EXCEPT ![Len(walk)].child = @ + 1],
                    Call(Children(Here.block)[Here.child]))
  /\ UNCHANGED <<domVars, original, promotable, variable, worklist, stacks, runVars>>

\* slip: what the block pushed stays
LeaveStacks ==
  /\ RenamingChildren
  /\ Here.child \notin DOMAIN Children(Here.block)
  /\ walk' = Front(walk)
  /\ UNCHANGED <<domVars, original, promotable, variable, worklist, stacks, runVars>>

\* What the block pushed is popped.
PopVariables ==
  /\ RenamingChildren
  /\ Here.child \notin DOMAIN Children(Here.block)
  /\ stacks' = [x \in DOMAIN stacks |->
                  LET pushed == {i \in DOMAIN Here.pushed : Here.pushed[i] = x}
                  IN  SubSeq(stacks[x], 1, Len(stacks[x]) - Cardinality(pushed))]
  /\ walk' = Front(walk)
  /\ UNCHANGED <<domVars, original, promotable, variable, worklist, runVars>>

-----------------------------------------------------------------------------
(* cleanup and normalize_phis. *)

Erased(inst) == Local(inst) \/ (inst.op = "alloca" /\ inst.res \in ToSet(promotable))

\* reorder_incoming: one entry for each predecessor, in their order.  A
\* predecessor without entry leaves a null operand.
Reordered(phi, preds) ==
  [phi EXCEPT !.to = preds,
              !.args = [j \in DOMAIN preds |->
                 LET entries == {i \in DOMAIN phi.to : phi.to[i] = preds[j]}
                 IN  IF entries = {} THEN NoValue ELSE phi.args[Max(entries)]]]

Cleanup ==
  /\ stage = "renaming"
  /\ walk = << >>
  /\ fn' = [fn EXCEPT !.blocks = [b \in Blocks(fn) |->
              LET kept == Picked(fn.blocks[b], {i \in DOMAIN fn.blocks[b] :
                                                  ~Erased(fn.blocks[b][i])})
              IN  [i \in DOMAIN kept |->
                     IF kept[i].op = "phi" THEN Reordered(kept[i], Preds(fn, b))
                     ELSE kept[i]]]]
  /\ stage' = "promoted"
  /\ UNCHANGED <<visiting, postorder, idom, turn, changed, frontier, edge, runner,
                 passVars, runVars>>

-----------------------------------------------------------------------------
(* The two functions run. *)

\* Both are called with the same arguments.  A variable of original that was
\* never stored to holds 0, as good a value as any other.
Start(given) ==
  /\ stage = "promoted"
  /\ before' = [v \in SsaValues(original) |-> IF v \in Params(fn) THEN given[v] ELSE Zero]
  /\ after' = [v \in SsaValues(fn) |-> IF v \in Params(fn) THEN given[v] ELSE NoValue]
  /\ stage' = "running"
  /\ UNCHANGED <<fn, visiting, postorder, idom, turn, changed, frontier, edge, runner,
                 passVars, pc>>

Value(values, v) == IF v \in Literals THEN v ELSE values[v]
Args(values, inst) == [i \in DOMAIN inst.args |-> Value(values, inst.args[i])]

\* The instruction of fn that original's instruction s has become.
Counterpart(s) ==
  LET b == original.blocks[s[1]]
      kept(upto) == Cardinality({i \in 1 .. upto : ~Erased(b[i])})
  IN  fn.blocks[s[1]][Len(fn.blocks[s[1]]) - kept(Len(b)) + kept(s[2])]

Running(ops) ==
  stage = "running" /\ pc \in Sites(original) /\ At(original, pc).op \in ops

\* Loads and stores of local variables happen in original alone.
Access ==
  /\ LET inst == At(original, pc)
     IN  \/ /\ Running({"load"})
            /\ before' = [before EXCEPT ![inst.res] = before[inst.args[1]]]
         \/ /\ Running({"set"})
            /\ before' = [before EXCEPT ![inst.args[1]] = Value(before, inst.args[2])]
         \/ Running({"alloca", "phi"}) /\ UNCHANGED before
  /\ pc' = <<pc[1], pc[2] + 1>>
  /\ UNCHANGED <<domVars, passVars, after>>

Compute(result) ==
  /\ Running({"arith", "call", "store"})
  /\ LET v == At(original, pc).res
         computed(values) == IF v = NoValue THEN values ELSE [values EXCEPT ![v] = result]
     IN  before' = computed(before) /\ after' = computed(after)
  /\ pc' = <<pc[1], pc[2] + 1>>
  /\ UNCHANGED <<domVars, passVars>>

\* The phis of the block the branch goes to take their values at once.
Arriving(f, values, b, c) ==
  [v \in DOMAIN values |->
     LET phis == {phi \in Phis(f, c) : phi.res = v /\ HasIncoming(phi, b)}
     IN  IF phis = {} THEN values[v]
         ELSE Value(values, Incoming(CHOOSE phi \in phis : TRUE, b))]

Goto(c) ==
  /\ Running({"br", "condbr"})
  /\ c \in Succs(original, pc[1])
  /\ before' = Arriving(original, before, pc[1], c)
  /\ after' = Arriving(fn, after, pc[1], c)
  /\ pc' = <<c, 1>>
  /\ UNCHANGED <<domVars, passVars>>

\* An open block of a void function returns at its end.
Return ==
  /\ \/ Running({"ret"})
     \/ /\ stage = "running"
        /\ pc # << >> /\ pc \notin Sites(original)
  /\ pc' = << >>
  /\ UNCHANGED <<domVars, passVars, before, after>>

-----------------------------------------------------------------------------

Init ==
  /\ DomInit
  /\ original = fn
  /\ promotable = << >>
  /\ variable = 0
  /\ worklist = {}
  /\ stacks = << >>
  /\ walk = << >>
  /\ pc = <<Entry, 1>>
  /\ before = << >>
  /\ after = << >>

Pass ==
  \/ DomNext /\ UNCHANGED <<passVars, runVars>>
  \/ CollectPromotable \/ ChooseVariable \/ VariableDone \/ StartRenaming
  \/ \E b \in Blocks(fn) : InsertPhis(b)
  \/ DefineVariable \/ RewriteLoad \/ KeepInst
  \/ FillPhis \/ RenameChild \/ PopVariables
  \/ Cleanup

Over == pc = << >> /\ UNCHANGED vars

Next ==
  \/ Pass
  \/ \E given \in [Params(fn) -> Literals] : Start(given)
  \/ Access
  \/ \E result \in Literals : Compute(result)
  \/ \E c \in Blocks(fn) : Goto(c)
  \/ Return
  \/ Over

Spec == Init /\ [][Next]_vars /\ WF_vars(Pass)

-----------------------------------------------------------------------------

TypeOK ==
  /\ stage \in {"ordering", "dominators", "frontiers", "choosing", "inserting", "renaming",
                "promoted", "running"}
  /\ postorder \in Seq(Blocks(fn))
  /\ idom \in [Blocks(fn) -> Blocks(fn) \cup {0}]
  /\ frontier \in [Blocks(fn) -> SUBSET Blocks(fn)]
  /\ runner \in Blocks(fn) \cup {0}
  /\ ToSet(promotable) \subseteq Results(original)
  /\ variable \in 0 .. Len(promotable)
  /\ worklist \subseteq Blocks(fn)
  /\ \A x \in DOMAIN stacks :
       ToSet(stacks[x]) \subseteq (SsaValues(fn) \cup Literals) \ DOMAIN stacks
  /\ \A i \in DOMAIN walk : walk[i].block \in Blocks(fn)
  /\ \A v \in DOMAIN before : before[v] \in Literals
  /\ \A v \in DOMAIN after : after[v] \in Literals \cup {NoValue}

\* The result is in SSA form: no operand is left null, read from a variable or
\* used where a path to it avoids its definition; a value has one definition; a
\* phi stands at the head of its block, has one entry for each predecessor, and
\* reads each at the end of that predecessor.
InSsaForm ==
  stage = "promoted" =>
    /\ SsaForm(fn)
    /\ \A s \in Sites(fn) : At(fn, s).op = "phi" =>
         /\ s[2] \in PhiSites(fn, s[1])
         /\ At(fn, s).to = Preds(fn, s[1])

\* Wherever the two functions are, what they store, compare, pass and return
\* is the same: no path, loop or branch makes a load read another value than
\* the variable had.
SameOperands ==
  Running({"arith", "call", "store", "condbr", "ret"}) =>
    Args(after, Counterpart(pc)) = Args(before, At(original, pc))

\* The search, the sweeps, the climbs and the worklists all come to an end.
PassEnds == <>(stage = "promoted")
=============================================================================
