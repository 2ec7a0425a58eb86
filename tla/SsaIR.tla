------------------------------- MODULE SsaIR -------------------------------
(***************************************************************************)
(* The intermediate representation as the optimiser sees it                *)
(* (src/include/toyc/ir.h), and what it means.  A module is the sequence   *)
(* of its functions in source order,                                       *)
(*                                                                         *)
(*   function     [name, params, blocks, order, next, void]: blocks are    *)
(*                numbered as create_block does, from 0, next is the       *)
(*                number of the next one, order the list of blocks, the    *)
(*                entry first                                              *)
(*   instruction  [op, res, args, to]; to also holds the amount of a shift *)
(*                and the name of the callee                               *)
(*   value        <<"const", n>>, <<"global", x>>, <<"arg", i>> or         *)
(*                <<"v", id>> (an instruction)                             *)
(*                                                                         *)
(* The meaning is an interpreter over a stack of frames: what a call       *)
(* returns and leaves in the globals is the outcome that no pass may       *)
(* change.                                                                 *)
(***************************************************************************)
EXTENDS FunctionIR, Words, TLC

Const(n) == <<"const", n>>
Global(x) == <<"global", x>>
Arg(i) == <<"arg", i>>
V(id) == <<"v", id>>

IsConst(v) == v[1] = "const"
IsGlobal(v) == v[1] = "global"
IsInst(v) == v[1] = "v"

Inst(op, res, args, to) == [op |-> op, res |-> res, args |-> args, to |-> to]
Br(b) == Inst("br", NoValue, << >>, <<b>>)

Comparisons == {"eq", "ne", "lt", "gt", "le", "ge"}
Arithmetic == {"add", "sub", "mul", "div", "rem", "and"}
Binary == Arithmetic \cup Comparisons
Unary == {"neg", "shl", "shr"}

EntryOf(f) == f.order[1]

\* The first of some instructions in the order of the block list.
FirstOf(f, sites) ==
  LET inBlock(i) == {s[2] : s \in {t \in sites : t[1] = f.order[i]}}
      first == Min({i \in DOMAIN f.order : inBlock(i) # {}})
  IN  <<f.order[first], Min(inBlock(first))>>

Size(f) == Cardinality(Sites(f))

\* F(x), with x computed once.
Given(x, F(_)) == CHOOSE result \in {F(y) : y \in {x}} : TRUE

PredsOf(f, b) == {c \in Blocks(f) : b \in Succs(f, c)}
FunctionNamed(m, name) == m[CHOOSE i \in DOMAIN m : m[i].name = name]

-----------------------------------------------------------------------------
(* Edits. *)

\* replace_all_uses_with
ReplaceUses(f, v, w) ==
  [f EXCEPT !.blocks = [b \in DOMAIN f.blocks |-> [i \in DOMAIN f.blocks[b] |->
     [f.blocks[b][i] EXCEPT !.args = [k \in DOMAIN @ |-> IF @[k] = v THEN w ELSE @[k]]]]]]

\* erase_dead, of instructions with a result
EraseValues(f, dead) ==
  LET lives(inst) == inst.res = NoValue \/ inst.res \notin dead
      living(block) == Picked(block, {i \in DOMAIN block : lives(block[i])})
  IN  [f EXCEPT !.blocks = [b \in DOMAIN f.blocks |-> living(f.blocks[b])]]

\* What a pass does to a computation it can do without.
Substitute(f, v, w) == EraseValues(ReplaceUses(f, v, w), {v})

SetInst(f, s, inst) == [f EXCEPT !.blocks[s[1]][s[2]] = inst]

-----------------------------------------------------------------------------
(* What the instructions compute. *)

EvaluateUnary(op, a, to) ==
  CASE op = "neg" -> Wrap(-a)
    [] op = "shl" -> ShiftLeft(a, Power(to[1]))
    [] op = "shr" -> ShiftRight(a, Power(to[1]))

\* A frame: the function, the next instruction, and the values computed and
\* variables stored so far.
Frame(f, given) ==
  [fn |-> f, block |-> EntryOf(f), index |-> 1,
   vals |-> [v \in Params(f) |-> given[v[2]]]]

Read(vals, v) ==
  CASE IsConst(v) -> v[2]
    [] v = NoValue -> 0
    [] OTHER -> vals[v]

\* A step of the program: stack is the frames, globals the global variables,
\* and given what the call that has just returned has brought back.  A void
\* function returns 0.
Step(m, run) ==
  LET frame == Head(run.stack)
      f == frame.fn
      block == f.blocks[frame.block]
      inst == block[frame.index]
      a(k) == Read(frame.vals, inst.args[k])
      next(vals) == [run EXCEPT !.stack[1].index = @ + 1, !.stack[1].vals = vals]
      computed(n) == next((inst.res :> n) @@ frame.vals)
      goto(c) ==
        LET heads == PhiSites(f, c)
            arriving == [v \in {f.blocks[c][i].res : i \in heads} |->
                           LET phi == CHOOSE phi \in Phis(f, c) : phi.res = v
                           IN  IF HasIncoming(phi, frame.block)
                               THEN Read(frame.vals, Incoming(phi, frame.block)) ELSE 0]
        IN  [run EXCEPT !.stack[1].block = c, !.stack[1].index = Cardinality(heads) + 1,
                        !.stack[1].vals = arriving @@ @]
      return(n) ==
        IF Len(run.stack) = 1
        THEN [run EXCEPT !.stack = << >>, !.result = n]
        ELSE LET caller == run.stack[2]
                 res == caller.fn.blocks[caller.block][caller.index].res
             IN  [run EXCEPT !.stack = <<[caller EXCEPT
                    !.index = @ + 1,
                    !.vals = IF res = NoValue THEN @ ELSE (res :> n) @@ @]>>
                    \o SubSeq(run.stack, 3, Len(run.stack))]
  IN  IF frame.index > Len(block) THEN return(0)
      ELSE CASE inst.op \in Binary -> computed(Evaluate(inst.op, a(1), a(2)))
             [] inst.op \in Unary -> computed(EvaluateUnary(inst.op, a(1), inst.to))
             [] inst.op = "alloca" -> computed(0)
             [] inst.op = "load" ->
                  computed(IF IsGlobal(inst.args[1]) THEN run.globals[inst.args[1]] ELSE a(1))
             [] inst.op = "store" ->
                  IF IsGlobal(inst.args[1])
                  THEN [next(frame.vals) EXCEPT !.globals[inst.args[1]] = a(2)]
                  ELSE next((inst.args[1] :> a(2)) @@ frame.vals)
             [] inst.op = "br" -> goto(inst.to[1])
             [] inst.op = "condbr" -> goto(IF a(1) # 0 THEN inst.to[1] ELSE inst.to[2])
             [] inst.op = "ret" -> return(IF inst.args = << >> THEN 0 ELSE a(1))
             [] inst.op = "call" ->
                  [run EXCEPT !.stack =
                     <<Frame(FunctionNamed(m, inst.to[1]),
                             [k \in DOMAIN inst.args |-> a(k)])>> \o @]

\* What becomes of a run in so many turns of ten steps.
Turn == 10
Finish(m, start, turns) ==
  LET turned(run) ==
        LET after[n \in 0 .. Turn] ==
              IF n = 0 THEN run
              ELSE LET before == after[n - 1]
                   IN  IF before.stack = << >> THEN before ELSE Step(m, before)
        IN  after[Turn]
      ended[n \in Nat] == IF n = 0 THEN start ELSE Given(ended[n - 1], turned)
  IN  ended[turns]

\* The outcome of calling f: the value returned and the globals, or nothing if
\* the call has not returned after so many turns.
Outcome(m, f, given, globals, fuel) ==
  LET run == Finish(m, [stack |-> <<Frame(f, given)>>, globals |-> globals, result |-> 0], fuel)
  IN  IF run.stack = << >> THEN <<run.result, run.globals>> ELSE << >>

-----------------------------------------------------------------------------
(* Dominance, as what it means: every path from the entry passes there. *)

\* Flooded(f, avoided): what can be reached without the avoided blocks.
Flooded(f, avoided) ==
  LET reached[n \in Nat] ==
        IF n = 0 THEN {EntryOf(f)} \ avoided
        ELSE LET before == reached[n - 1]
             IN  before \cup ((UNION {Succs(f, c) : c \in before}) \ avoided)
  IN  reached[Len(f.order)]

ReachedAvoiding(f, b) == Flooded(f, {b})
Reachable(f) == Flooded(f, {})

\* Block -> the blocks it does not dominate.
Avoidable(f) == [b \in Blocks(f) |-> ReachedAvoiding(f, b)]
DominatesIn(f, b, c) == c \notin ReachedAvoiding(f, b)

\* The value v has been computed wherever control reaches instruction i of b.
Available(f, avoidable, v, b, i) ==
  \/ v[1] \in {"const", "global"}
  \/ v \in Params(f)
  \/ \E d \in Sites(f) :
       /\ At(f, d).res = v
       /\ IF d[1] = b THEN d[2] < i ELSE b \notin avoidable[d[1]]

\* Each value is defined once, before it is read; blocks end in one terminator
\* (or, in a void function, in none); branches go to blocks of the function.
SsaForm(f) == Given(Avoidable(f), LAMBDA avoidable :
  /\ ToSet(f.order) = Blocks(f)
  /\ Len(f.order) = Cardinality(Blocks(f))
  /\ Cardinality(Results(f)) = Cardinality({s \in Sites(f) : At(f, s).res # NoValue})
  /\ \A b \in Blocks(f) :
       /\ Succs(f, b) \subseteq Blocks(f)
       /\ ~f.void => Terminated(f, b)
       /\ \A i \in DOMAIN f.blocks[b] :
            /\ f.blocks[b][i].op \in {"br", "condbr", "ret"} => i = Len(f.blocks[b])
            /\ f.blocks[b][i].op = "phi" => i \in PhiSites(f, b)
            /\ f.blocks[b][i].op # "phi" =>
                 \A v \in ToSet(f.blocks[b][i].args) : Available(f, avoidable, v, b, i)
       /\ \A phi \in Phis(f, b) : \A k \in DOMAIN phi.to :
            phi.to[k] \in PredsOf(f, b) =>
              Available(f, avoidable, phi.args[k], phi.to[k], Len(f.blocks[phi.to[k]]) + 1))

\* A phi has exactly one entry for each edge into its block.
PhisMatchEdges(f) ==
  \A b \in Blocks(f) : \A phi \in Phis(f, b) :
    /\ ToSet(phi.to) = PredsOf(f, b)
    /\ Len(phi.to) = Cardinality(PredsOf(f, b))
=============================================================================
