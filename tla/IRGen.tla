------------------------------- MODULE IRGen -------------------------------
(***************************************************************************)
(* IRGenerator (src/src/ir/irgen.cpp): the IR of a function, with its      *)
(* local variables in memory, as operators from one state of the generator *)
(* to the next.                                                            *)
(*                                                                         *)
(*   blocks   the blocks of the function, as in FunctionIR                 *)
(*   at       insert_point()                                               *)
(*   loops    loops_: stack of [cond, exit]                                *)
(*   symbols  path of a declaration -> [addr, value]: where a variable is, *)
(*            or what a constant is worth                                  *)
(*   value    last_value_                                                  *)
(*   fresh    the next value number of the module                          *)
(*   ok       no error so far, and no null pointer read                    *)
(***************************************************************************)
EXTENDS Sema, FunctionIR

Constant(n) == <<"const", n>>
Argument(i) == <<"arg", i>>
Global(x) == <<"global", x>>
Numbered(n) == <<"v", n>>

InVariable(addr) == [addr |-> addr, value |-> << >>]
InConstant(n) == [addr |-> NoValue, value |-> <<n>>]

-----------------------------------------------------------------------------
(* IRBuilder and alloca_in_entry. *)

Inst(op, res, args, to) == [op |-> op, res |-> res, args |-> args, to |-> to]

\* slip: the value number is given again
FreshAgain(g) == [g EXCEPT !.value = Numbered(g.fresh)]

\* fresh_id
Fresh(g) == [g EXCEPT !.value = Numbered(g.fresh), !.fresh = @ + 1]

Emit(g, op, args, to) == [g EXCEPT !.blocks[g.at] = Append(@, Inst(op, NoValue, args, to))]
Compute(g, op, args) ==
  [Fresh(g) EXCEPT !.blocks[g.at] = Append(@, Inst(op, Numbered(g.fresh), args, << >>))]
Store(g, addr, v) == Emit(g, "set", <<addr, v>>, << >>)
Jump(g, b) == Emit(g, "br", << >>, <<b>>)

\* What is done with the last value.
StoreValue(g, addr) == Store(g, addr, g.value)
Nonzero(g) == Compute(g, "ne", <<g.value, Constant(0)>>)
Split(g, to) == Emit(g, "condbr", <<g.value>>, to)

NewBlocks(g, n) == [g EXCEPT !.blocks = @ \o [i \in 1 .. n |-> << >>]]
MoveTo(g, b) == [g EXCEPT !.at = b]
JumpIfOpen(g, b) == IF Terminated(g, g.at) THEN g ELSE Jump(g, b)

\* The new slot follows the allocas at the head of the entry block.
Alloca(g) ==
  LET entry == g.blocks[Entry]
      place == Min({i \in 1 .. Len(entry) + 1 : i > Len(entry) \/ entry[i].op # "alloca"})
  IN  [Fresh(g) EXCEPT !.blocks[Entry] =
         InsertAt(entry, place, Inst("alloca", Numbered(g.fresh), << >>, << >>))]

Broken(g) == [g EXCEPT !.ok = FALSE]

-----------------------------------------------------------------------------
(* Expressions. *)

RECURSIVE GenExpr(_, _, _, _)

\* slip: blocks of the right operand and of the short cut exchanged
TargetsReversed(op, rhs, short) == IF op = "or" THEN <<rhs, short>> ELSE <<short, rhs>>

\* Where a true left operand leads, and where a false one.
Targets(op, rhs, short) == IF op = "and" THEN <<rhs, short>> ELSE <<short, rhs>>

\* short_circuit: the result goes through a slot.
ShortCircuit(g, e, p, sema) ==
  LET slot == Numbered(g.fresh)
      parted(left) ==
        LET rhs == Len(left.blocks) + 1
            short == rhs + 1
            merge == rhs + 2
            split == Split(NewBlocks(Nonzero(left), 3), Targets(e.op, rhs, short))
        IN  MoveTo(Jump(Store(MoveTo(split, short), slot, Constant(Truth(e.op = "or"))), merge),
                   rhs)
      joined(right, merge) ==
        Compute(MoveTo(Jump(StoreValue(Nonzero(right), slot), merge), merge), "load", <<slot>>)
      rest(start) == joined(GenExpr(start, e.rhs, Append(p, 2), sema), start.at + 2)
  IN  rest(parted(GenExpr(Alloca(g), e.lhs, Append(p, 1), sema)))

GenIdent(g, p, sema) ==
  IF p \notin DOMAIN sema.refs \/ sema.refs[p] \notin DOMAIN g.symbols THEN Broken(g)
  ELSE LET symbol == g.symbols[sema.refs[p]]
       IN  IF symbol.value # << >> THEN [g EXCEPT !.value = Constant(symbol.value[1])]
           ELSE Compute(g, "load", <<symbol.addr>>)

GenUnary(g, e, p, sema) ==
  LET apply(operand) ==
        CASE e.op = "plus" -> operand
          [] e.op = "minus" -> Compute(operand, "neg", <<operand.value>>)
          [] e.op = "not" -> Compute(operand, "eq", <<operand.value, Constant(0)>>)
  IN  apply(GenExpr(g, e.operand, Append(p, 1), sema))

\* visit_binary: the left operand is computed first.
GenBinary(g, e, p, sema) ==
  LET opcode == IF e.op = "mod" THEN "rem" ELSE e.op
      apply(right, l) == Compute(right, opcode, <<l, right.value>>)
      rest(left) == apply(GenExpr(left, e.rhs, Append(p, 2), sema), left.value)
  IN  rest(GenExpr(g, e.lhs, Append(p, 1), sema))

\* A call that semantic analysis has not seen is taken for one with a result.
GenCall(g, e, p, sema) ==
  LET collect(after, args) == [g |-> after, args |-> Append(args, after.value)]
      argument(before, i) ==
        collect(GenExpr(before.g, e.args[i], Append(p, i), sema), before.args)
      call(all) ==
        IF p \in DOMAIN sema.calls /\ sema.calls[p] = "void"
        THEN [Emit(all.g, "call", all.args, << >>) EXCEPT !.value = NoValue]
        ELSE Compute(all.g, "call", all.args)
  IN  call(FoldLeftDomain(argument, [g |-> g, args |-> <<Global(e.callee)>>], e.args))

GenExpr(g, e, p, sema) ==
  CASE e.kind = "int" -> [g EXCEPT !.value = Constant(e.value)]
    [] e.kind = "ident" -> GenIdent(g, p, sema)
    [] e.kind = "unary" -> GenUnary(g, e, p, sema)
    [] e.kind = "binary" -> IF e.op \in Logical THEN ShortCircuit(g, e, p, sema)
                            ELSE GenBinary(g, e, p, sema)
    [] e.kind = "call" -> GenCall(g, e, p, sema)

-----------------------------------------------------------------------------
(* Statements. *)

RECURSIVE GenStmt(_, _, _, _)

\* slip: statements behind a terminator are generated
GenBlockOn(g, s, p, sema) ==
  FoldLeftDomain(LAMBDA before, i : GenStmt(before, s.body[i], Append(p, i), sema), g, s.body)

\* visit_block_stmt stops where the insert point is terminated.
GenBlock(g, s, p, sema) ==
  FoldLeftDomain(LAMBDA before, i : IF Terminated(before, before.at) THEN before
                                    ELSE GenStmt(before, s.body[i], Append(p, i), sema),
                 g, s.body)

\* visit_assign_stmt: the address is looked up before the value is computed.
GenAssign(g, s, p, sema) ==
  IF p \notin DOMAIN sema.refs \/ sema.refs[p] \notin DOMAIN g.symbols THEN Broken(g)
  ELSE StoreValue(GenExpr(g, s.expr, Append(p, 1), sema), g.symbols[sema.refs[p]].addr)

GenConst(g, p, sema) ==
  IF p \notin DOMAIN sema.consts THEN Broken(g)
  ELSE [g EXCEPT !.symbols = (p :> InConstant(sema.consts[p])) @@ @]

GenVar(g, s, p, sema) ==
  LET slot == Numbered(g.fresh)
      named == [Alloca(g) EXCEPT !.symbols = (p :> InVariable(slot)) @@ @]
  IN  StoreValue(GenExpr(named, s.expr, Append(p, 1), sema), slot)

\* Two new blocks for the condition to choose from, the first to go on in.
Part(g) ==
  LET then == Len(g.blocks) + 1
  IN  MoveTo(Split(NewBlocks(g, 2), <<then, then + 1>>), then)

GenIf(g, s, p, sema) ==
  LET taken(then) ==
        LET merge == then.at + 1
        IN  MoveTo(JumpIfOpen(GenStmt(then, s.branches[1], Append(p, 2), sema), merge), merge)
  IN  taken(Part(GenExpr(g, s.expr, Append(p, 1), sema)))

\* Two branches meet in a block of their own, unless both have left.
Meet(g, other) ==
  LET merge == Len(g.blocks) + 1
      first == JumpIfOpen(MoveTo(NewBlocks(g, 1), other), merge)
  IN  IF Terminated(g, other) /\ Terminated(g, g.at) THEN g
      ELSE MoveTo(JumpIfOpen(MoveTo(first, g.at), merge), merge)

GenIfElse(g, s, p, sema) ==
  LET second(first, else) ==
        Meet(GenStmt(MoveTo(first, else), s.branches[2], Append(p, 3), sema), first.at)
      both(then) == second(GenStmt(then, s.branches[1], Append(p, 2), sema), then.at + 1)
  IN  both(Part(GenExpr(g, s.expr, Append(p, 1), sema)))

GenWhile(g, s, p, sema) ==
  LET cond == Len(g.blocks) + 1
      body == cond + 1
      exit == cond + 2
      head == GenExpr(MoveTo(Jump(NewBlocks(g, 3), cond), cond), s.expr, Append(p, 1), sema)
      inside == [MoveTo(Split(head, <<body, exit>>), body) EXCEPT
                   !.loops = Append(@, [cond |-> cond, exit |-> exit])]
      done == JumpIfOpen(GenStmt(inside, s.body, Append(p, 2), sema), cond)
  IN  [MoveTo(done, exit) EXCEPT !.loops = g.loops]

\* slip: continue runs the body again without its condition
GenContinueInBody(g) == IF g.loops = << >> THEN Broken(g) ELSE Jump(g, Last(g.loops).cond + 1)

GenBreak(g) == IF g.loops = << >> THEN Broken(g) ELSE Jump(g, Last(g.loops).exit)
GenContinue(g) == IF g.loops = << >> THEN Broken(g) ELSE Jump(g, Last(g.loops).cond)

GenReturn(g, s, p, sema) ==
  LET value(after) == Emit(after, "ret", <<after.value>>, << >>)
  IN  IF HasExpr(s) THEN value(GenExpr(g, s.expr, Append(p, 1), sema))
      ELSE Emit(g, "ret", << >>, << >>)

GenStmt(g, s, p, sema) ==
  CASE s.kind = "block" -> GenBlock(g, s, p, sema)
    [] s.kind = "empty" -> g
    [] s.kind = "expr" -> GenExpr(g, s.expr, Append(p, 1), sema)
    [] s.kind = "assign" -> GenAssign(g, s, p, sema)
    [] s.kind = "const" -> GenConst(g, p, sema)
    [] s.kind = "var" -> GenVar(g, s, p, sema)
    [] s.kind = "if" -> IF Len(s.branches) = 2 THEN GenIfElse(g, s, p, sema)
                        ELSE GenIf(g, s, p, sema)
    [] s.kind = "while" -> GenWhile(g, s, p, sema)
    [] s.kind = "break" -> GenBreak(g)
    [] s.kind = "continue" -> GenContinue(g)
    [] s.kind = "return" -> GenReturn(g, s, p, sema)

-----------------------------------------------------------------------------
(* Functions and the unit. *)

\* visit_func_def: the outermost block goes through walk_block, which does not
\* stop where the insert point is terminated.
GenFunc(g, func, p, sema) ==
  LET entered == [g EXCEPT !.blocks = << << >> >>, !.at = Entry]
      param(before, i) ==
        LET slot == Numbered(before.fresh)
        IN  Store([Alloca(before) EXCEPT !.symbols = (Append(p, i) :> InVariable(slot)) @@ @],
                  slot, Argument(i))
  IN  FoldLeftDomain(LAMBDA before, i : GenStmt(before, func.body[i], p \o <<0, i>>, sema),
                     FoldLeftDomain(param, entered, func.params), func.body)

GenGlobalVar(g, item, p, sema) ==
  IF p \notin DOMAIN sema.consts THEN Broken(g)
  ELSE [g EXCEPT !.symbols = (p :> InVariable(Global(item.name))) @@ @]

GenItem(g, item, p, sema) ==
  CASE item.kind = "const" -> GenConst(g, p, sema)
    [] item.kind = "var" -> GenGlobalVar(g, item, p, sema)
    [] item.kind = "func" -> GenFunc(g, item, p, sema)

\* generate; blocks are those of the last function of the unit.
Generate(unit, sema) ==
  FoldLeftDomain(LAMBDA g, i : GenItem(g, unit[i], <<i>>, sema),
                 [blocks |-> << >>, at |-> Entry, loops |-> << >>, symbols |-> << >>,
                  value |-> NoValue, fresh |-> 1, ok |-> TRUE], unit)
=============================================================================
