-------------------------------- MODULE Sema --------------------------------
(***************************************************************************)
(* Semantic analysis (src/src/sema/sema.cpp): the Analyzer as operators    *)
(* from one state of it to the next.                                       *)
(*                                                                         *)
(*   scopes   stack of name -> symbol                                      *)
(*   func     the function being analysed                                  *)
(*   loops    loop_depth_                                                  *)
(*   ok       no error was reported                                        *)
(*   trapped  the host has stopped the compiler: a constant division has   *)
(*            no result in its words                                       *)
(*   type     of the last expression: "int" or "void"                      *)
(*   returns  the last statement returns on every path through it          *)
(*   refs     idents and assigns: path of the use -> path of the           *)
(*            declaration                                                  *)
(*   calls    path of the call -> what the function returns                      *)
(*   consts   const_values of declarations: path -> value                  *)
(*                                                                         *)
(* Optional values are sequences of length 0 or 1.                         *)
(***************************************************************************)
EXTENDS Ast, FiniteSets

Fail(st) == [st EXCEPT !.ok = FALSE]
Check(st, condition) == IF condition THEN st ELSE Fail(st)

-----------------------------------------------------------------------------
(* Symbols and scopes. *)

Object(storage, decl, value) ==
  [kind |-> "object", storage |-> storage, decl |-> decl, value |-> value]
Function(func) == [kind |-> "function", func |-> func]
Undeclared == [kind |-> "undeclared"]

\* resolve: the innermost scope that has the name.
Resolve(scopes, x) ==
  LET holders == {i \in DOMAIN scopes : x \in DOMAIN scopes[i]}
  IN  IF holders = {} THEN Undeclared ELSE scopes[Max(holders)][x]

Declared(st, x) == x \in DOMAIN Last(st.scopes)
Declare(st, x, symbol) ==
  IF Declared(st, x) THEN Fail(st)
  ELSE [st EXCEPT !.scopes[Len(st.scopes)] = @ @@ (x :> symbol)]

PushScope(st) == [st EXCEPT !.scopes = Append(@, << >>)]
PopScope(st) == [st EXCEPT !.scopes = Front(@)]

-----------------------------------------------------------------------------
(* Constant evaluation. *)

\* eval_const_expr.  The values the code caches are the ones found here.
RECURSIVE ConstValue(_, _)
ConstValue(scopes, e) ==
  CASE e.kind = "int" -> <<e.value>>
    [] e.kind = "ident" ->
         LET symbol == Resolve(scopes, e.name)
         IN  IF symbol.kind = "object" THEN symbol.value ELSE << >>
    [] e.kind = "unary" ->
         LET v == ConstValue(scopes, e.operand)
         IN  [i \in DOMAIN v |-> UnaryValue(e.op, v[i])]
    [] e.kind = "binary" ->
         LET l == ConstValue(scopes, e.lhs)
             r == ConstValue(scopes, e.rhs)
         IN  CASE l = << >> -> << >>
               [] e.op = "and" /\ l = <<0>> -> <<0>>
               [] e.op = "or" /\ l # <<0>> -> <<1>>
               [] e.op \in Logical -> [i \in DOMAIN r |-> Truth(r[i] # 0)]
               [] e.op \in Dividing /\ r = <<0>> -> << >>
               [] OTHER -> [i \in DOMAIN r |-> BinaryValue(e.op, l[1], r[i])]
    [] e.kind = "call" -> << >>

\* The left operand settles the logical expression; the right one is analysed
\* without constant evaluation.
Settled(scopes, e) ==
  LET l == ConstValue(scopes, e.lhs)
  IN  \/ e.op = "and" /\ l = <<0>>
      \/ e.op = "or" /\ l \notin {<< >>, <<0>>}

DividesByZero(scopes, e) ==
  /\ e.op \in Dividing
  /\ ConstValue(scopes, e.lhs) # << >>
  /\ ConstValue(scopes, e.rhs) = <<0>>

\* The smallest integer divided by minus one is undefined on the host, which
\* traps; sums, products and differences that overflow wrap.
Traps(scopes, e) ==
  /\ e.op \in Dividing
  /\ ConstValue(scopes, e.lhs) = <<-Half>>
  /\ ConstValue(scopes, e.rhs) = <<-1>>

-----------------------------------------------------------------------------
(* Expressions. *)

\* analyze_expr, and require_int_expr around it; muted is the guard that
\* suppresses constant evaluation.
RECURSIVE AnalyzeExpr(_, _, _, _)
RequireInt(st, e, p, muted) ==
  LET int(after) == Check(after, after.type = "int")
  IN  int(AnalyzeExpr(st, e, p, muted))

AnalyzeIdent(st, e, p) ==
  LET symbol == Resolve(st.scopes, e.name)
  IN  IF symbol.kind = "object" THEN [st EXCEPT !.refs = @ @@ (p :> symbol.decl)] ELSE Fail(st)

AnalyzeBinary(st, e, p, muted) ==
  LET left == RequireInt(st, e.lhs, Append(p, 1), muted)
      quiet == muted \/ Settled(st.scopes, e)
      both == RequireInt(left, e.rhs, Append(p, 2), quiet)
  IN  IF quiet THEN both
      ELSE [Check(both, ~DividesByZero(st.scopes, e)) EXCEPT
              !.trapped = @ \/ Traps(st.scopes, e)]

AnalyzeCall(st, e, p, muted) ==
  LET symbol == Resolve(st.scopes, e.callee)
      called == [st EXCEPT !.calls = @ @@ (p :> symbol.func.ret)]
      argument(before, i) == RequireInt(before, e.args[i], Append(p, i), muted)
  IN  IF symbol.kind # "function" THEN [Fail(st) EXCEPT !.type = "int"]
      ELSE [FoldLeftDomain(argument, Check(called, Len(e.args) = Len(symbol.func.params)),
                           e.args)
            EXCEPT !.type = symbol.func.ret]

AnalyzeExpr(st, e, p, muted) ==
  CASE e.kind = "int" -> [st EXCEPT !.type = "int"]
    [] e.kind = "ident" -> [AnalyzeIdent(st, e, p) EXCEPT !.type = "int"]
    [] e.kind = "unary" -> [RequireInt(st, e.operand, Append(p, 1), muted) EXCEPT !.type = "int"]
    [] e.kind = "binary" -> [AnalyzeBinary(st, e, p, muted) EXCEPT !.type = "int"]
    [] e.kind = "call" -> AnalyzeCall(st, e, p, muted)

-----------------------------------------------------------------------------
(* Declarations, local and global. *)

\* analyze_local_const, analyze_global_const, analyze_global_var: the initial
\* value has to be constant; a constant also remembers it.
AnalyzeInitialised(st, s, p, storage) ==
  LET after == RequireInt(st, s.expr, Append(p, 1), FALSE)
      value == ConstValue(st.scopes, s.expr)
      symbol == Object(storage, p, IF storage = "const" THEN value ELSE << >>)
  IN  IF Declared(st, s.name) THEN Fail(st)
      ELSE IF value = << >> THEN Fail(after)
      ELSE Declare([after EXCEPT !.consts = @ @@ (p :> value[1])], s.name, symbol)

AnalyzeConst(st, s, p) == AnalyzeInitialised(st, s, p, "const")
AnalyzeGlobalVar(st, s, p) == AnalyzeInitialised(st, s, p, "var")

\* analyze_local_var: declared after its initial value has been analysed.
AnalyzeVar(st, s, p) ==
  IF Declared(st, s.name) THEN Fail(st)
  ELSE Declare(RequireInt(st, s.expr, Append(p, 1), FALSE), s.name, Object("var", p, << >>))

\* analyze_assign.
AnalyzeAssign(st, s, p) ==
  LET symbol == Resolve(st.scopes, s.name)
      resolved == IF symbol.kind = "object" /\ symbol.storage # "const"
                  THEN [st EXCEPT !.refs = @ @@ (p :> symbol.decl)] ELSE Fail(st)
  IN  RequireInt(resolved, s.expr, Append(p, 1), FALSE)

-----------------------------------------------------------------------------
(* Statements. *)

\* contains_current_loop_break
RECURSIVE Breaks(_)
Breaks(s) ==
  CASE s.kind = "break" -> TRUE
    [] s.kind = "block" -> \E i \in DOMAIN s.body : Breaks(s.body[i])
    [] s.kind = "if" -> \E i \in DOMAIN s.branches : Breaks(s.branches[i])
    [] OTHER -> FALSE

RECURSIVE AnalyzeStmt(_, _, _)

\* analyze_block: what follows a statement that returns is not looked at.
AnalyzeBlock(st, body, p) ==
  LET statement(before, i) ==
        IF before.returns THEN before ELSE AnalyzeStmt(before, body[i], Append(p, i))
  IN  PopScope(FoldLeftDomain(statement, [PushScope(st) EXCEPT !.returns = FALSE], body))

\* slip: an if without else counts as both branches
AllBranches(s) == TRUE
BothBranches(s) == Len(s.branches) = 2

\* analyze_if: only two branches that return do.
AnalyzeIf(st, s, p) ==
  LET branch(before, i) ==
        LET after == AnalyzeStmt(before, s.branches[i], Append(p, i + 1))
        IN  [after EXCEPT !.returns = before.returns /\ @]
      both == FoldLeftDomain(branch,
                [RequireInt(st, s.expr, Append(p, 1), FALSE) EXCEPT !.returns = TRUE],
                s.branches)
  IN  [both EXCEPT !.returns = @ /\ BothBranches(s)]

Endless(scopes, s) == ConstValue(scopes, s.expr) \notin {<< >>, <<0>>}

\* slip: a loop that is left by break counts as endless
NeverLeftByCondition(scopes, s) == Endless(scopes, s)
NeverLeft(scopes, s) == Endless(scopes, s) /\ ~Breaks(s.body)

\* analyze_while: only an endless loop that always returns does.  The code
\* evaluates the condition after the body, which no body that returns on every
\* path can influence.
AnalyzeWhile(st, s, p) ==
  LET head == RequireInt(st, s.expr, Append(p, 1), FALSE)
      body == AnalyzeStmt([head EXCEPT !.loops = @ + 1], s.body, Append(p, 2))
  IN  [body EXCEPT !.loops = st.loops, !.returns = @ /\ NeverLeft(st.scopes, s)]

AnalyzeReturn(st, s, p) ==
  LET fits == Check(st, HasExpr(s) = (st.func.ret = "int"))
  IN  IF HasExpr(s) THEN RequireInt(fits, s.expr, Append(p, 1), FALSE) ELSE fits

AnalyzeStmt(st, s, p) ==
  LET falls(after) == [after EXCEPT !.returns = FALSE]
  IN  CASE s.kind = "block" -> AnalyzeBlock(st, s.body, p)
        [] s.kind = "empty" -> falls(st)
        [] s.kind = "expr" -> falls(AnalyzeExpr(st, s.expr, Append(p, 1), FALSE))
        [] s.kind = "assign" -> falls(AnalyzeAssign(st, s, p))
        [] s.kind = "const" -> falls(AnalyzeConst(st, s, p))
        [] s.kind = "var" -> falls(AnalyzeVar(st, s, p))
        [] s.kind = "if" -> AnalyzeIf(st, s, p)
        [] s.kind = "while" -> AnalyzeWhile(st, s, p)
        [] s.kind \in {"break", "continue"} -> falls(Check(st, st.loops > 0))
        [] s.kind = "return" -> [AnalyzeReturn(st, s, p) EXCEPT !.returns = TRUE]

-----------------------------------------------------------------------------
(* The compilation unit. *)

\* analyze_func: its name is known in its own body.
AnalyzeFunc(st, func, p) ==
  LET named == Declare(st, func.name, Function(func))
      param(before, i) == Declare(before, func.params[i],
                                  Object("param", Append(p, i), << >>))
      opened == FoldLeftDomain(param, PushScope([named EXCEPT !.func = func, !.loops = 0]),
                               func.params)
      closed(body) == PopScope(Check(body, func.ret = "int" => body.returns))
  IN  IF Declared(st, func.name) THEN Fail(st)
      ELSE closed(AnalyzeBlock(opened, func.body, Append(p, 0)))

AnalyzeItem(st, item, p) ==
  CASE item.kind = "const" -> AnalyzeConst(st, item, p)
    [] item.kind = "var" -> AnalyzeGlobalVar(st, item, p)
    [] item.kind = "func" -> AnalyzeFunc(st, item, p)

\* check_main
HasMain(scope) ==
  /\ "main" \in DOMAIN scope
  /\ scope["main"].kind = "function"
  /\ scope["main"].func.ret = "int" /\ scope["main"].func.params = << >>

\* run
Analyze(unit) ==
  LET start == [scopes |-> << << >> >>, func |-> << >>, loops |-> 0, ok |-> TRUE,
                trapped |-> FALSE, type |-> "int", returns |-> FALSE, refs |-> << >>, calls |-> << >>,
                consts |-> << >>]
      end == FoldLeftDomain(LAMBDA st, i : AnalyzeItem(st, unit[i], <<i>>), start, unit)
  IN  Check(end, HasMain(end.scopes[1]))
=============================================================================
