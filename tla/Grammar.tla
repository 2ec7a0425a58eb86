------------------------------- MODULE Grammar -------------------------------
(***************************************************************************)
(* How trees are written in ToyC: the grammar, read from the tree to the   *)
(* tokens.  Parentheses stand only where the tree cannot be written        *)
(* without them, so a tree has one writing, and no two have the same.      *)
(***************************************************************************)
EXTENDS Ast

\* How tightly an expression holds together.
Strength(e) ==
  CASE e.kind = "unary" -> 6
    [] e.kind = "binary" ->
         (CASE e.op \in {"mul", "div", "mod"} -> 5
            [] e.op \in {"add", "sub"} -> 4
            [] e.op \in {"lt", "le", "gt", "ge", "eq", "ne"} -> 3
            [] e.op = "and" -> 2
            [] e.op = "or" -> 1)
    [] OTHER -> 7

Sign(op) ==
  CASE op = "plus" -> "+" [] op = "minus" -> "-" [] op = "not" -> "!"
    [] op = "or" -> "||" [] op = "and" -> "&&"
    [] op = "lt" -> "<" [] op = "le" -> "<=" [] op = "gt" -> ">" [] op = "ge" -> ">="
    [] op = "eq" -> "==" [] op = "ne" -> "!="
    [] op = "add" -> "+" [] op = "sub" -> "-"
    [] op = "mul" -> "*" [] op = "div" -> "/" [] op = "mod" -> "%"

Mark(kind) == << <<kind>> >>
Name(x) == << <<"ident", x>> >>

\* Several things, separated by commas.
Commas(parts) == FlattenSeq([i \in DOMAIN parts |-> (IF i = 1 THEN << >> ELSE Mark(",")) \o parts[i]])

\* An expression where only those of some strength may stand; operators of one
\* strength group to the left.
RECURSIVE WrittenExpr(_, _)
WrittenExpr(e, strength) ==
  LET plain ==
        CASE e.kind = "int" -> << <<"number", e.value>> >>
          [] e.kind = "ident" -> Name(e.name)
          [] e.kind = "unary" -> Mark(Sign(e.op)) \o WrittenExpr(e.operand, 6)
          [] e.kind = "binary" ->
               WrittenExpr(e.lhs, Strength(e)) \o Mark(Sign(e.op)) \o WrittenExpr(e.rhs, Strength(e) + 1)
          [] e.kind = "call" ->
               Name(e.callee) \o Mark("(")
                 \o Commas([i \in DOMAIN e.args |-> WrittenExpr(e.args[i], 1)]) \o Mark(")")
  IN  IF Strength(e) < strength THEN Mark("(") \o plain \o Mark(")") ELSE plain

Value(s) == WrittenExpr(s.expr, 1)
Condition(s) == Mark("(") \o Value(s) \o Mark(")")
Defined(x) == Mark("int") \o Name(x)
Initialised(s) == Defined(s.name) \o Mark("=") \o Value(s) \o Mark(";")

RECURSIVE WrittenStmt(_)
WrittenBlock(body) ==
  Mark("{") \o FlattenSeq([i \in DOMAIN body |-> WrittenStmt(body[i])]) \o Mark("}")
WrittenStmt(s) ==
  CASE s.kind = "block" -> WrittenBlock(s.body)
    [] s.kind = "empty" -> Mark(";")
    [] s.kind = "expr" -> Value(s) \o Mark(";")
    [] s.kind = "assign" -> Name(s.name) \o Mark("=") \o Value(s) \o Mark(";")
    [] s.kind = "const" -> Mark("const") \o Initialised(s)
    [] s.kind = "var" -> Initialised(s)
    [] s.kind = "if" ->
         Mark("if") \o Condition(s) \o WrittenStmt(s.branches[1])
           \o (IF Len(s.branches) = 1 THEN << >> ELSE Mark("else") \o WrittenStmt(s.branches[2]))
    [] s.kind = "while" -> Mark("while") \o Condition(s) \o WrittenStmt(s.body)
    [] s.kind \in {"break", "continue"} -> Mark(s.kind) \o Mark(";")
    [] s.kind = "return" ->
         Mark("return") \o (IF HasExpr(s) THEN Value(s) ELSE << >>) \o Mark(";")

WrittenItem(item) ==
  CASE item.kind = "const" -> Mark("const") \o Initialised(item)
    [] item.kind = "var" -> Initialised(item)
    [] item.kind = "func" ->
         Mark(item.ret) \o Name(item.name) \o Mark("(")
           \o Commas([i \in DOMAIN item.params |-> Defined(item.params[i])]) \o Mark(")")
           \o WrittenBlock(item.body)

Written(unit) == FlattenSeq([i \in DOMAIN unit |-> WrittenItem(unit[i])])

\* Tokens as symbols of a text.  A minus is written close to what comes after it
\* where it stands between operands, and apart from it otherwise, so that it is
\* not taken for the sign of a number.
Spelled(tokens) ==
  LET follows(i) == i > 1 /\ tokens[i - 1][1] \in {"ident", "number", ")"}
      symbols(i) ==
        IF tokens[i][1] = "number"
        THEN IF tokens[i][2] < 0 THEN << <<"-">>, <<"digits", -tokens[i][2]>> >>
             ELSE << <<"digits", tokens[i][2]>> >>
        ELSE IF tokens[i] = <<"-">> /\ ~follows(i) THEN << <<"-">>, <<"blank">> >>
        ELSE <<tokens[i]>>
  IN  FlattenSeq([i \in DOMAIN tokens |-> symbols(i)])
=============================================================================
