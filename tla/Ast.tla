-------------------------------- MODULE Ast --------------------------------
(***************************************************************************)
(* The syntax trees the parser hands to semantic analysis and IR           *)
(* generation (src/include/toyc/ast.h), as records with a kind.  A node is *)
(* known by its path from the root, as the code knows it by its address:   *)
(* child i of the node at p is at p \o <<i>>.                              *)
(***************************************************************************)
EXTENDS Words, SequencesExt

IntLiteral(n) == [kind |-> "int", value |-> n]
Ident(x) == [kind |-> "ident", name |-> x]
Unary(op, e) == [kind |-> "unary", op |-> op, operand |-> e]
Binary(op, l, r) == [kind |-> "binary", op |-> op, lhs |-> l, rhs |-> r]
CallOf(f, args) == [kind |-> "call", callee |-> f, args |-> args]

Block(body) == [kind |-> "block", body |-> body]
Empty == [kind |-> "empty"]
ExprStmt(e) == [kind |-> "expr", expr |-> e]
Assign(x, e) == [kind |-> "assign", name |-> x, expr |-> e]
ConstDecl(x, e) == [kind |-> "const", name |-> x, expr |-> e]
VarDecl(x, e) == [kind |-> "var", name |-> x, expr |-> e]
If(e, s) == [kind |-> "if", expr |-> e, branches |-> <<s>>]
IfElse(e, s1, s2) == [kind |-> "if", expr |-> e, branches |-> <<s1, s2>>]
While(e, s) == [kind |-> "while", expr |-> e, body |-> s]
Break == [kind |-> "break"]
Continue == [kind |-> "continue"]
Return == [kind |-> "return"]
ReturnValue(e) == [kind |-> "return", expr |-> e]

HasExpr(s) == "expr" \in DOMAIN s

\* Items of the compilation unit: global declarations are ConstDecl and VarDecl.
FuncDef(ret, f, params, body) ==
  [kind |-> "func", ret |-> ret, name |-> f, params |-> params, body |-> body]

\* The binary operators: those that evaluate the right operand only if the left
\* one leaves the result open, those that refuse a divisor, and the others.
Logical == {"and", "or"}
Dividing == {"div", "mod"}
BinaryOps == Logical \cup Dividing
               \cup {"add", "sub", "mul", "lt", "le", "gt", "ge", "eq", "ne"}

\* What operators compute, in words of the target.
UnaryValue(op, n) ==
  CASE op = "plus" -> n [] op = "minus" -> Wrap(-n) [] op = "not" -> Truth(n = 0)
BinaryValue(op, a, b) == IF op = "mod" THEN Remainder(a, b) ELSE Evaluate(op, a, b)
=============================================================================
