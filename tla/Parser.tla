------------------------------- MODULE Parser -------------------------------
(***************************************************************************)
(* Lexer and Parser (src/src/frontend/lexer.cpp, parser.cpp): recursive    *)
(* descent with one token of lookahead, as operators from one state of the *)
(* parser to the next.                                                     *)
(*                                                                         *)
(*   rest   the tokens from current_ on; the last one comes again and again *)
(*   ok     ~had_error_                                                    *)
(*   fits   every number has been one of the host                          *)
(*   tree   what the last function has returned                            *)
(*                                                                         *)
(* A text is a sequence of symbols <<kind>>, <<"ident", name>> and         *)
(* <<"digits", n>>, the longest words that the characters form, with       *)
(* <<"blank">> for white space and comments.  Tokens are the same, with    *)
(* <<"number", n>> in place of digits, and end in <<"eof">> or             *)
(* <<"invalid">>.                                                          *)
(***************************************************************************)
EXTENDS Ast

-----------------------------------------------------------------------------
(* Lexer. *)

\* is_operand_suffix
EndsOperand(symbol) == symbol[1] \in {"ident", "digits", ")"}

\* A minus just before digits belongs to the number, unless it comes after an
\* operand.
IsSign(text, i) ==
  LET visible == {j \in 1 .. i - 1 : text[j] # <<"blank">>}
  IN  /\ text[i] = <<"-">> /\ i < Len(text) /\ text[i + 1][1] = "digits"
      /\ visible # {} => ~EndsOperand(text[Max(visible)])

\* next_token
Scan(text, i) ==
  IF text[i] = <<"blank">> \/ IsSign(text, i) THEN << >>
  ELSE IF text[i][1] # "digits" THEN <<text[i]>>
  ELSE << <<"number", IF i > 1 /\ IsSign(text, i - 1) THEN -text[i][2] ELSE text[i][2]>> >>

\* Nothing is read behind a character the lexer does not know.
Tokens(text) ==
  LET scanned == FlattenSeq([i \in DOMAIN text |-> Scan(text, i)])
      unknown == {i \in DOMAIN scanned : scanned[i] = <<"invalid">>}
  IN  IF unknown = {} THEN Append(scanned, <<"eof">>) ELSE SubSeq(scanned, 1, Min(unknown))

-----------------------------------------------------------------------------
(* The tokens ahead. *)

See(s, kinds) == s.rest[1][1] \in kinds
Lexeme(s) == Last(s.rest[1])

Advance(s) == IF Len(s.rest) = 1 THEN s ELSE [s EXCEPT !.rest = Tail(@)]
Error(s) == [s EXCEPT !.ok = FALSE]
Expect(s, kind) == IF See(s, {kind}) THEN Advance(s) ELSE Error(s)

Yield(s, tree) == [s EXCEPT !.tree = tree]

-----------------------------------------------------------------------------
(* Expressions. *)

\* Binary operators, those that bind most last.
Levels ==
  <<"||" :> "or", "&&" :> "and",
    "<" :> "lt" @@ "<=" :> "le" @@ ">" :> "gt" @@ ">=" :> "ge" @@ "==" :> "eq" @@ "!=" :> "ne",
    "+" :> "add" @@ "-" :> "sub", "*" :> "mul" @@ "/" :> "div" @@ "%" :> "mod">>
UnaryOps == "+" :> "plus" @@ "-" :> "minus" @@ "!" :> "not"

RECURSIVE ParseLevel(_, _), ParseUnary(_)

\* parse_lor_expr_from_left to parse_mul_expr_from_left: the left operand has
\* been read.
RECURSIVE FromLeft(_, _)
FromLeft(s, k) ==
  LET joined(right) ==
        Yield(right, Binary(Levels[k][s.rest[1][1]], s.tree, right.tree))
  IN  IF ~See(s, DOMAIN Levels[k]) THEN s
      ELSE FromLeft(joined(ParseLevel(Advance(s), k + 1)), k)

\* parse_lor_expr to parse_mul_expr
ParseLevel(s, k) ==
  IF k > Len(Levels) THEN ParseUnary(s) ELSE FromLeft(ParseLevel(s, k + 1), k)

ParseExpr(s) == ParseLevel(s, 1)

RECURSIVE ParseArgs(_, _)
ParseArgs(s, args) ==
  LET next(e) == IF See(e, {","}) THEN ParseArgs(Advance(e), Append(args, e.tree))
                 ELSE Yield(e, Append(args, e.tree))
  IN  next(ParseExpr(s))

\* parse_call_args, behind the name
ParseCall(s, f) ==
  LET call(args) == Yield(Expect(args, ")"), CallOf(f, args.tree))
      opened == Advance(s)
  IN  call(IF See(opened, {")"}) THEN Yield(opened, << >>) ELSE ParseArgs(opened, << >>))

ParseNamed(s) ==
  LET behind == Advance(s)
  IN  IF See(behind, {"("}) THEN ParseCall(behind, Lexeme(s)) ELSE Yield(behind, Ident(Lexeme(s)))

\* parse_number_literal throws where the number does not fit.
ParseNumber(s) ==
  [Yield(Advance(s), IntLiteral(Lexeme(s))) EXCEPT !.fits = @ /\ Lexeme(s) \in Word]

ParsePrimary(s) ==
  CASE See(s, {"number"}) -> ParseNumber(s)
    [] See(s, {"("}) -> Expect(ParseExpr(Advance(s)), ")")
    [] See(s, {"ident"}) -> ParseNamed(s)
    [] OTHER -> Yield(Error(s), IntLiteral(0))

ParseUnary(s) ==
  LET apply(operand) == Yield(operand, Unary(UnaryOps[s.rest[1][1]], operand.tree))
  IN  IF See(s, DOMAIN UnaryOps) THEN apply(ParseUnary(Advance(s))) ELSE ParsePrimary(s)

-----------------------------------------------------------------------------
(* Declarations and statements. *)

\* The value behind "=", and the semicolon.
ParseValue(s) == Expect(ParseExpr(Expect(s, "=")), ";")

\* parse_global_const_decl and parse_decl_stmt
ParseConst(s) ==
  LET name == Expect(Expect(s, "const"), "int")
      decl(value) == Yield(value, ConstDecl(Lexeme(name), value.tree))
  IN  decl(ParseValue(Expect(name, "ident")))

\* parse_var_decl_stmt, behind the name
ParseVar(s, x) ==
  LET decl(value) == Yield(value, VarDecl(x, value.tree)) IN decl(ParseValue(s))

RECURSIVE ParseStmt(_)

RECURSIVE ParseBody(_, _)
ParseBody(s, body) ==
  LET more(stmt) == ParseBody(stmt, Append(body, stmt.tree))
  IN  IF See(s, {"}", "eof", "invalid"}) \/ ~s.ok THEN Yield(s, Block(body))
      ELSE more(ParseStmt(s))
ParseBlock(s) == Expect(ParseBody(Expect(s, "{"), << >>), "}")

ParseCondition(s) == Expect(ParseExpr(Expect(s, "(")), ")")

\* An else belongs to the last if.
ParseIf(s) ==
  LET both(e, then, else) == Yield(else, IfElse(e, then, else.tree))
      rest(e, then) == IF See(then, {"else"}) THEN both(e, then.tree, ParseStmt(Advance(then)))
                       ELSE Yield(then, If(e, then.tree))
      branches(head) == rest(head.tree, ParseStmt(head))
  IN  branches(ParseCondition(s))

ParseWhile(s) ==
  LET loop(e, body) == Yield(body, While(e, body.tree))
      rest(head) == loop(head.tree, ParseStmt(head))
  IN  rest(ParseCondition(s))

ParseReturn(s) ==
  LET value(e) == Yield(Expect(e, ";"), ReturnValue(e.tree))
  IN  IF See(s, {";"}) THEN Yield(Advance(s), Return) ELSE value(ParseExpr(s))

ParseAssign(s, x) ==
  LET assign(e) == Yield(Expect(e, ";"), Assign(x, e.tree)) IN assign(ParseExpr(s))

Semicolon(e) == Yield(Expect(e, ";"), ExprStmt(e.tree))

\* slip: a sum may not follow a product
FromNameAtOnce(s) ==
  FoldLeft(LAMBDA left, k : FromLeft(left, k), ParseNamed(s), <<5, 3, 2, 1>>)

\* A statement may begin with a name that is not assigned to: the expression is
\* then read from its first operand on, level by level.
FromName(s) == FoldLeft(LAMBDA left, k : FromLeft(left, k), ParseNamed(s), <<5, 4, 3, 2, 1>>)

ParseStmt(s) ==
  LET behind == Advance(s)
  IN  CASE See(s, {"{"}) -> ParseBlock(s)
        [] See(s, {";"}) -> Yield(behind, Empty)
        [] See(s, {"const"}) -> ParseConst(s)
        [] See(s, {"int"}) -> ParseVar(Expect(behind, "ident"), Lexeme(behind))
        [] See(s, {"if"}) -> ParseIf(behind)
        [] See(s, {"while"}) -> ParseWhile(behind)
        [] See(s, {"break"}) -> Yield(Expect(behind, ";"), Break)
        [] See(s, {"continue"}) -> Yield(Expect(behind, ";"), Continue)
        [] See(s, {"return"}) -> ParseReturn(behind)
        [] See(s, {"ident"}) /\ See(behind, {"="}) -> ParseAssign(Advance(behind), Lexeme(s))
        [] See(s, {"ident"}) -> Semicolon(FromName(s))
        [] OTHER -> Semicolon(ParseExpr(s))

-----------------------------------------------------------------------------
(* The compilation unit. *)

RECURSIVE ParseParams(_, _)
ParseParams(s, params) ==
  LET name == Expect(s, "int")
      behind == Expect(name, "ident")
      all == Append(params, Lexeme(name))
  IN  IF See(behind, {","}) THEN ParseParams(Advance(behind), all) ELSE Yield(behind, all)

\* parse_func_def, behind the name
ParseFunc(s, ret, f) ==
  LET opened == Expect(s, "(")
      define(params, body) == Yield(body, FuncDef(ret, f, params, body.tree.body))
      rest(params) == define(params.tree, ParseBlock(Expect(params, ")")))
  IN  rest(IF See(opened, {")"}) THEN Yield(opened, << >>) ELSE ParseParams(opened, << >>))

\* parse_top_level_item
ParseItem(s) ==
  LET name == Advance(s)
      behind == Expect(name, "ident")
  IN  CASE See(s, {"const"}) -> ParseConst(s)
        [] See(s, {"int"}) /\ See(behind, {"="}) -> ParseVar(behind, Lexeme(name))
        [] See(s, {"int"}) /\ See(behind, {"("}) -> ParseFunc(behind, "int", Lexeme(name))
        [] See(s, {"void"}) -> ParseFunc(behind, "void", Lexeme(name))
        [] OTHER -> Error(s)

\* parse_comp_unit_impl.  One error ends the loop.
RECURSIVE ParseItems(_, _)
ParseItems(s, unit) ==
  LET more(item) == ParseItems(item, Append(unit, item.tree))
  IN  IF See(s, {"eof", "invalid"}) \/ ~s.ok THEN Yield(s, unit) ELSE more(ParseItem(s))

Parse(text) ==
  Expect(ParseItems([rest |-> Tokens(text), ok |-> TRUE, fits |-> TRUE, tree |-> << >>], << >>),
         "eof")
=============================================================================
