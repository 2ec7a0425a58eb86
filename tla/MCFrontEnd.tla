----------------------------- MODULE MCFrontEnd -----------------------------
(***************************************************************************)
(* Families of ToyC functions, each behind the same global declarations:   *)
(*                                                                         *)
(*   const int K = 2;  int G = 1;  int f(int a) { return a; }              *)
(*   void v() { }  int main() { return 0; }                                *)
(*                                                                         *)
(* Words have three bits, numbers -4 to 3.                                 *)
(*                                                                         *)
(* NearMisses are units that semantic analysis has to refuse, or nearly so.*)
(* DeadCode is for the run that shows what happens to code behind a return.*)
(***************************************************************************)
EXTENDS FrontEnd

MCLiterals == {Constant(n) : n \in Word}

X == Ident("x")
Two == IntLiteral(2)
One == IntLiteral(1)
Zero == IntLiteral(0)
F(e) == CallOf("f", <<e>>)
CallV == ExprStmt(CallOf("v", << >>))

Prelude ==
  <<ConstDecl("K", Two), VarDecl("G", One),
    FuncDef("int", "f", <<"a">>, <<ReturnValue(Ident("a"))>>),
    FuncDef("void", "v", << >>, << >>),
    FuncDef("int", "main", << >>, <<ReturnValue(Zero)>>)>>

IntFunc(body) == Append(Prelude, FuncDef("int", "t", <<"x">>, body))
VoidFunc(body) == Append(Prelude, FuncDef("void", "t", <<"x">>, body))

\* while (c) { if (x) ..; .. }, the ways to leave the body, a branch of it, and
\* what may follow the loop.
Exits == {Break, Continue, ReturnValue(X)}
Work == Exits \cup {Assign("x", F(X)), Block(<<VarDecl("x", Ident("G")), Assign("x", X)>>)}
Tests == {If(X, s) : s \in Work} \cup {IfElse(X, s1, s2) : s1 \in Work, s2 \in Exits}
Loops ==
  {IntFunc(<<While(c, Block(<<s1, s2>>))>> \o after) :
     c \in {X, One}, s1 \in Tests, s2 \in Work,
     after \in {<<ReturnValue(X)>>, << >>}}
  \cup {IntFunc(<<While(One, Block(<<While(X, s1), s2>>)), ReturnValue(X)>>) :
     s1 \in Work, s2 \in Work}

\* Statements behind a loop whose body returns, which is endless or not by its
\* condition and its break, in the outermost block and in a block further inside.
Followers == {Assign("x", One), VarDecl("c", X), Break, ReturnValue(X), ReturnValue(One), CallV, Empty}
Returned ==
  {<<d, While(c, s1), s2>> :
     d \in {Empty, ConstDecl("K", Zero), VarDecl("K", One)},
     c \in {X, Zero, Ident("K"), Binary("sub", Two, Ident("K"))},
     s1 \in {ReturnValue(X), IfElse(X, ReturnValue(X), Break)}, s2 \in Followers}
AfterLoops ==
  {IntFunc(Append(body, ReturnValue(X))) : body \in Returned}
  \cup {IntFunc(<<s>> \o after) :
     s \in UNION {{Block(body), If(X, Block(body)), While(One, Block(body))} : body \in Returned},
     after \in {<< >>, <<ReturnValue(X)>>}}

\* Declarations of the same names at three levels.
Decls ==
  {Empty} \cup {ConstDecl(n, Unary("minus", Ident("K"))) : n \in {"K", "G", "x", "f"}}
          \cup {VarDecl(n, e) : n \in {"K", "G", "x", "f"}, e \in {X, Unary("plus", Ident("K"))}}
Scopes ==
  {IntFunc(<<outer, Block(<<inner, Assign(n, F(Ident(n)))>>), ReturnValue(F(Ident(n)))>>) :
     outer \in Decls, inner \in Decls, n \in {"K", "G", "x"}}

\* Logical operators and divisions, evaluated by the compiler and at run time.
Leaves == {Zero, Unary("minus", Ident("K")), Unary("not", Ident("G"))}
Over2(ls, rs) == {Binary(op, l, r) : op \in {"and", "or", "div"}, l \in ls, r \in rs}
Flat == Over2(Leaves, Leaves)
Trees == Flat \cup Over2(Flat, Leaves) \cup Over2(Leaves, Flat)
Expressions ==
  {IntFunc(<<ReturnValue(e)>>) : e \in Trees}
  \cup {IntFunc(<<ConstDecl("C", e), ReturnValue(Ident("C"))>>) : e \in Trees}

NearMisses ==
  {VoidFunc(<<IfElse(X, s1, s2), CallV>>) :
     s1 \in {Return, CallV, Break, ReturnValue(X), Assign("x", CallOf("v", << >>))},
     s2 \in {Return, Assign("K", X), ExprStmt(CallOf("x", << >>)), ExprStmt(CallOf("f", << >>)),
             Assign("x", Ident("f")), ConstDecl("c", X), ExprStmt(F(F(X)))}}
  \cup {<<VarDecl("G", e), FuncDef("int", f, params, <<ReturnValue(Ident("G"))>>)>> :
     e \in {One, CallOf("f", <<One>>)}, f \in {"main", "t", "G"}, params \in {<< >>, <<"x">>}}

\* All operators at the ends of the range: evaluated by the compiler, at run time,
\* and where a logical operator keeps the compiler from evaluating them.
Smallest == IntLiteral(-Half)
Ends == {Smallest, IntLiteral(Half - 1), IntLiteral(-1), Zero, Ident("K")}
Plain(ls, rs) == {Binary(op, l, r) : op \in BinaryOps \ Logical, l \in ls, r \in rs}
Arithmetic ==
  {IntFunc(<<ConstDecl("C", e), ReturnValue(Ident("C"))>>) : e \in Plain(Ends, Ends)}
  \cup {IntFunc(<<ReturnValue(e)>>) : e \in Plain({X}, Ends) \cup Plain(Ends, {X})}
  \cup {IntFunc(<<ReturnValue(Binary(op, l, Binary("div", Smallest, IntLiteral(-1))))>>) :
          op \in {"and", "or", "add"}, l \in {Zero, One, X}}

\* Two operators and a sign, grouped in every way, behind return and as a
\* statement that begins with a name.
Named == {X, F(X)}
Pairs ==
  {Binary(op1, Binary(op2, e, One), IntLiteral(-1)) : op1 \in BinaryOps, op2 \in BinaryOps, e \in Named}
  \cup {Binary(op1, X, Binary(op2, Ident("G"), One)) : op1 \in BinaryOps, op2 \in BinaryOps}
Signed ==
  {Unary(op1, Binary(op2, X, Unary("minus", One))) : op1 \in {"minus", "not"}, op2 \in BinaryOps}
  \cup {Binary(op, Unary("not", X), Unary("minus", IntLiteral(-1))) : op \in BinaryOps}
Groupings ==
  {IntFunc(<<ReturnValue(e)>>) : e \in Pairs \cup Signed}
  \cup {VoidFunc(<<ExprStmt(e)>>) : e \in Pairs \cup Signed}

\* An else belongs to the last if that has none.
Branchings ==
  {VoidFunc(<<s, CallV>>) :
     s \in {If(X, IfElse(Ident("G"), CallV, Return)),
            IfElse(X, IfElse(Ident("G"), CallV, Return), CallV),
            IfElse(X, Block(<<If(Ident("G"), CallV)>>), IfElse(X, Empty, Return)),
            While(X, If(Ident("G"), IfElse(X, Break, Continue)))}}

\* Texts with a slip: a token is missing, doubled, or changes places with the
\* next; a character that is none of the language's; numbers of the greatest
\* size and one more.
Sample ==
  Written(<<ConstDecl("K", IntLiteral(-1)), VarDecl("G", Binary("sub", One, Ident("K"))),
            FuncDef("void", "v", <<"a", "b">>, <<If(X, Return)>>),
            FuncDef("int", "main", << >>,
              <<VarDecl("x", Binary("sub", Zero, One)),
                IfElse(Binary("lt", X, Two), Assign("x", Binary("sub", X, Unary("minus", One))),
                       ExprStmt(CallOf("v", <<X, IntLiteral(-2)>>))),
                While(Unary("not", X), Block(<<Empty, If(X, Break), Continue>>)),
                ExprStmt(Binary("mul", X, Binary("add", F(X), One))),
                ConstDecl("c", One),
                ReturnValue(X)>>)>>)
Slips ==
  {Spelled(SubSeq(Sample, 1, i - 1) \o middle \o SubSeq(Sample, i + 2, Len(Sample))) :
     <<i, middle>> \in UNION {{i} \X {<<Sample[i]>>, <<Sample[i + 1]>>, <<Sample[i + 1], Sample[i]>>,
                                     <<Sample[i], Sample[i], Sample[i + 1]>>,
                                     <<Sample[i], <<"invalid">>, Sample[i + 1]>>} :
                              i \in 1 .. Len(Sample) - 1}}
Returning(symbols) ==
  Spelled(SubSeq(Sample, 1, Len(Sample) - 3)) \o symbols \o Spelled(SubSeq(Sample, Len(Sample) - 1, Len(Sample)))
Numerals ==
  {Returning(before \o << <<"digits", n>> >>) : n \in {Half - 1, Half},
     before \in {<< >>, << <<"-">> >>, << <<"-">>, <<"blank">> >>, << <<"ident", "x">>, <<"-">> >>}}
MCOthers == Slips \cup Numerals

\* Statements behind a return in the outermost block.
DeadCode ==
  {<<FuncDef("int", "main", << >>, <<VarDecl("x", One), ReturnValue(X), s>>)>> :
     s \in {Assign("x", Two), Break, ReturnValue(X), ReturnValue(One), Empty}}

MCUnits ==
  Loops \cup AfterLoops \cup Scopes \cup Expressions \cup Arithmetic \cup Groupings \cup Branchings \cup NearMisses
=============================================================================
