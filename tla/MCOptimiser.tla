---------------------------- MODULE MCOptimiser ----------------------------
(***************************************************************************)
(* Modules as IR generation leaves them: every parameter and local in a    *)
(* slot of the entry, one terminator per block.  Words have four bits, so  *)
(* that counters overflow within a few rounds.                             *)
(***************************************************************************)
EXTENDS Optimiser

G == Global(1)
MCInputs == {-3, 0, 2, 7}
MCInitially == [x \in {G} |-> 1]

I(op, id, args) == Inst(op, V(id), args, << >>)
Alloca(id) == I("alloca", id, << >>)
Load(id, slot) == I("load", id, <<slot>>)
Store(slot, v) == Inst("store", NoValue, <<slot, v>>, << >>)
CondBr(v, b, c) == Inst("condbr", NoValue, <<v>>, <<b, c>>)
Ret(v) == Inst("ret", NoValue, <<v>>, << >>)
RetVoid == Inst("ret", NoValue, << >>, << >>)
Call(id, name, args) == Inst("call", V(id), args, <<name>>)
CallVoid(name, args) == Inst("call", NoValue, args, <<name>>)

Fn(name, arity, blocks) ==
  [name |-> name, params |-> [i \in 1 .. arity |-> Arg(i)], void |-> FALSE,
   next |-> Len(blocks), order |-> [i \in 1 .. Len(blocks) |-> i - 1],
   blocks |-> [b \in 0 .. Len(blocks) - 1 |-> blocks[b + 1]]]
Void(f) == [f EXCEPT !.void = TRUE]

X == V(1)
Y == V(2)
R == V(3)
N == V(4)
M == V(5)
Enter == <<Alloca(1), Alloca(2), Alloca(3), Alloca(4), Alloca(5),
           Store(X, Arg(1)), Store(Y, Arg(2))>>

\* x op y, of variables, globals and constants; leaves its value in V(id + 2).
Operand(id, v) == IF IsConst(v) THEN << >> ELSE <<Load(id, v)>>
OperandValue(id, v) == IF IsConst(v) THEN v ELSE V(id)
Compute(e, id) ==
  Operand(id, e[2]) \o Operand(id + 1, e[3])
  \o <<I(e[1], id + 2, <<OperandValue(id, e[2]), OperandValue(id + 1, e[3])>>)>>

\* x = e; and x = x + e; (values id to id + 4) and return e;
Assign(x, e, id) == Compute(e, id) \o <<Store(x, V(id + 2))>>
AddTo(x, e, id) ==
  Compute(e, id)
  \o <<Load(id + 3, x), I("add", id + 4, <<V(id + 3), V(id + 2)>>), Store(x, V(id + 4))>>
Return(e, id) == Compute(e, id) \o <<Ret(V(id + 2))>>
Test(e, id, b, c) == Compute(e, id) \o <<CondBr(V(id + 2), b, c)>>

-----------------------------------------------------------------------------

Expressions ==
  {<<"add", X, Y>>, <<"add", Y, X>>, <<"gt", X, Y>>, <<"lt", Y, X>>, <<"sub", X, X>>,
   <<"mul", Const(4), X>>, <<"div", X, Const(2)>>, <<"rem", X, Const(4)>>,
   <<"div", X, Const(1)>>, <<"mul", X, Const(-1)>>}

\* int r = e1; if (c) r = r + e2; else r = r + e1; return r - e2;
Branches ==
  {<<Fn("f", 2, <<
       Enter \o Assign(R, e1, 10) \o Test(c, 20, 1, 2),
       AddTo(R, e2, 30) \o <<Br(3)>>,
       AddTo(R, e1, 40) \o <<Br(3)>>,
       Compute(e2, 50) \o <<Load(60, R), I("sub", 61, <<V(60), V(52)>>), Ret(V(61))>>>>)>> :
       e1 \in Expressions, e2 \in Expressions, c \in {<<"lt", X, Y>>}}

\* int n = from; int r = 0; while (n < bound) { r = r + e; n = n + step; } return r;
Counting ==
  {<<Fn("f", 2, <<
       Enter \o <<Store(N, Const(from)), Store(R, Const(0)), Br(1)>>,
       Test(<<cmp, N, bound>>, 10, 2, 3),
       AddTo(R, e, 20) \o Assign(N, <<"add", N, Const(step)>>, 40) \o <<Br(1)>>,
       <<Load(50, R), Ret(V(50))>>>>)>> :
       from \in {-1, 0}, bound \in {Const(4), Const(7), X}, step \in {1, 3},
       cmp \in {"lt", "le"},
       e \in {<<"div", N, Const(2)>>, <<"rem", N, Const(4)>>, <<"mul", X, Const(2)>>}}

\* The counter goes up where nothing has compared it, or is divided after that:
\* while (r < 5) { if (n < 3) m = m + 1; n = n + 3; r = r + 1; m = m + n / 2; }
Unguarded ==
  {<<Fn("f", 2, <<
       Enter \o <<Store(N, Const(0)), Store(R, Const(0)), Store(M, Const(0)), Br(1)>>,
       Test(<<"lt", R, Const(5)>>, 10, 2, 5),
       Test(<<"lt", N, Const(3)>>, 20, 3, 4),
       Assign(M, <<"add", M, Const(1)>>, 30) \o <<Br(4)>>,
       (IF first THEN AddTo(M, e, 40) ELSE << >>)
         \o Assign(N, <<"add", N, Const(3)>>, 50) \o Assign(R, <<"add", R, Const(1)>>, 60)
         \o (IF first THEN << >> ELSE AddTo(M, e, 70)) \o <<Br(1)>>,
       <<Load(80, M), Ret(V(80))>>>>)>> :
       first \in BOOLEAN, e \in {<<"div", N, Const(2)>>, <<"rem", N, Const(2)>>}}

\* while (n < 4) { r = r + n / 2; if (0) r = n + x; n = n + 1; } return r;
ErasedUsers ==
  {<<Fn("f", 2, <<
       Enter \o <<Store(N, Const(0)), Store(R, Const(0)), Br(1)>>,
       Test(<<"lt", N, Const(4)>>, 10, 2, 5),
       AddTo(R, <<op, N, Const(2)>>, 20) \o <<CondBr(Const(c), 3, 4)>>,
       Assign(R, <<"add", N, X>>, 30) \o <<Br(4)>>,
       Assign(N, <<"add", N, Const(1)>>, 40) \o <<Br(1)>>,
       <<Load(50, R), Ret(V(50))>>>>)>> : op \in {"div", "mul"}, c \in {0, 1}}

\* while (n < 2) { m = 0; while (m < 2) { r = r + e; m = m + 1; } n = n + 1; r = r + x * y; }
Nested ==
  {<<Fn("f", 2, <<
       Enter \o <<Store(N, Const(0)), Store(R, Const(0)), Br(1)>>,
       Test(<<"lt", N, Const(2)>>, 10, 2, 5),
       <<Store(M, Const(0)), Br(3)>>,
       Test(<<"lt", M, Const(2)>>, 20, 4, 6),
       AddTo(R, e, 30) \o Assign(M, <<"add", M, Const(1)>>, 40) \o <<Br(3)>>,
       <<Load(50, R), Ret(V(50))>>,
       Assign(N, <<"add", N, Const(1)>>, 60) \o AddTo(R, <<"mul", X, Y>>, 70) \o <<Br(1)>>>>)>> :
       e \in {<<"mul", X, Y>>, <<"mul", N, X>>, <<"div", X, N>>, <<"add", M, N>>}}

\* Conditions that are constant: if (c) r = x; return r;  while (c) { r = e; break; }
Decided ==
  {<<Fn("f", 2, <<
       Enter \o <<Store(R, Const(1))>> \o Test(<<"lt", Const(2), Const(c)>>, 10, 1, 2),
       <<Load(20, X), Store(R, V(20)), Br(2)>>,
       <<Load(30, R), Ret(V(30))>>>>)>> : c \in {1, 3}}
  \cup
  {<<Fn("f", 2, <<
       Enter \o <<Store(R, Const(1)), Br(1)>>,
       <<CondBr(Const(c), 2, 3)>>,
       Assign(R, <<"sub", Const(-7), X>>, 20) \o <<Br(IF again THEN 1 ELSE 3)>>,
       Return(<<"div", R, Const(4)>>, 30)>>)>> : c \in {0, 1}, again \in BOOLEAN}

\* x && (c && y), as it is compiled; with c = 0 blocks disappear that read x.
ShortCircuits ==
  {<<Fn("f", 2, <<
       Enter \o Test(<<"ne", X, Const(0)>>, 10, 1, 2),
       <<CondBr(Const(c), 4, 5)>>,
       <<Store(R, Const(0)), Br(3)>>,
       <<Load(20, R), Ret(V(20))>>,
       Compute(e, 30) \o <<Store(N, V(32)), Br(6)>>,
       <<Store(N, Const(0)), Br(6)>>,
       <<Load(40, N), I("ne", 41, <<V(40), Const(0)>>), Store(R, V(41)), Br(3)>>>>)>> :
       c \in {0, 1}, e \in {<<"ne", X, Const(0)>>, <<"ne", Y, Const(0)>>}}

\* r = 1; if (r == 1) r = 1; else r = 2;  n times, return r + x;  Each test is
\* constant once the one before it has been decided: one more in every round.  The
\* function may stand before one that has nothing left to do.
Chain(name, n) ==
  LET test(i) == Test(<<"eq", R, Const(1)>>, 10 * i, 3 * i - 2, 3 * i - 1)
      set(i, k) == <<Store(R, Const(k)), Br(3 * i)>>
      link(i) == <<set(i, 1), set(i, 2), IF i < n THEN test(i + 1) ELSE Return(<<"add", R, X>>, 10 * n + 10)>>
  IN  Fn(name, 2, <<Enter \o <<Store(R, Const(1))>> \o test(1)>>
                  \o FlattenSeq([i \in 1 .. n |-> link(i)]))
Chains ==
  {<<Chain("f", 2)>>, <<Chain("f", 10)>>,
   <<Chain("h", 10), Fn("f", 2, <<Enter \o Return(<<"sub", X, Y>>, 10)>>)>>}

\* The smallest word, divided by -1 or by x, as constants.
Smallest ==
  {<<Fn("f", 2, <<
       Enter \o Assign(R, <<"sub", Const(-7), Const(1)>>, 10)
             \o Return(<<op, R, d>>, 20)>>)>> :
       op \in {"div", "rem", "mul"}, d \in {Const(-1), Const(0), Const(4), X}}

\* A function that calls itself last.
Tails ==
  {<<Fn("f", 2, <<
       Enter \o Test(<<"lt", X, Const(2)>>, 10, 1, 2),
       Return(<<"add", X, Y>>, 20),
       Compute(e1, 30) \o Compute(e2, 40) \o <<Call(50, "f", <<V(32), V(42)>>)>>
         \o (IF last THEN <<Ret(V(50))>> ELSE <<I("add", 51, <<V(50), V(32)>>), Ret(V(51))>>)>>)>> :
       e1 \in {<<"sub", X, Const(3)>>, <<"add", Y, Const(0)>>},
       e2 \in {<<"add", X, Const(0)>>, <<"add", Y, X>>}, last \in BOOLEAN}

-----------------------------------------------------------------------------

K == "k"
\* Functions of one argument: without and with branches, reading, writing and
\* leaving alone the global variable, and calling themselves.
Callees1 ==
  {Fn(K, 1, <<SubSeq(Enter, 1, 6) \o Return(<<"add", X, Const(1)>>, 10)>>),
   Fn(K, 1, <<SubSeq(Enter, 1, 6) \o Assign(G, <<"add", G, X>>, 10) \o <<Load(20, G), Ret(V(20))>>>>),
   Fn(K, 1, <<SubSeq(Enter, 1, 6) \o Test(<<"lt", X, Const(2)>>, 10, 1, 2),
              <<Ret(Const(0))>>,
              Assign(N, <<"mul", X, Const(2)>>, 20) \o <<Load(30, N), Ret(V(30))>>>>),
   Fn(K, 1, <<SubSeq(Enter, 1, 6) \o Test(<<"lt", X, Const(1)>>, 10, 1, 2),
              <<Load(20, G), Ret(V(20))>>,
              Compute(<<"sub", X, Const(1)>>, 30) \o <<Call(40, K, <<V(32)>>), Ret(V(40))>>>>)}

\* Functions with one of those to call.  Those called f have parameters; in main
\* the variables start as constants.
Opening(name) ==
  IF name = "main"
  THEN SubSeq(Enter, 1, 5) \o <<Store(X, Const(2)), Store(Y, Const(-3))>> ELSE Enter
ArityOf(name) == IF name = "main" THEN 0 ELSE 2

Callers(name) ==
  {Fn(name, ArityOf(name), <<
     Opening(name) \o Assign(G, <<"add", G, X>>, 10)
       \o <<Load(20, Y), Call(21, K, <<V(20)>>), Store(R, V(21))>> \o Return(<<"sub", R, G>>, 30)>>),
   Fn(name, ArityOf(name), <<
     Opening(name) \o <<Store(N, Const(0)), Store(R, Const(0)), Br(1)>>,
     Test(<<"lt", N, Const(2)>>, 10, 2, 3),
     <<Load(20, N), Call(21, K, <<V(20)>>), Store(M, V(21))>>
       \o AddTo(R, <<"add", M, G>>, 30) \o Assign(G, <<"add", G, R>>, 40)
       \o Assign(N, <<"add", N, Const(1)>>, 50) \o <<Br(1)>>,
     <<Load(60, R), Ret(V(60))>>>>),
   Fn(name, ArityOf(name), <<
     Opening(name) \o Test(<<"lt", X, G>>, 10, 1, 2),
     <<Load(20, X), Store(G, V(20)), Call(21, K, <<Const(2)>>), Ret(V(21))>>,
     <<Load(30, Y), Call(31, K, <<V(30)>>), Store(R, V(31))>> \o Return(<<"sub", R, G>>, 40)>>)}

Calling == {<<k, f>> : k \in Callees1, f \in Callers("f") \cup Callers("main")}

\* The global variable is touched by what the callee calls in turn.
Transitive ==
  {<<j, Fn("h", 1, <<SubSeq(Enter, 1, 6) \o <<Load(10, X), Call(11, K, <<V(10)>>)>>
                        \o <<I("mul", 12, <<V(11), Const(2)>>), Ret(V(12))>>>>),
     Fn("f", 2, <<Enter \o Assign(G, <<"add", G, X>>, 10)
                    \o <<Load(20, Y), Call(21, "h", <<V(20)>>), Store(R, V(21))>>
                    \o Return(<<"sub", R, G>>, 30)>>)>> : j \in Callees1}

\* Functions that call a void one are left to limited_inline; once the call is
\* gone they are straight-line themselves, as far as the budget goes.
Ignored == Void(Fn("v", 1, <<SubSeq(Enter, 1, 6) \o Compute(<<"add", X, Const(1)>>, 10) \o <<RetVoid>>>>))
Long ==
  [i \in 1 .. 9 |-> I(IF i % 2 = 0 THEN "sub" ELSE "add", 20 + i,
                      <<V(IF i = 1 THEN 10 ELSE 19 + i), V(11)>>)] \o <<Ret(V(29))>>
Middle(body) ==
  Fn("h", 2, <<Enter \o <<CallVoid("v", <<Const(2)>>), Load(10, Y), Load(11, X)>> \o body>>)
Straights ==
  {<<Ignored, Middle(body),
     Fn("f", 2, <<Enter \o <<Load(10, X), Load(11, Y), CallVoid("v", <<V(10)>>)>>
       \o [i \in 1 .. calls |-> Call(20 + i, "h", <<V(10), V(IF i = 1 THEN 11 ELSE 19 + i)>>)]
       \o <<Ret(V(20 + calls))>>>>)>> :
       body \in {Long, <<I("sub", 12, <<V(10), V(11)>>), Ret(V(12))>>}, calls \in {1, 4}}

\* if (x < y) { g = x; return; } g = g * y;  with or without a return at the end,
\* called by a function that reads the global variable before and after.
Storing ==
  {<<Void(Fn("v", 1, <<
       SubSeq(Enter, 1, 6) \o Test(<<"lt", X, Const(2)>>, 10, 1, 2),
       <<Load(20, X), Store(G, V(20)), RetVoid>>,
       Assign(G, <<"mul", G, X>>, 30) \o (IF open THEN << >> ELSE <<RetVoid>>)>>)),
     Fn("f", 2, <<Enter \o Assign(G, <<"add", G, Y>>, 10)
       \o <<Load(20, X), CallVoid("v", <<V(20)>>)>> \o Return(<<"sub", G, Y>>, 30)>>)>> :
       open \in BOOLEAN}
  \cup
  {<<Void(Fn("f", 2, <<
       Enter \o Assign(G, <<"add", G, X>>, 10) \o Test(<<"lt", G, Y>>, 20, 1, 2),
       <<RetVoid>>,
       Assign(G, <<"mul", G, X>>, 30) \o (IF open THEN << >> ELSE <<RetVoid>>)>>))>> :
       open \in BOOLEAN}

\* if (x < y) { g = y; return; } while (c) g = g + x;  The block behind the loop
\* is empty and, unless c is 0, never reached.
Endless ==
  {<<Void(Fn("f", 2, <<
       Enter \o Test(<<"lt", X, Y>>, 10, 1, 2),
       <<Load(20, Y), Store(G, V(20)), RetVoid>>,
       <<CondBr(Const(c), 3, 4)>>,
       Assign(G, <<"add", G, X>>, 30) \o <<Br(2)>>,
       << >>>>))>> : c \in {0, 1}}

MCModules ==
  Branches \cup Counting \cup Unguarded \cup ErasedUsers \cup Nested \cup Decided
  \cup ShortCircuits \cup Smallest \cup Tails \cup Calling \cup Transitive \cup Straights \cup Storing
  \cup Endless \cup Chains
=============================================================================
