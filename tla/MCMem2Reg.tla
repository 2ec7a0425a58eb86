----------------------------- MODULE MCMem2Reg -----------------------------
(***************************************************************************)
(* Functions over two local variables x and y, of the shapes of IRGen: a   *)
(* branch, loops with break and continue, nested loops, a short circuit.   *)
(* Each marked block does nothing, or one of a few things with x and y, so *)
(* that between them the functions have every placement of stores and      *)
(* loads around joins and back edges.  Every value is a tuple.             *)
(***************************************************************************)
EXTENDS Mem2Reg

MCZero == <<"const", 0>>
MCLiterals == {MCZero, <<"const", 1>>}

P == <<"param", 1>>
X == <<"var", 1>>
Y == <<"var", 2>>
Val(b, i) == <<"val", b, i>>

Inst(op, res, args, to) == [op |-> op, res |-> res, args |-> args, to |-> to]
Load(res, x) == Inst("load", res, <<x>>, << >>)
Set(x, v) == Inst("set", NoValue, <<x, v>>, << >>)
Br(b) == Inst("br", NoValue, << >>, <<b>>)
CondBr(c, b1, b2) == Inst("condbr", NoValue, <<c>>, <<b1, b2>>)
Ret(v) == Inst("ret", NoValue, <<v>>, << >>)

\* What a marked block may do: nothing; x = y + x, y = old x; x = p; y = f();
\* read y and store it in x.
Work(b) ==
  { << >>,
    <<Load(Val(b, 1), X), Load(Val(b, 2), Y),
      Inst("arith", Val(b, 3), <<Val(b, 2), Val(b, 1)>>, << >>),
      Set(X, Val(b, 3)), Set(Y, Val(b, 1))>>,
    <<Set(X, P)>>,
    <<Load(Val(b, 1), Y), Set(X, Val(b, 1))>> }

\* x starts as the parameter; y is declared further down, or never set.
Declare == <<Inst("alloca", X, << >>, << >>), Inst("alloca", Y, << >>, << >>), Set(X, P)>>
Test(b, c1, c2) == <<Load(Val(b, 9), X), CondBr(Val(b, 9), c1, c2)>>
End(b) == <<Load(Val(b, 8), Y), Inst("store", NoValue, <<Val(b, 8)>>, << >>),
            Load(Val(b, 9), X), Ret(Val(b, 9))>>

Fun(blocks) == [params |-> <<P>>, blocks |-> blocks, void |-> FALSE, opt |-> TRUE]

Branches ==
  {Fun(<<Declare \o Test(1, 2, 3), u \o <<Br(4)>>, v \o <<Br(4)>>, w \o End(4)>>) :
     u \in Work(2), v \in Work(3), w \in Work(4)}

OneLoop ==
  {Fun(<<Declare \o <<Br(2)>>, u \o Test(2, 3, 4), v \o <<Br(2)>>, w \o End(4)>>) :
     u \in Work(2), v \in Work(3), w \in Work(4)}

\* if (x) break; in the body; or if (x) continue;
LoopWithExit ==
  {Fun(<<Declare \o <<Br(2)>>, Test(2, 3, 4), u \o Test(3, 5, 6), End(4),
         v \o <<Br(target)>>, w \o <<Br(2)>>>>) :
     u \in Work(3), v \in Work(5), w \in Work(6), target \in {2, 4}}

NestedLoops ==
  {Fun(<<Declare \o <<Br(2)>>, Test(2, 3, 4), u \o <<Br(5)>>, End(4), Test(5, 6, 7),
         v \o <<Br(5)>>, w \o <<Br(2)>>>>) :
     u \in Work(3), v \in Work(6), w \in Work(7)}

\* The phi of a short circuit takes the value of a load.
ShortCircuit ==
  {Fun(<<Declare \o <<Load(Val(1, 1), X), CondBr(Val(1, 1), 2, 3)>>,
         u \o <<Load(Val(2, 9), Y), Br(3)>>,
         <<Inst("phi", Val(3, 9), <<Val(2, 9), MCZero>>, <<2, 1>>),
           CondBr(Val(3, 9), 4, 5)>>,
         v \o <<Br(5)>>,
         w \o End(5)>>) :
     u \in Work(2), v \in Work(4), w \in Work(5)}

\* The last block of a void function, open and perhaps empty.
OpenEnd ==
  {[Fun(<<Declare \o Test(1, 2, 3), u \o <<Br(3)>>, v>>) EXCEPT !.void = TRUE] :
     u \in Work(2), v \in Work(3)}

MCFunctions ==
  Branches \cup OneLoop \cup LoopWithExit \cup NestedLoops \cup ShortCircuit \cup OpenEnd
=============================================================================
