----------------------------- MODULE MCLiveness -----------------------------
(***************************************************************************)
(* The control flow ToyC's statements produce, with every choice of the    *)
(* values read in it: a loop with two phis and a break, and two nested     *)
(* loops, where a value read outside must survive the inner loop.          *)
(***************************************************************************)
EXTENDS Liveness

Inst(op, res, args, to) == [op |-> op, res |-> res, args |-> args, to |-> to]
Br(b) == Inst("br", NoValue, << >>, <<b>>)
CondBr(c, b1, b2) == Inst("condbr", NoValue, <<c>>, <<b1, b2>>)
Phi(res, args, from) == Inst("phi", res, args, from)
Arith(res, x) == Inst("arith", res, <<x>>, << >>)
Ret(v) == Inst("ret", NoValue, <<v>>, << >>)

Fun(blocks) == [params |-> <<"p">>, blocks |-> blocks, void |-> FALSE, opt |-> TRUE]

\* The body may leave the loop.  The first phi does not read the second, which
\* is declared after it.
OneLoop ==
  {Fun(<<<<Br(2)>>,
         <<Phi("f", <<"p", x>>, <<1, 3>>), Phi("g", <<"p", y>>, <<1, 3>>),
           Inst("icmp", "c", <<"f", "g">>, << >>), CondBr("c", 3, 4)>>,
         <<Arith("v", a), Arith("w", b), exit>>,
         <<Ret(z)>>>>) :
     x \in {"f", "v", "p"}, y \in {"f", "g", "w"}, a \in {"f", "g", "p"},
     b \in {"g", "v"}, exit \in {Br(2), CondBr("v", 2, 4)}, z \in {"f", "g"}}

TwoLoops ==
  {Fun(<<<<Br(2)>>,
         <<Phi("f", <<"p", x>>, <<1, 5>>), CondBr("f", 3, 6)>>,
         <<Phi("g", <<y, z>>, <<2, 4>>), CondBr("g", 4, 5)>>,
         <<Arith("v", a), Br(3)>>,
         <<Arith("w", b), Br(2)>>,
         <<Ret(c)>>>>) :
     x \in {"f", "g", "w"}, y \in {"p", "f"}, z \in {"f", "g", "v"},
     a \in {"g", "p"}, b \in {"f", "g"}, c \in {"f", "p"}}

MCFunctions == OneLoop \cup TwoLoops
=============================================================================
