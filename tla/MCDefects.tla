----------------------------- MODULE MCDefects ------------------------------
(***************************************************************************)
(* Functions on which the back end breaks its own rules: one for each of   *)
(* the runs that TLC is to find violated.  The source programs they come   *)
(* from are in the README.                                                 *)
(***************************************************************************)
EXTENDS MCLowering

\* Four parameters live together; the two beyond the argument registers are
\* read most and are given registers first, which pushes p out of a0.
ShuffledParams ==
  Fun(<<"p", "q", "r", "s">>,
      <<<<Arith("u", <<"r", "s">>), Arith("v", <<"u", "r">>), Arith("w", <<"v", "s">>),
          Arith("x", <<"w", "r">>), Arith("y", <<"x", "p">>), Arith("z", <<"y", "q">>),
          Arith("e", <<"z", "p">>), Arith("g", <<"e", "s">>), Arith("h", <<"g", "r">>),
          Ret(<<"h">>)>>>>, {TRUE})

\* Five values live together and four registers.
ManyLive ==
  Fun(<<"p", "q">>,
      <<<<Arith("x", <<"p", "q">>), Arith("y", <<"p", "x">>), Arith("z", <<"q", "y">>),
          Arith("u", <<"x", "y">>), Arith("v", <<"z", "u">>), Arith("w", <<"p", "q">>),
          Arith("h", <<"v", "w">>), Ret(<<"h">>)>>>>, {TRUE})

\* A comparison, then a call, then the branch on the comparison.
LateBranch ==
  Fun(<<"p", "q">>,
      <<<<Icmp("c", <<"p", "q">>), Call("x", <<"k">>), CondBr("c", 2, 3)>>,
        <<Ret(<<"x">>)>>, <<Ret(<<"k">>)>>>>, {TRUE})

\* a, b = b, a + b: the first phi takes the value the second has had.
Fibonacci ==
  Fun(<<"n">>,
      <<<<Br(2)>>,
        <<Phi("a", <<"k", "b">>, <<1, 3>>), Phi("b", <<"n", "d">>, <<1, 3>>),
          Icmp("c", <<"a", "n">>), CondBr("c", 3, 4)>>,
        <<Arith("d", <<"a", "b">>), Br(2)>>,
        <<Ret(<<"a">>)>>>>, {TRUE})
=============================================================================
