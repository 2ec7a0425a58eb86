----------------------------- MODULE MCLowering -----------------------------
(***************************************************************************)
(* Functions compiled for a machine with t3, two argument registers and    *)
(* one callee-saved register: few enough that calls, loops and three live  *)
(* values already force spills, stack arguments and phi temporaries.       *)
(***************************************************************************)
EXTENDS Lowering

MCTRegs == <<"t3">>
MCARegs == <<"a0", "a1">>
MCSRegs == <<"s1">>

Inst(op, res, args, to) == [op |-> op, res |-> res, args |-> args, to |-> to]
Arith(res, args) == Inst("arith", res, args, << >>)
Icmp(res, args) == Inst("icmp", res, args, << >>)
Call(res, args) == Inst("call", res, args, << >>)
Store(x) == Inst("store", NoValue, <<x>>, << >>)
Alloca(x) == Inst("alloca", x, << >>, << >>)
Load(res, x) == Inst("load", res, <<x>>, << >>)
Set(x, v) == Inst("set", NoValue, <<x, v>>, << >>)
Phi(res, args, from) == Inst("phi", res, args, from)
Br(b) == Inst("br", NoValue, << >>, <<b>>)
CondBr(c, b1, b2) == Inst("condbr", NoValue, <<c>>, <<b1, b2>>)
Ret(args) == Inst("ret", NoValue, args, << >>)

Fun(params, blocks, opts) ==
  {[params |-> params, blocks |-> blocks, void |-> FALSE, opt |-> o] : o \in opts}
Procedure(params, blocks, opts) ==
  {[params |-> params, blocks |-> blocks, void |-> TRUE, opt |-> o] : o \in opts}

\* Three instructions, each an addition or a call of the newest value and any
\* older one, then a return of any value: every placement of calls between
\* definitions and uses, with up to four values live.
Straight ==
  LET names == <<"p", "q", "x", "y", "z">>
      step(n) == {Inst(op, names[n], <<names[i], names[n - 1]>>, << >>) :
                    op \in {"arith", "call"}, i \in 1 .. n - 1}
  IN  UNION {Fun(<<"p", "q">>, <<<<i, j, k, Ret(<<names[r]>>)>>>>, BOOLEAN) :
               i \in step(3), j \in step(4), k \in step(5), r \in 1 .. 5}

\* A call with two arguments beyond the registers, of a function that itself
\* has two parameters beyond the registers; the second call reorders them.
ManyArguments ==
  Fun(<<"p", "q", "r", "s">>,
      <<<<Call("x", <<"q", "p", "s", "r">>),
          Call("y", <<"x", "r", "p", "x">>),
          Arith("z", <<"y", "s">>), Ret(<<"z">>)>>>>, BOOLEAN)

\* The two phis swap on the back edge; both are still read after the loop.
SwapLoop ==
  Fun(<<"p", "q">>,
      <<<<Br(2)>>,
        <<Phi("x", <<"p", "y">>, <<1, 2>>), Phi("y", <<"q", "x">>, <<1, 2>>),
          Icmp("c", <<"x", "y">>), CondBr("c", 2, 3)>>,
        <<Arith("z", <<"x", "y">>), Ret(<<"z">>)>>>>, BOOLEAN)

\* A while loop that calls: more values live across the call than callee-saved
\* registers, so phis live in the frame and the edges go through temporaries.
CallLoop ==
  Fun(<<"n">>,
      <<<<Br(2)>>,
        <<Phi("i", <<"k", "j">>, <<1, 3>>), Phi("s", <<"k", "t">>, <<1, 3>>),
          Icmp("c", <<"i", "n">>), CondBr("c", 3, 4)>>,
        <<Call("x", <<"i", "s">>), Arith("t", <<"s", "x">>), Arith("j", <<"i", "k">>),
          Store("t"), Br(2)>>,
        <<Ret(<<"s">>)>>>>, BOOLEAN)

\* While loops over two phis: each back-edge value a constant-free mix of the
\* phis, a parameter and the result of a call or an addition in the body.
Loops ==
  UNION {Fun(<<"p", "q">>,
             <<<<Br(2)>>,
               <<Phi("x", <<"p", u>>, <<1, 3>>), Phi("y", <<"q", v>>, <<1, 3>>),
                 Icmp("c", <<"x", "y">>), CondBr("c", 3, 4)>>,
               <<Inst(op, "j", <<"x", "k">>, << >>), Br(2)>>,
               <<Ret(<<r>>)>>>>, BOOLEAN) :
           u \in {"j", "x", "q"}, v \in {"j", "x", "y", "p"}, op \in {"arith", "call"},
           r \in {"x", "y", "q"}}

\* A while loop without call, with a constant to cache.
LeafLoop ==
  Fun(<<"n">>,
      <<<<Br(2)>>,
        <<Phi("i", <<"k", "j">>, <<1, 3>>),
          Icmp("c", <<"i", "n">>), CondBr("c", 3, 4)>>,
        <<Inst("and", "m", <<"i", "k">>, << >>), Arith("j", <<"m", "k">>), Br(2)>>,
        <<Ret(<<"i">>)>>>>, BOOLEAN)

\* Two branches meet in a phi; one of them calls.
Diamond ==
  Fun(<<"p", "q">>,
      <<<<Icmp("c", <<"p", "q">>), CondBr("c", 2, 3)>>,
        <<Call("x", <<"q">>), Br(4)>>,
        <<Arith("y", <<"p", "p">>), Br(4)>>,
        <<Phi("m", <<"x", "y">>, <<2, 3>>), Arith("z", <<"m", "q">>), Ret(<<"z">>)>>>>,
      BOOLEAN)

\* Local variables in memory, and a condition that is not a comparison: the
\* code without -opt.
Locals ==
  Fun(<<"p">>,
      <<<<Alloca("a"), Alloca("b"), Set("a", "p"), Set("b", "k"), Br(2)>>,
        <<Load("x", "a"), Arith("c", <<"x", "k">>), CondBr("c", 3, 4)>>,
        <<Load("y", "a"), Load("w", "b"), Call("z", <<"y", "w">>), Set("b", "z"),
          Set("a", "w"), Br(2)>>,
        <<Load("v", "b"), Ret(<<"v">>)>>>>, {FALSE})

\* A procedure without return statement that calls in both branches.
Silent ==
  Procedure(<<"p">>,
      <<<<Icmp("c", <<"p", "k">>), CondBr("c", 2, 3)>>,
        <<Call(NoValue, <<"p", "p", "p">>), Br(3)>>,
        <<Store("p")>>>>, BOOLEAN)

\* A procedure that ends in a loop around a branch: its last block is open and
\* stands before the blocks of the branch.
OpenLoop ==
  Procedure(<<"n">>,
      <<<<Br(2)>>,
        <<Phi("i", <<"k", "j">>, <<1, 6>>), Icmp("c", <<"i", "n">>), CondBr("c", 3, 4)>>,
        <<Icmp("d", <<"i", "k">>), CondBr("d", 5, 6)>>,
        << >>,
        <<Store("k"), Br(6)>>,
        <<Arith("j", <<"i", "k">>), Br(2)>>>>, BOOLEAN)

\* A branch on the result of a call.
TestsCall ==
  Fun(<<"p">>,
      <<<<Call("c", <<"p">>), CondBr("c", 2, 3)>>,
        <<Ret(<<"p">>)>>, <<Ret(<<"k">>)>>>>, BOOLEAN)

\* while (1) { return k; } in an int function, as IRGen leaves it: the exit of the
\* loop is open.
OpenExit == Fun(<<"p">>, <<<<Br(2)>>, <<CondBr("k", 3, 4)>>, <<Ret(<<"k">>)>>, << >>>>, {FALSE})

MCFunctions ==
  Straight \cup ManyArguments \cup SwapLoop \cup Loops \cup CallLoop
  \cup LeafLoop \cup Diamond \cup Locals \cup Silent
  \cup OpenLoop \cup TestsCall \cup OpenExit
=============================================================================
