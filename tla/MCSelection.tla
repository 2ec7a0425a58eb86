----------------------------- MODULE MCSelection -----------------------------
(***************************************************************************)
(* Words of four bits and immediates of two: one slot can be reached from  *)
(* the stack pointer by an immediate and two cannot.  All words are        *)
(* dividends; every constant is tried in place of either operand.          *)
(***************************************************************************)
EXTENDS Selection

MCAssigned == {"r1", "r2"}
MCOffsets == {1, 4, 6}

\* r1 and slot 1 hold the first operand, r2 and slot 4 the second one, slot 6
\* something else, as the scratch registers do.
MCStarts ==
  {[regs |-> [r \in RegNames |-> CASE r = "r1" -> a [] r = "r2" -> b [] r \in Scratch -> 5
                                   [] r \in {"sp", "zero"} -> 0],
    mem |-> [offset \in MCOffsets |-> CASE offset = 1 -> a [] offset = 4 -> b [] offset = 6 -> 3]] :
   a \in Word, b \in {-8, -3, 0, 1, 2, 7}}

First == {InReg("r1"), InSlot(1), InSlot(4)}
Second == {InReg("r1"), InReg("r2"), InSlot(4)}
Results == {InReg("r1"), InReg("r2"), InSlot(6)}
Constants == {Number(n) : n \in Word}
Pairs == (First \X (Second \cup Constants)) \cup ({Number(-8), Number(0), Number(1), Number(4)} \X Second)

Instruction(op, args, amount, res, branch) ==
  [op |-> op, args |-> args, amount |-> amount, res |-> res, branch |-> branch]

MCInstructions ==
  {Instruction(op, args, 0, res, "none") : args \in Pairs, res \in Results,
     op \in {"add", "sub", "mul", "div", "rem", "and"} \cup Comparisons}
  \cup {Instruction(op, <<v>>, n, res, "none") :
          op \in {"shl", "shr"}, v \in First, n \in 1 .. 3, res \in Results}
  \cup {Instruction("neg", <<v>>, 0, res, "none") : v \in First \cup {Number(-8)}, res \in Results}
  \cup {Instruction(op, args, 0, InReg("zero"), branch) : op \in Comparisons, args \in Pairs,
          branch \in {"then", "else", "apart"}}
  \cup {Instruction("test", <<v>>, 0, InReg("zero"), branch) : v \in First \cup Constants,
          branch \in {"then", "else", "apart"}}
=============================================================================
