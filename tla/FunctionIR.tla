----------------------------- MODULE FunctionIR -----------------------------
(***************************************************************************)
(* The SSA function that mem2reg and the optimiser hand to the back end    *)
(* (src/include/toyc/ir.h), reduced to what register allocation and code   *)
(* generation look at: which values an instruction reads and defines, and  *)
(* where control goes.                                                     *)
(*                                                                         *)
(*   function     [params |-> <<v, ...>>, blocks |-> <<block, ...>>,       *)
(*                void |-> returns nothing, opt |-> compiled with -opt]    *)
(*   block        sequence of instructions; block 1 is the entry           *)
(*   instruction  [op, res, args, to]: res is NoValue without a result,    *)
(*                to lists the targets of a branch, or the incoming block  *)
(*                of each argument of a phi                                *)
(*                                                                         *)
(* Opcodes are kept apart as far as code generation treats them apart:     *)
(* "arith" is any arithmetic and any load of a global, "and" the bit mask  *)
(* strength reduction makes, "icmp" the six comparisons, "store" a store   *)
(* to a global.  "alloca", "load" and "set" (the store to a local) are     *)
(* what is left of local variables without mem2reg.                        *)
(***************************************************************************)
EXTENDS Naturals, Sequences, FiniteSets, SequencesExt, Picking

CONSTANTS
  NoValue,  \* the result of an instruction that has none
  Literals  \* the ConstantInt operands

Blocks(f) == DOMAIN f.blocks
Entry == 1

\* The instructions of f, as <<block, index>> pairs.
Sites(f) == UNION {{b} \X DOMAIN f.blocks[b] : b \in Blocks(f)}
At(f, s) == f.blocks[s[1]][s[2]]

Params(f) == ToSet(f.params)
Results(f) == {At(f, s).res : s \in Sites(f)} \ {NoValue}
SsaValues(f) == Params(f) \cup Results(f)

\* uses() keeps one entry for each operand that names the value.
Uses(f, v) ==
  {u \in UNION {{s} \X DOMAIN At(f, s).args : s \in Sites(f)} :
     At(f, u[1]).args[u[2]] = v}

DefSite(f, v) == CHOOSE s \in Sites(f) : At(f, s).res = v

\* is_terminated(): the block ends in a branch or a return.  The last block of
\* a void function without return statement does not, and may be empty.
Terminated(f, b) ==
  f.blocks[b] # << >> /\ Last(f.blocks[b]).op \in {"br", "condbr", "ret"}

Succs(f, b) ==
  IF Terminated(f, b) /\ Last(f.blocks[b]).op # "ret"
  THEN ToSet(Last(f.blocks[b]).to) ELSE {}

\* Codegen takes the phis at the head of a block, up to the first other
\* instruction.
PhiSites(f, b) ==
  {i \in DOMAIN f.blocks[b] : \A j \in 1 .. i : f.blocks[b][j].op = "phi"}
Phis(f, b) == {f.blocks[b][i] : i \in PhiSites(f, b)}

\* incoming_for_pred and phi_incoming_for_edge: the first entry for the edge.
HasIncoming(phi, b) == \E k \in DOMAIN phi.to : phi.to[k] = b
Incoming(phi, b) ==
  phi.args[CHOOSE k \in DOMAIN phi.to :
             phi.to[k] = b /\ \A j \in 1 .. k - 1 : phi.to[j] # b]

\* is_direct_branch_condition_value: a result used once, by the conditional
\* branch of its own block.  Nothing is asked about the opcode.
DirectCondition(f, s) ==
  LET uses == Uses(f, At(f, s).res)
  IN  /\ At(f, s).res # NoValue
      /\ Cardinality(uses) = 1
      /\ \A u \in uses : u[1][1] = s[1] /\ At(f, u[1]).op = "condbr"

\* block_is_cyclic: the block can reach itself.
ReachedFrom(f, b) ==
  LET grown[n \in Nat] ==
        IF n = 0 THEN Succs(f, b)
        ELSE LET reached == grown[n - 1]
             IN  reached \cup UNION {Succs(f, c) : c \in reached}
  IN  grown[Len(f.blocks)]
Cyclic(f, b) == b \in ReachedFrom(f, b)
=============================================================================
