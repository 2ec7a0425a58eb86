------------------------------ MODULE Lowering ------------------------------
(***************************************************************************)
(* The code FunctionLowerer emits for one function                         *)
(* (src/src/codegen/codegen.cpp), run on the machine it is emitted for:    *)
(* prologue, instructions, phi copies on the edges, calls, epilogue.       *)
(*                                                                         *)
(* Registers and stack words hold names instead of numbers: r \in reg[p]   *)
(* means that p holds the current value of the SSA value (or local         *)
(* variable) r, and the name of a register stands for what that register   *)
(* held when the function was entered.  When a value is computed anew its  *)
(* name disappears from every other place, so an instruction reads what    *)
(* the IR means exactly when the place it reads holds the name of its      *)
(* operand, whatever the numbers are.                                      *)
(*                                                                         *)
(* t0, t1 and t2 carry values within the code of one instruction only and  *)
(* are not modelled; the moves of phis and of arguments are simultaneous,  *)
(* as ParallelCopy shows.                                                  *)
(***************************************************************************)
EXTENDS Frame

Ra == "ra"

VARIABLES
  reg,    \* register -> names
  mem,    \* word of the frame, or of the stack parameters above it -> names
  pc,     \* <<block, index>> of the next instruction
  moved   \* parameters the prologue has moved

machine == <<reg, mem, pc, moved>>
compiler == <<livenessVars, allocVars>>
vars == <<compiler, machine>>

-----------------------------------------------------------------------------
(* The functions that reach the code generator, as IR generation, mem2reg and
   the optimiser leave them. *)

\* A value has one definition; a local variable is the result of its alloca.
SingleAssignment(f) ==
  /\ IsInjective(f.params) /\ NoValue \notin Params(f)
  /\ \A s \in Sites(f) : At(f, s).res \notin Params(f)
  /\ \A s, t \in Sites(f) :
       At(f, s).res = At(f, t).res /\ At(f, s).res # NoValue => s = t

Variables(f) == {At(f, s).res : s \in {t \in Sites(f) : At(f, t).op = "alloca"}}

Shaped(f) ==
  \A s \in Sites(f) :
    LET inst == At(f, s)
    IN  /\ inst.args \in Seq(SsaValues(f) \cup Literals)
        /\ inst.op \in {"alloca", "phi", "load", "arith", "and", "icmp"} => inst.res # NoValue
        /\ inst.op \in {"set", "store", "br", "condbr", "ret"} => inst.res = NoValue
        /\ inst.op = "phi" => /\ s[2] \in PhiSites(f, s[1])
                              /\ DOMAIN inst.to = DOMAIN inst.args
        /\ inst.op = "set" => Len(inst.args) = 2 /\ inst.args[1] \in Variables(f)
        /\ inst.op = "load" => Len(inst.args) = 1
        /\ inst.op = "condbr" => Len(inst.args) = 1
        /\ inst.op = "ret" => Len(inst.args) <= 1
        /\ inst.op \in {"br", "condbr", "ret"} => s[2] = Len(f.blocks[s[1]])

\* The entry has no phis, and phis have a value for every edge.
Connected(f) ==
  /\ Entry \in Blocks(f) /\ PhiSites(f, Entry) = {}
  /\ \A b \in Blocks(f) : \A c \in Succs(f, b) : \A phi \in Phis(f, c) : HasIncoming(phi, b)

Defines(f, s, v) ==
  IF At(f, s).op = "set" THEN v = At(f, s).args[1]
  ELSE v = At(f, s).res /\ At(f, s).op # "alloca"

\* The blocks control can enter without having passed a definition of v.
EnteredWithout(f, v) ==
  LET passes(c) == \A i \in DOMAIN f.blocks[c] : ~Defines(f, <<c, i>>, v)
      closed(S) == Entry \in S /\ \A c \in S : passes(c) => Succs(f, c) \subseteq S
  IN  {b \in Blocks(f) : \A S \in SUBSET Blocks(f) : closed(S) => b \in S}

\* v has a value whenever control is behind instruction i of block b.
Available(f, v, b, i) ==
  \/ v \in Params(f) \cup Literals
  \/ b \notin EnteredWithout(f, v)
  \/ \E j \in 1 .. i : Defines(f, <<b, j>>, v)

DefinedBeforeRead(f) ==
  /\ \A s \in Sites(f) :
       LET args == At(f, s).args
       IN  At(f, s).op # "phi" =>
             \A i \in DOMAIN args :
               (At(f, s).op = "set" /\ i = 1) \/ Available(f, args[i], s[1], s[2] - 1)
  /\ \A b \in Blocks(f) : \A c \in Succs(f, b) : \A phi \in Phis(f, c) :
       Available(f, Incoming(phi, b), b, Len(f.blocks[b]))

ASSUME FunctionsWellFormed ==
  \A f \in Functions :
    SingleAssignment(f) /\ Shaped(f) /\ Connected(f) /\ DefinedBeforeRead(f)

\* There is an a0, and no name stands for two things.
ASSUME NamesApart ==
  /\ ARegs # << >>
  /\ Ra \notin Registers \cup {NoReg}
  /\ \A f \in Functions : (Registers \cup {Ra}) \cap (SsaValues(f) \cup Literals) = {}

-----------------------------------------------------------------------------
(* Where operands and results are. *)

\* load_i32: its register, a constant, the home of a parameter, its slot.
Contents(v) ==
  IF Allocated(v) THEN reg[regOf[v]]
  ELSE IF v \in Literals THEN {v}
  ELSE IF v \in Params(fn) /\ OnStack(ParamIndex(v)) THEN mem[StackParamOffset(ParamIndex(v))]
  ELSE IF v \in Params(fn) THEN mem[ParamOffset(v)]
  ELSE mem[SlotOffset(v)]

Placed(v) == Allocated(v) \/ v \in Literals \/ v \in Params(fn) \/ v \in Slotted

\* An icmp read only by the branch of its block emits nothing: the branch
\* compares instead.
LeftToBranch(s) == At(fn, s).op = "icmp" /\ DirectCondition(fn, s)

FusedCompare(s) ==
  At(fn, s).op = "condbr" /\ \E c \in Sites(fn) :
    LeftToBranch(c) /\ At(fn, c).res = At(fn, s).args[1]

\* What the code of an instruction reads.  A phi is read on the edges.
Reads(s) ==
  IF FusedCompare(s) THEN ToSet(At(fn, DefSite(fn, At(fn, s).args[1])).args)
  ELSE IF LeftToBranch(s) \/ At(fn, s).op = "phi" THEN {}
  ELSE IF At(fn, s).op = "set" THEN {At(fn, s).args[2]}
  ELSE ToSet(At(fn, s).args)

EdgeReads(b) ==
  UNION {{Incoming(phi, b) : phi \in {q \in Phis(fn, c) : HasIncoming(q, b)}} :
           c \in Succs(fn, b)}

\* The code generator gives up on an operand or a result without a place, on a
\* phi without a value for an edge, and on an int function with an open block.
LoweringFails ==
  \/ \E s \in Sites(fn) : \/ \E v \in Reads(s) : ~Placed(v)
                          \/ /\ At(fn, s).res # NoValue
                             /\ At(fn, s).op # "phi"
                             /\ ~LeftToBranch(s)
                             /\ ~Placed(At(fn, s).res)
  \/ \E b \in Blocks(fn) : \/ \E v \in EdgeReads(b) : ~Placed(v)
                           \/ \E c \in Succs(fn, b) :
                                \E phi \in Phis(fn, c) : ~HasIncoming(phi, b)
  \/ ~fn.void /\ \E b \in Blocks(fn) : ~Terminated(fn, b)

\* Names no place holds any more, because they have a new value.
Forget(places, names) == [p \in DOMAIN places |-> places[p] \ names]

\* v has just been computed, or copied from a place with these contents.
PutInReg(v, contents) ==
  IF Allocated(v) THEN [Forget(reg, {v}) EXCEPT ![regOf[v]] = contents \cup {v}]
  ELSE Forget(reg, {v})
PutInMem(v, contents) ==
  IF Allocated(v) THEN Forget(mem, {v})
  ELSE [Forget(mem, {v}) EXCEPT ![SlotOffset(v)] = contents \cup {v}]

-----------------------------------------------------------------------------
(* Compilation ends, and the function is called. *)

GiveUp ==
  /\ stage = "allocated"
  /\ LoweringFails
  /\ stage' = "failed"
  /\ UNCHANGED <<fn, liveIn, liveOut, block, changed, allocVars, machine>>

\* emit_prologue: sp, then ra and the callee-saved registers, go to the frame.
Enter ==
  /\ stage = "allocated"
  /\ ~LoweringFails
  /\ reg' = [r \in Registers \cup {Ra} |->
               {r} \cup {fn.params[i] : i \in {j \in DOMAIN fn.params :
                                                ~OnStack(j) /\ ARegs[j] = r}}]
  /\ mem' = [w \in 0 .. FrameSize + WordsOnStack(Len(fn.params)) - 1 |->
               (IF HasCall /\ w = RaOffset THEN {Ra} ELSE {})
               \cup {r \in UsedCalleeSaved : SavedOffset(r) = w}
               \cup {fn.params[i] : i \in {j \in DOMAIN fn.params :
                                             OnStack(j) /\ StackParamOffset(j) = w}}]
  /\ stage' = "prologue"
  /\ UNCHANGED <<fn, liveIn, liveOut, block, changed, allocVars, pc, moved>>

\* emit_prologue: the parameters, one after the other.
Moving(i) == stage = "prologue" /\ i = moved + 1 /\ i <= Len(fn.params)

MoveParamToRegister(i) ==
  /\ Moving(i)
  /\ Allocated(fn.params[i])
  /\ reg' = [reg EXCEPT ![regOf[fn.params[i]]] =
               IF OnStack(i) THEN mem[StackParamOffset(i)] ELSE reg[ARegs[i]]]
  /\ moved' = i
  /\ UNCHANGED <<compiler, mem, pc>>

MoveParamHome(i) ==
  /\ Moving(i)
  /\ fn.params[i] \in HomeParams
  /\ mem' = [mem EXCEPT ![ParamOffset(fn.params[i])] = reg[ARegs[i]]]
  /\ moved' = i
  /\ UNCHANGED <<compiler, reg, pc>>

LeaveParam(i) ==
  /\ Moving(i)
  /\ OnStack(i) /\ ~Allocated(fn.params[i])
  /\ moved' = i
  /\ UNCHANGED <<compiler, reg, mem, pc>>

\* emit_prologue: the cached constants; then the first block follows.
EnterBody ==
  /\ stage = "prologue"
  /\ moved = Len(fn.params)
  /\ reg' = [r \in DOMAIN reg |->
               LET cached == {c \in Literals : regOf[c] = r}
               IN  IF cached = {} THEN reg[r] ELSE cached]
  /\ stage' = "running"
  /\ UNCHANGED <<fn, liveIn, liveOut, block, changed, allocVars, mem, pc, moved>>

-----------------------------------------------------------------------------
(* The instructions. *)

AtInst(ops) ==
  /\ stage = "running"
  /\ pc[2] \in DOMAIN fn.blocks[pc[1]]
  /\ At(fn, pc).op \in ops

NextPc == <<pc[1], pc[2] + 1>>

\* lower_binary, lower_neg, lower_load of a global, lower_icmp.
Compute ==
  /\ AtInst({"arith", "and", "icmp"})
  /\ ~LeftToBranch(pc)
  /\ reg' = PutInReg(At(fn, pc).res, {})
  /\ mem' = PutInMem(At(fn, pc).res, {})
  /\ pc' = NextPc
  /\ UNCHANGED <<compiler, moved>>

\* The icmp has a new value, but no place takes it.
Defer ==
  /\ AtInst({"icmp"})
  /\ LeftToBranch(pc)
  /\ reg' = Forget(reg, {At(fn, pc).res})
  /\ mem' = Forget(mem, {At(fn, pc).res})
  /\ pc' = NextPc
  /\ UNCHANGED <<compiler, moved>>

\* lower_load of a local variable: the result is the variable's value.
LoadLocal ==
  /\ AtInst({"load"})
  /\ LET v == At(fn, pc).res
         contents == Contents(At(fn, pc).args[1]) \ {v}
     IN  reg' = PutInReg(v, contents) /\ mem' = PutInMem(v, contents)
  /\ pc' = NextPc
  /\ UNCHANGED <<compiler, moved>>

\* lower_store to a local variable: the variable's value is the operand's.
SetLocal ==
  /\ AtInst({"set"})
  /\ LET x == At(fn, pc).args[1]
         contents == Contents(At(fn, pc).args[2]) \ {x}
     IN  reg' = PutInReg(x, contents) /\ mem' = PutInMem(x, contents)
  /\ pc' = NextPc
  /\ UNCHANGED <<compiler, moved>>

\* alloca and phi emit nothing where they stand; a store to a global changes
\* no register and no word of the frame.
Pass ==
  /\ AtInst({"alloca", "phi", "store"})
  /\ pc' = NextPc
  /\ UNCHANGED <<compiler, reg, mem, moved>>

\* slip: the word is the number of the argument, counted from the first
StackArgumentsFromFirst ==
  /\ AtInst({"call"})
  /\ LET args == At(fn, pc).args
     IN  mem' = [w \in DOMAIN mem |->
                   IF w + 1 \in DOMAIN args /\ OnStack(w + 1) THEN Contents(args[w + 1])
                   ELSE mem[w]]
  /\ stage' = "stacked"
  /\ UNCHANGED <<fn, liveIn, liveOut, block, changed, allocVars, reg, pc, moved>>

\* lower_call: the arguments from the stack words up, in order.
StackArguments ==
  /\ AtInst({"call"})
  /\ LET args == At(fn, pc).args
     IN  mem' = [w \in DOMAIN mem |->
                   IF w + Len(ARegs) + 1 \in DOMAIN args
                   THEN Contents(args[w + Len(ARegs) + 1]) ELSE mem[w]]
  /\ stage' = "stacked"
  /\ UNCHANGED <<fn, liveIn, liveOut, block, changed, allocVars, reg, pc, moved>>

RegisterArguments ==
  /\ stage = "stacked"
  /\ LET args == At(fn, pc).args
     IN  reg' = [r \in DOMAIN reg |->
                   LET i == {j \in DOMAIN args : ~OnStack(j) /\ ARegs[j] = r}
                   IN  IF i = {} THEN reg[r] ELSE Contents(args[Min(i)])]
  /\ stage' = "called"
  /\ UNCHANGED <<fn, liveIn, liveOut, block, changed, allocVars, mem, pc, moved>>

\* The callee leaves sp and the callee-saved registers as they were; anything
\* may be in the others, in ra and in the words that carried arguments.  Its
\* result is in a0, and spill_result puts it in place.
CalleeReturns ==
  /\ stage = "called"
  /\ LET v == At(fn, pc).res
         kept == [r \in DOMAIN reg |-> IF r \in ToSet(SRegs) THEN reg[r] ELSE {}]
         left == [w \in DOMAIN mem |-> IF w < OutgoingWords THEN {} ELSE mem[w]]
     IN  IF v = NoValue THEN reg' = kept /\ mem' = left
         ELSE /\ reg' = [r \in DOMAIN reg |-> IF r = ARegs[1] \/ r = regOf[v]
                                              THEN {v} ELSE kept[r] \ {v}]
              /\ mem' = [w \in DOMAIN mem |->
                           IF ~Allocated(v) /\ w = SlotOffset(v) THEN {v} ELSE left[w] \ {v}]
  /\ stage' = "running"
  /\ pc' = NextPc
  /\ UNCHANGED <<fn, liveIn, liveOut, block, changed, allocVars, moved>>

\* A place with these contents on the edge b -> c, as the phis of c see it.
Renamed(contents, b, c) ==
  (contents \ {phi.res : phi \in Phis(fn, c)})
  \cup {phi.res : phi \in {q \in Phis(fn, c) : Incoming(q, b) \in contents}}

\* emit_phi_copies: one simultaneous move when every phi has a register, and
\* two passes through the temporaries of the frame when one has not.
PhiAt(c, k) == fn.blocks[c][k]
PhiToRegister(c, r) == {k \in PhiSites(fn, c) : regOf[PhiAt(c, k).res] = r}
PhiToWord(c, w) ==
  IF \A phi \in Phis(fn, c) : Allocated(phi.res) THEN {}
  ELSE {k \in PhiSites(fn, c) :
          \/ w = TempBase + k - 1
          \/ ~Allocated(PhiAt(c, k).res) /\ w = SlotOffset(PhiAt(c, k).res)}

Received(c, phis, contents) ==
  Renamed(IF phis = {} THEN contents ELSE Contents(Incoming(PhiAt(c, Max(phis)), pc[1])),
          pc[1], c)

\* lower_br, lower_cond_br: the branch goes either way.
Branch(c) ==
  /\ AtInst({"br", "condbr"})
  /\ c \in Succs(fn, pc[1])
  /\ reg' = [r \in DOMAIN reg |-> Received(c, PhiToRegister(c, r), reg[r])]
  /\ mem' = [w \in DOMAIN mem |-> Received(c, PhiToWord(c, w), mem[w])]
  /\ pc' = <<c, 1>>
  /\ UNCHANGED <<compiler, moved>>

-----------------------------------------------------------------------------
(* The order of the blocks in the output, and the end of the function. *)

\* plan_block_layout: a loop header moves behind the one block of its body.
Rotates(f, order, i) ==
  /\ Terminated(f, order[i]) /\ Terminated(f, order[i + 1])
  /\ Last(f.blocks[order[i]]).op = "condbr"
  /\ Last(f.blocks[order[i]]).to = <<order[i + 1], order[i + 2]>>
  /\ Last(f.blocks[order[i + 1]]).op = "br"
  /\ Last(f.blocks[order[i + 1]]).to = <<order[i]>>

Layout(f) ==
  LET n == Len(f.blocks)
      blocks == [i \in 1 .. n |-> i]
      from[i \in 2 .. n + 2] ==  \* the order once positions i and up are done
        IF i + 2 > n THEN blocks
        ELSE IF Rotates(f, blocks, i)
        THEN [from[i + 3] EXCEPT ![i] = i + 1, ![i + 1] = i]
        ELSE from[i + 1]
  IN  IF f.opt /\ n >= 4 THEN from[2] ELSE blocks

\* The block that follows in the output; 0 for the exit label.
Following(b) ==
  LET order == Layout(fn)
      i == IndexOf(order, b)
  IN  IF i < Len(order) THEN order[i + 1] ELSE 0

\* Nothing is emitted at the end of an open block.
FallInto(c) ==
  /\ stage = "running"
  /\ pc[2] = Len(fn.blocks[pc[1]]) + 1
  /\ c = Following(pc[1])
  /\ c # 0
  /\ pc' = <<c, 1>>
  /\ UNCHANGED <<compiler, reg, mem, moved>>

\* emit_epilogue, with a0 as lower_ret or the last open block left it.
Leave(a0) ==
  /\ reg' = [r \in DOMAIN reg |->
               IF r \in UsedCalleeSaved THEN mem[SavedOffset(r)]
               ELSE IF r = Ra /\ HasCall THEN mem[RaOffset]
               ELSE IF r = ARegs[1] THEN a0 ELSE reg[r]]
  /\ stage' = "returned"
  /\ UNCHANGED <<fn, liveIn, liveOut, block, changed, allocVars, mem, pc, moved>>

Return ==
  /\ AtInst({"ret"})
  /\ Leave(IF At(fn, pc).args = << >> THEN reg[ARegs[1]] ELSE Contents(At(fn, pc).args[1]))

FallIntoExit ==
  /\ stage = "running"
  /\ pc[2] = Len(fn.blocks[pc[1]]) + 1
  /\ Following(pc[1]) = 0
  /\ Leave(reg[ARegs[1]])

-----------------------------------------------------------------------------

Init ==
  /\ AllocInit
  /\ reg = [r \in Registers \cup {Ra} |-> {}]
  /\ mem = << >>
  /\ pc = <<Entry, 1>>
  /\ moved = 0

\* The function has returned, or there is no code for it.
Over == stage \in {"returned", "failed"} /\ UNCHANGED vars

Next ==
  \/ AllocNext /\ UNCHANGED machine
  \/ GiveUp
  \/ Enter
  \/ \E i \in 1 .. Len(fn.params) :
       MoveParamToRegister(i) \/ MoveParamHome(i) \/ LeaveParam(i)
  \/ EnterBody
  \/ Compute \/ Defer \/ LoadLocal \/ SetLocal \/ Pass
  \/ StackArguments \/ RegisterArguments \/ CalleeReturns
  \/ \E c \in Blocks(fn) : Branch(c) \/ FallInto(c)
  \/ Return \/ FallIntoExit
  \/ Over

Spec == Init /\ [][Next]_vars /\ WF_vars(AllocNext /\ UNCHANGED machine)

-----------------------------------------------------------------------------

Names == SsaValues(fn) \cup Literals \cup Registers \cup {Ra}
Stages == {"liveness", "interference", "colouring", "scanning", "caching", "allocated",
           "failed", "prologue", "running", "stacked", "called", "returned"}

TypeOK ==
  /\ AllocTypeOK
  /\ stage \in Stages
  /\ reg \in [Registers \cup {Ra} -> SUBSET Names]
  /\ DOMAIN mem \subseteq Nat /\ \A w \in DOMAIN mem : mem[w] \subseteq Names
  /\ pc[1] \in Blocks(fn) /\ pc[2] \in 1 .. Len(fn.blocks[pc[1]]) + 1
  /\ moved \in 0 .. Len(fn.params)

\* Whatever path led to an instruction, and whatever was spilled, moved or
\* called on the way, the places its code reads hold the current values of its
\* operands; for a branch, also the values the phis of its targets take.
OperandsIntact ==
  stage = "running" /\ pc[2] \in DOMAIN fn.blocks[pc[1]] =>
    \A v \in Reads(pc) \cup (IF At(fn, pc).op \in {"br", "condbr"} THEN EdgeReads(pc[1])
                             ELSE {}) :
      v \in Contents(v)

\* When the body starts, each parameter somebody reads is where the body
\* looks for it, although the prologue moves them one at a time.
ParamsDelivered ==
  stage = "prologue" /\ moved = Len(fn.params) =>
    \A v \in Params(fn) : Uses(fn, v) # {} => v \in Contents(v)

\* At the call instruction each argument is where the callee expects it, those
\* beyond the argument registers in the first words of the caller's frame.
CalleeSeesArguments ==
  stage = "called" =>
    \A i \in DOMAIN At(fn, pc).args :
      At(fn, pc).args[i] \in IF OnStack(i) THEN mem[i - Len(ARegs) - 1] ELSE reg[ARegs[i]]

\* The caller gets back its callee-saved registers and its return address, and
\* finds the result in a0, whatever calls the function itself has made.
ReturnsCleanly ==
  stage = "returned" =>
    /\ \A r \in ToSet(SRegs) \cup {Ra} : r \in reg[r]
    /\ pc[2] \in DOMAIN fn.blocks[pc[1]] =>
         \A v \in ToSet(At(fn, pc).args) : v \in reg[ARegs[1]]

\* The code generator gives up on a function for two reasons only.  The function
\* returns a value and has a block without branch or return; or it was compiled
\* with -opt and branches on the single use of a value that is not a comparison,
\* which then has neither a register nor a slot.
FailuresKnown ==
  stage = "failed" =>
    \/ ~fn.void /\ \E b \in Blocks(fn) : ~Terminated(fn, b)
    \/ fn.opt /\ \E s \in Sites(fn) : DirectCondition(fn, s) /\ At(fn, s).op # "icmp"

\* Every well-formed function can be lowered.
NeverFails == stage # "failed"

\* The end of a void function is its end: after its last open block comes the
\* epilogue, never another block.
OpenBlockEnds ==
  stage = "running" /\ pc[2] \notin DOMAIN fn.blocks[pc[1]] => Following(pc[1]) = 0
=============================================================================
