------------------------------ MODULE Selection ------------------------------
(***************************************************************************)
(* What one instruction of the IR becomes (lower_binary, lower_neg,        *)
(* lower_icmp, lower_cond_br in src/src/codegen/codegen.cpp), with         *)
(* optimisation on, and the machine that executes it one instruction at a  *)
(* time.  Operands are in registers, in slots of the frame or constants;   *)
(* the result goes to a register, which may be an operand's, or to a slot. *)
(* Immediates are narrower than words, and so are the offsets of slots.    *)
(***************************************************************************)
EXTENDS Words, Sequences

CONSTANTS
  ImmHalf,       \* immediates are the words from -ImmHalf to ImmHalf - 1
  Assigned,      \* the registers that hold values
  Offsets,       \* of the slots in the frame
  Instructions,  \* the instructions to lower
  Starts         \* what registers and slots hold before

ASSUME ImmediateAssumption ==
  ImmHalf \in Nat \ {0} /\ \E pages \in 1 .. Half : pages * 2 * ImmHalf = 2 * Half

VARIABLES
  inst,     \* the instruction, [op, args, amount, res, branch]
  code,     \* what it has become
  pc,       \* the next of these
  regs,     \* register -> word
  mem,      \* offset from the stack pointer -> word
  start,    \* regs and mem before
  goes      \* where a branch has gone: "true", "false", or nowhere yet

vars == <<inst, code, pc, regs, mem, start, goes>>

Scratch == {"t0", "t1", "t2"}
RegNames == Assigned \cup Scratch \cup {"zero", "sp"}

\* Where a value is.
InReg(r) == [kind |-> "reg", reg |-> r, n |-> 0]
InSlot(offset) == [kind |-> "slot", reg |-> "zero", n |-> offset]
Number(n) == [kind |-> "const", reg |-> "zero", n |-> n]

Held(v, at) ==
  CASE v.kind = "reg" -> at.regs[v.reg]
    [] v.kind = "slot" -> at.mem[v.n]
    [] v.kind = "const" -> v.n

ASSUME NamesApart == Assigned \cap (Scratch \cup {"zero", "sp"}) = {}

\* Results of branches stay where the branch is; everything else has a place.
ASSUME InstructionsFormed ==
  \A i \in Instructions :
    /\ i.branch \in {"none", "then", "else", "apart"}
    /\ i.branch = "none" => i.res \in {InReg(r) : r \in Assigned} \cup {InSlot(n) : n \in Offsets}
    /\ i.op = "test" => i.branch # "none"
    /\ i.branch # "none" => i.op \in {"eq", "ne", "lt", "gt", "le", "ge", "test"}
    /\ i.op \in {"add", "sub", "mul", "div", "rem", "and", "shl", "shr", "neg",
                 "eq", "ne", "lt", "gt", "le", "ge", "test"}
    /\ DOMAIN i.args = IF i.op \in {"shl", "shr", "neg", "test"} THEN {1} ELSE {1, 2}
    /\ \A k \in DOMAIN i.args :
         i.args[k] \in {InReg(r) : r \in Assigned} \cup {InSlot(n) : n \in Offsets}
                         \cup {Number(n) : n \in Word}

ASSUME StartsFormed ==
  /\ Offsets \subseteq Word
  /\ \A s \in Starts :
       /\ s.regs \in [RegNames -> Word] /\ s.regs["zero"] = 0
       /\ s.mem \in [Offsets -> Word]
       /\ \A n \in Offsets : s.regs["sp"] + n \in Word

-----------------------------------------------------------------------------
(* The instructions of the machine; shifts are given the power of two they  *)
(* multiply or divide by.                                                   *)

RR(op, rd, rs, rt) == <<[op |-> op, rd |-> rd, rs |-> rs, rt |-> rt, imm |-> 0]>>
RI(op, rd, rs, imm) == <<[op |-> op, rd |-> rd, rs |-> rs, rt |-> "zero", imm |-> imm]>>
Branch(op, rs, rt, to) == <<[op |-> op, rs |-> rs, rt |-> rt, to |-> to]>>

FitsImm(n) == n \in -ImmHalf .. ImmHalf - 1
Page == 2 * ImmHalf

\* emit_addi, emit_reg_copy
Addi(rd, rs, imm) == IF imm = 0 /\ rd = rs THEN << >> ELSE RI("addi", rd, rs, imm)
Copy(rd, rs) == IF rd = rs THEN << >> ELSE RR("add", rd, rs, "zero")

\* materialize_i32: the upper part is rounded, for the lower one has a sign.
Materialize(n, rd) ==
  IF FitsImm(n) THEN Addi(rd, "zero", n)
  ELSE LET hi == (n + ImmHalf) \div Page
           lo == n - hi * Page
       IN  RI("lui", rd, "zero", hi % ((2 * Half) \div Page))
             \o (IF lo = 0 THEN << >> ELSE RI("addi", rd, rd, lo))

\* emit_add_imm, emit_load_from_base and emit_store_from_base
AddImm(rd, rs, imm, scratch) ==
  IF FitsImm(imm) THEN Addi(rd, rs, imm)
  ELSE Materialize(imm, scratch) \o RR("add", rd, rs, scratch)
LoadFrom(rd, offset) ==
  IF FitsImm(offset) THEN RI("lw", rd, "sp", offset)
  ELSE AddImm(rd, "sp", offset, rd) \o RI("lw", rd, rd, 0)
StoreTo(rs, offset, scratch) ==
  IF FitsImm(offset) THEN RI("sw", rs, "sp", offset)
  ELSE AddImm(scratch, "sp", offset, scratch) \o RI("sw", rs, scratch, 0)

\* select_i32_register: the register an operand is read from, and what brings it
\* there.
Chosen(v, scratch) ==
  CASE v = Number(0) -> "zero"
    [] v.kind = "reg" -> v.reg
    [] OTHER -> scratch
Bring(v, scratch) ==
  CASE v = Number(0) \/ v.kind = "reg" -> << >>
    [] v.kind = "const" /\ v # Number(0) -> Materialize(v.n, scratch)
    [] v.kind = "slot" -> LoadFrom(scratch, v.n)

\* result_register and spill_result
Destination(res) == IF res.kind = "reg" THEN res.reg ELSE "t2"
Spill(res) == IF res.kind = "reg" THEN << >> ELSE StoreTo("t2", res.n, "t0")

-----------------------------------------------------------------------------
(* lower_binary *)

IsPower(v) == v.kind = "const" /\ v.n \in Bits \ {1, Half}

\* slip: one place less
DivisionByPowerShort(op, source, d, rd) ==
  RI("srai", "t1", source, Half)
  \o RI("srli", "t1", "t1", Half \div d)
  \o RR("add", "t1", source, "t1")
  \o RI("srai", "t1", "t1", d)
  \o (IF op = "div" THEN Copy(rd, "t1")
      ELSE RI("slli", "t1", "t1", d) \o RR("sub", rd, source, "t1"))

\* slip: the dividend is corrected in its own register
DivisionByPowerInPlace(op, source, d, rd) ==
  RI("srai", "t1", source, Half)
  \o RI("srli", "t1", "t1", (2 * Half) \div d)
  \o RR("add", source, source, "t1")
  \o RI("srai", "t1", source, d)
  \o (IF op = "div" THEN Copy(rd, "t1")
      ELSE RI("slli", "t1", "t1", d) \o RR("sub", rd, source, "t1"))

\* A quotient or remainder by a power of two, d: what is missing to the next
\* multiple is added to negative dividends only.
DivisionByPower(op, source, d, rd) ==
  RI("srai", "t1", source, Half)
  \o RI("srli", "t1", "t1", (2 * Half) \div d)
  \o RR("add", "t1", source, "t1")
  \o RI("srai", "t1", "t1", d)
  \o (IF op = "div" THEN Copy(rd, "t1")
      ELSE RI("slli", "t1", "t1", d) \o RR("sub", rd, source, "t1"))

\* try_lower_immediate_binary: the operand that stays and the immediate; none if
\* there is no such form.
ImmediateForms(op, a, b) ==
  LET form(mnemonic, v, imm) == {[op |-> mnemonic, of |-> v, imm |-> imm]}
      fitting(forms) == {f \in forms : FitsImm(f.imm)}
  IN  CASE op = "and" ->
             IF a.kind = "const" /\ b.kind # "const" THEN fitting(form("andi", b, a.n))
             ELSE IF b.kind = "const" THEN fitting(form("andi", a, b.n)) ELSE {}
        [] op = "sub" ->
             IF b.kind = "const" /\ b.n # -Half THEN fitting(form("addi", a, -b.n)) ELSE {}
        [] op = "add" ->
             IF b.kind = "const" THEN fitting(form("addi", a, b.n))
             ELSE IF a.kind = "const" THEN fitting(form("addi", b, a.n)) ELSE {}
        [] OTHER -> {}

TwoRegisters(op, rd, a, b) ==
  Bring(a, "t0") \o Bring(b, "t1") \o RR(op, rd, Chosen(a, "t0"), Chosen(b, "t1"))

LowerBinary(op, a, b, rd) ==
  LET forms == ImmediateForms(op, a, b)
      form == CHOOSE f \in forms : TRUE
      emit(v) == IF form.op = "addi" THEN Addi(rd, v, form.imm) ELSE RI("andi", rd, v, form.imm)
  IN  IF op \in {"div", "rem"} /\ IsPower(b)
      THEN Bring(a, "t0") \o DivisionByPower(op, Chosen(a, "t0"), b.n, rd)
      ELSE IF forms # {}
      THEN Bring(form.of, "t0") \o emit(Chosen(form.of, "t0"))
      ELSE TwoRegisters(op, rd, a, b)

LowerShift(op, a, amount, rd) ==
  Bring(a, "t0") \o RI(IF op = "shl" THEN "slli" ELSE "srai", rd, Chosen(a, "t0"), Power(amount))

-----------------------------------------------------------------------------
(* lower_icmp, and branches on comparisons and on other values *)

LowerIcmp(op, a, b, rd) ==
  LET slt(x, y) == RR("slt", rd, x, y)
      xor(x, y) == RR("xor", rd, x, y)
      l == Chosen(a, "t0")
      r == Chosen(b, "t1")
  IN  Bring(a, "t0") \o Bring(b, "t1")
      \o CASE op = "lt" -> slt(l, r)
           [] op = "gt" -> slt(r, l)
           [] op = "le" -> slt(r, l) \o RI("xori", rd, rd, 1)
           [] op = "ge" -> slt(l, r) \o RI("xori", rd, rd, 1)
           [] op = "eq" -> xor(l, r) \o RI("sltiu", rd, rd, 1)
           [] op = "ne" -> xor(l, r) \o RR("sltu", rd, "zero", rd)

Holds(op, l, r, to) ==
  CASE op = "eq" -> Branch("beq", l, r, to)
    [] op = "ne" -> Branch("bne", l, r, to)
    [] op = "lt" -> Branch("blt", l, r, to)
    [] op = "gt" -> Branch("blt", r, l, to)
    [] op = "le" -> Branch("bge", r, l, to)
    [] op = "ge" -> Branch("bge", l, r, to)

Fails(op, l, r, to) ==
  CASE op = "eq" -> Branch("bne", l, r, to)
    [] op = "ne" -> Branch("beq", l, r, to)
    [] op = "lt" -> Branch("bge", l, r, to)
    [] op = "gt" -> Branch("bge", r, l, to)
    [] op = "le" -> Branch("blt", r, l, to)
    [] op = "ge" -> Branch("blt", l, r, to)

\* The block that comes next is not jumped to: branch is "then" if that is the
\* true target, "else" if it is the false one, and "apart" if it is neither or
\* the edges have phi copies, which go between the branch and the jump.
BranchOn(op, l, r, branch) ==
  CASE branch = "then" -> Fails(op, l, r, "false")
    [] branch = "else" -> Holds(op, l, r, "true")
    [] branch = "apart" -> Holds(op, l, r, "true") \o Branch("j", "zero", "zero", "false")

FallsTo(branch) == IF branch = "then" THEN "true" ELSE "false"

LowerCompareBranch(op, a, b, branch) ==
  Bring(a, "t0") \o Bring(b, "t1") \o BranchOn(op, Chosen(a, "t0"), Chosen(b, "t1"), branch)

LowerCondBr(a, branch) ==
  Bring(a, "t0") \o BranchOn("ne", Chosen(a, "t0"), "zero", branch)

-----------------------------------------------------------------------------

Comparisons == {"eq", "ne", "lt", "gt", "le", "ge"}

\* lower_inst.  A condition is only read by the branch of its block.
Lowered(i) ==
  LET a == i.args[1]
      b == i.args[2]
      rd == Destination(i.res)
  IN  CASE i.op \in {"add", "sub", "mul", "div", "rem", "and"} ->
             LowerBinary(i.op, a, b, rd) \o Spill(i.res)
        [] i.op \in {"shl", "shr"} -> LowerShift(i.op, a, i.amount, rd) \o Spill(i.res)
        [] i.op = "neg" ->
             Bring(a, "t0") \o RR("sub", rd, "zero", Chosen(a, "t0")) \o Spill(i.res)
        [] i.op \in Comparisons /\ i.branch = "none" -> LowerIcmp(i.op, a, b, rd) \o Spill(i.res)
        [] i.op \in Comparisons /\ i.branch # "none" -> LowerCompareBranch(i.op, a, b, i.branch)
        [] i.op = "test" -> LowerCondBr(a, i.branch)

-----------------------------------------------------------------------------
(* The machine. *)

Operates(op, a, b) ==
  CASE op = "add" -> Wrap(a + b)
    [] op = "sub" -> Wrap(a - b)
    [] op = "mul" -> Wrap(a * b)
    [] op = "div" -> Divide(a, b)
    [] op = "rem" -> Remainder(a, b)
    [] op = "and" -> BitAnd(a, b)
    [] op = "xor" -> BitXor(a, b)
    [] op = "slt" -> Truth(a < b)
    [] op = "sltu" -> Truth(Unsigned(a) < Unsigned(b))

OperatesImmediate(op, a, imm) ==
  CASE op = "addi" -> Wrap(a + imm)
    [] op = "andi" -> BitAnd(a, imm)
    [] op = "xori" -> Operates("xor", a, imm)
    [] op = "sltiu" -> Truth(Unsigned(a) < Unsigned(imm))
    [] op = "slli" -> ShiftLeft(a, imm)
    [] op = "srai" -> ShiftRight(a, imm)
    [] op = "srli" -> ShiftRightZeros(a, imm)
    [] op = "lui" -> Wrap(imm * Page)

Taken(op, a, b) ==
  CASE op = "beq" -> a = b
    [] op = "bne" -> a # b
    [] op = "blt" -> a < b
    [] op = "bge" -> a >= b
    [] op = "j" -> TRUE

Now == code[pc]
Running(ops) == pc <= Len(code) /\ goes = "nowhere" /\ Now.op \in ops
Put(rd, n) == regs' = IF rd = "zero" THEN regs ELSE [regs EXCEPT ![rd] = n]

Register ==
  /\ Running({"add", "sub", "mul", "div", "rem", "and", "xor", "slt", "sltu"})
  /\ Put(Now.rd, Operates(Now.op, regs[Now.rs], regs[Now.rt]))
  /\ pc' = pc + 1
  /\ UNCHANGED <<inst, code, mem, start, goes>>

Immediate ==
  /\ Running({"addi", "andi", "xori", "sltiu", "slli", "srai", "srli", "lui"})
  /\ Put(Now.rd, OperatesImmediate(Now.op, regs[Now.rs], Now.imm))
  /\ pc' = pc + 1
  /\ UNCHANGED <<inst, code, mem, start, goes>>

Address == Wrap(regs[Now.rs] + Now.imm) - regs["sp"]

LoadWord ==
  /\ Running({"lw"})
  /\ Put(Now.rd, mem[Address])
  /\ pc' = pc + 1
  /\ UNCHANGED <<inst, code, mem, start, goes>>

StoreWord ==
  /\ Running({"sw"})
  /\ mem' = [mem EXCEPT ![Address] = regs[Now.rd]]
  /\ pc' = pc + 1
  /\ UNCHANGED <<inst, code, regs, start, goes>>

Jump ==
  /\ Running({"beq", "bne", "blt", "bge", "j"})
  /\ goes' = IF Taken(Now.op, regs[Now.rs], regs[Now.rt]) THEN Now.to ELSE goes
  /\ pc' = pc + 1
  /\ UNCHANGED <<inst, code, regs, mem, start>>

FallThrough ==
  /\ pc = Len(code) + 1
  /\ goes = "nowhere"
  /\ goes' = IF inst.branch = "none" THEN "next" ELSE FallsTo(inst.branch)
  /\ UNCHANGED <<inst, code, pc, regs, mem, start>>

Done == goes # "nowhere"
Stop == Done /\ UNCHANGED vars

Init ==
  /\ inst \in Instructions
  /\ start \in Starts
  /\ code = Lowered(inst)
  /\ pc = 1
  /\ regs = start.regs
  /\ mem = start.mem
  /\ goes = "nowhere"

Next == Register \/ Immediate \/ LoadWord \/ StoreWord \/ Jump \/ FallThrough \/ Stop

Spec == Init /\ [][Next]_vars

-----------------------------------------------------------------------------

TypeOK ==
  /\ regs \in [RegNames -> Word]
  /\ mem \in [Offsets -> Word]
  /\ regs["zero"] = 0
  /\ pc \in 1 .. Len(code) + 1
  /\ goes \in {"nowhere", "next", "true", "false"}

\* What an instruction means, of the values its operands have in a state.
Meaning(i, at) ==
  LET a == Held(i.args[1], at)
      b == Held(i.args[2], at)
  IN  CASE i.op \in {"add", "sub", "mul", "div", "rem", "and"} -> Operates(i.op, a, b)
        [] i.op = "shl" -> ShiftLeft(a, Power(i.amount))
        [] i.op = "shr" -> ShiftRight(a, Power(i.amount))
        [] i.op = "neg" -> Wrap(-a)
        [] i.op = "eq" -> Truth(a = b)
        [] i.op = "ne" -> Truth(a # b)
        [] i.op = "lt" -> Truth(a < b)
        [] i.op = "gt" -> Truth(a > b)
        [] i.op = "le" -> Truth(a <= b)
        [] i.op = "ge" -> Truth(a >= b)
        [] i.op = "test" -> Truth(a # 0)

\* Whatever the operands and wherever they are, the code leaves the value of the
\* instruction in its place, or takes the branch the comparison says: divisions
\* by shifts and additions of negated constants included, at the ends of the
\* range, too, and with operands and result in one register.
Delivers ==
  Done =>
    IF inst.branch = "none"
    THEN goes = "next" /\ Held(inst.res, [regs |-> regs, mem |-> mem]) = Meaning(inst, start)
    ELSE goes = (IF Meaning(inst, start) = 1 THEN "true" ELSE "false")

\* Only the place of the result and scratch registers are written: no other value
\* is lost, and the stack pointer stays.
Preserves ==
  /\ \A r \in Assigned \cup {"sp", "zero"} :
       regs[r] # start.regs[r] => inst.branch = "none" /\ inst.res = InReg(r)
  /\ \A offset \in Offsets :
       mem[offset] # start.mem[offset] => inst.branch = "none" /\ inst.res = InSlot(offset)
=============================================================================
