---------------------------- MODULE ParallelCopy ----------------------------
(***************************************************************************)
(* The parallel-copy resolver of the RISC-V back end, which                *)
(* src/src/codegen/codegen.cpp holds twice: emit_phi_copies (the copies an *)
(* edge owes to the phis of its target) and lower_call (the moves of the   *)
(* arguments into a0-a7).  Both turn a set of copies that must look        *)
(* simultaneous into a sequence of register moves:                         *)
(*                                                                         *)
(*   - a copy whose destination no other waiting copy reads is emitted;    *)
(*   - when there is none, the destination of the first waiting copy is    *)
(*     saved in t2 and every copy that reads it reads t2 from then on.     *)
(*                                                                         *)
(* There is one t2.  Nothing in the code asks whether a save still holds a *)
(* value some copy waits for; that this never happens is a fact about the  *)
(* shape of the copies left when none is ready, proved in                  *)
(* ParallelCopyProofs.                                                     *)
(*                                                                         *)
(* A register content is named by the place that held it on entry, so that *)
(* the model says which value is where for every possible value.  The      *)
(* scans of the code take the first ready copy, and the front of the list, *)
(* in list order; the model takes any, which covers every order.           *)
(***************************************************************************)
EXTENDS FiniteSets

CONSTANTS
  Regs,     \* registers that values and arguments are allocated to
  Scratch,  \* t2, which the allocator never hands out
  Memory    \* incoming values without a register: stack slots, constants

ASSUME RegsFinite == IsFiniteSet(Regs)
ASSUME PlacesApart ==
  /\ Scratch \notin Regs
  /\ Scratch \notin Memory
  /\ Regs \cap Memory = {}

VARIABLES
  wanted,   \* the request: the place whose value each register must receive
  pending,  \* destinations of the copies still in the list
  source,   \* where each waiting copy reads from now (its forced source, if any)
  hold      \* contents of the registers and of the scratch register

vars == <<wanted, pending, source, hold>>

Places == Regs \cup Memory

\* The value a copy from place p loads.  load_i32 rebuilds a constant or
\* reloads a stack slot, neither of which a register move can disturb.
Read(p) == IF p \in Memory THEN p ELSE hold[p]

\* A register that no copy writes wants itself, as does a copy whose source
\* and destination are the same register: both are dropped from the list.
Init ==
  /\ wanted \in [Regs -> Places]
  /\ pending = {r \in Regs : wanted[r] # r}
  /\ source = wanted
  /\ hold = [r \in Regs \cup {Scratch} |-> r]

ReadyUnchecked(d) == TRUE  \* slip: emits in list order, whoever still reads d

Ready(d) == \A e \in pending \ {d} : source[e] # d

NoneReadyUnchecked == pending # {}  \* slip: saves although a copy is ready

NoneReady == pending # {} /\ \A d \in pending : ~Ready(d)

EmitReady(d) ==
  /\ d \in pending
  /\ Ready(d)
  /\ hold' = [hold EXCEPT ![d] = Read(source[d])]
  /\ pending' = pending \ {d}
  /\ UNCHANGED <<wanted, source>>

\* slip: saves the register and leaves its readers reading it
BreakCycleUnredirected(d) ==
  /\ d \in pending
  /\ NoneReady
  /\ hold' = [hold EXCEPT ![Scratch] = hold[d]]
  /\ UNCHANGED <<wanted, pending, source>>

\* slip: puts the save itself on the list of copies
BreakCycleQueued(d) ==
  /\ d \in pending
  /\ NoneReady
  /\ pending' = pending \cup {Scratch}
  /\ UNCHANGED <<wanted, source, hold>>

BreakCycle(d) ==
  /\ d \in pending
  /\ NoneReady
  /\ hold' = [hold EXCEPT ![Scratch] = hold[d]]
  /\ source' = [e \in Regs |->
                  IF e \in pending /\ source[e] = d THEN Scratch ELSE source[e]]
  /\ UNCHANGED <<wanted, pending>>

\* The loop ends with its list empty.
Finished == pending = {} /\ UNCHANGED vars

Next ==
  \/ \E d \in Regs : EmitReady(d)
  \/ \E d \in Regs : BreakCycle(d)
  \/ Finished

\* The compiler runs the loop without interruption.
Spec == Init /\ [][Next]_vars /\ WF_vars(Next)

-----------------------------------------------------------------------------

TypeOK ==
  /\ wanted \in [Regs -> Places]
  /\ pending \in SUBSET Regs
  /\ source \in [Regs -> Places \cup {Scratch}]
  /\ hold \in [Regs \cup {Scratch} -> Places \cup {Scratch}]

\* A move never destroys what a waiting copy still has to read: whatever was
\* emitted so far, each waiting copy finds the value it was asked to copy.
SourcesIntact == \A d \in pending : Read(source[d]) = wanted[d]

\* A register outside the list has its final value: the one asked for if its
\* copy was emitted, the one it came with if no copy writes it.
SettledRegisters == \A r \in Regs \ pending : hold[r] = wanted[r]

\* The single scratch register is saved into only while no waiting copy reads
\* it, although the code saves without looking.
ScratchIsFree == [][hold'[Scratch] # hold[Scratch] =>
                      \A d \in pending : source[d] # Scratch]_vars

\* The loop ends: a save into t2 always makes some copy ready.
Terminates == <>(pending = {})

\* Seen from outside, the whole sequence is one simultaneous assignment.
Simultaneous == INSTANCE SimultaneousCopy WITH
  contents <- IF pending = {} THEN [r \in Regs |-> hold[r]]
              ELSE [r \in Regs |-> r]

ImplementsSimultaneousCopy == Simultaneous!Spec
=============================================================================
