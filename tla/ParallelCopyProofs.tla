------------------------- MODULE ParallelCopyProofs -------------------------
(***************************************************************************)
(* The parallel-copy resolver is correct for every finite set of registers *)
(* and every request.  The argument:                                       *)
(*                                                                         *)
(*   1. When no waiting copy is ready, every waiting destination is read   *)
(*      by a waiting copy.  There are as many destinations as copies, so   *)
(*      every waiting copy reads a waiting destination (pigeonhole): none  *)
(*      reads the scratch register, which is free to be written.           *)
(*   2. So no move destroys a value a waiting copy has still to read       *)
(*      (SourcesIntact), and every register off the list is final          *)
(*      (SettledRegisters).  With the types these two are inductive.       *)
(*   3. An empty list then means that everything was copied, and the whole *)
(*      sequence implements one simultaneous assignment.                   *)
(*                                                                         *)
(* That the loop ends (Terminates) is left to the model checker.           *)
(***************************************************************************)
EXTENDS ParallelCopy, FiniteSetTheorems, TLAPS

\* When no waiting copy is ready, each of them reads the destination of a
\* waiting copy: the copies left form cycles of registers (the situation in
\* which emit_phi_copies and lower_call save a register in t2).
LEMMA BlockedCopiesReadDestinations ==
  ASSUME TypeOK, NoneReady, NEW d \in pending
  PROVE  source[d] \in pending
<1> DEFINE Readers == {e \in pending : source[e] \in pending}
           From == [e \in Readers |-> source[e]]
<1>1. IsFiniteSet(pending)
  BY RegsFinite, FS_Subset DEF TypeOK
<1>2. /\ Readers \subseteq pending
      /\ IsFiniteSet(Readers)
      /\ Cardinality(Readers) <= Cardinality(pending)
      /\ Cardinality(Readers) = Cardinality(pending) => Readers = pending
  BY <1>1, FS_Subset
<1>3. From \in Surjection(Readers, pending)
  <2>1. From \in [Readers -> pending]
    OBVIOUS
  <2>2. ASSUME NEW t \in pending
        PROVE  \E e \in Readers : From[e] = t
    BY DEF NoneReady, Ready
  <2>3. QED
    BY <2>1, <2>2 DEF Surjection
<1>4. Cardinality(pending) <= Cardinality(Readers)
  BY <1>2, <1>3, FS_Surjection
<1>5. Readers = pending
  BY <1>1, <1>2, <1>4, FS_CardinalityType
<1>6. QED
  BY <1>5

\* t2 is written only while no waiting copy reads it.
LEMMA BlockedCopiesSpareScratch ==
  ASSUME TypeOK, NoneReady, NEW d \in pending
  PROVE  source[d] # Scratch
BY BlockedCopiesReadDestinations, PlacesApart DEF TypeOK

-----------------------------------------------------------------------------

\* The list, the sources and the registers keep their types in every state of
\* the copy loops.
THEOREM TypeCorrect == Spec => []TypeOK
<1>1. Init => TypeOK
  BY DEF Init, TypeOK, Places
<1>2. TypeOK /\ [Next]_vars => TypeOK'
  <2> SUFFICES ASSUME TypeOK, [Next]_vars
               PROVE  TypeOK'
    OBVIOUS
  <2> USE DEF TypeOK, Places
  <2>1. ASSUME NEW d \in Regs, EmitReady(d)
        PROVE  TypeOK'
    BY <2>1 DEF EmitReady, Read
  <2>2. ASSUME NEW d \in Regs, BreakCycle(d)
        PROVE  TypeOK'
    BY <2>2 DEF BreakCycle
  <2>3. CASE UNCHANGED vars
    BY <2>3 DEF vars
  <2>4. QED
    BY <2>1, <2>2, <2>3 DEF Next, Finished
<1>3. QED
  BY <1>1, <1>2, PTL DEF Spec

\* The inductive invariant: types, sources and settled registers together.
Invariant == TypeOK /\ SourcesIntact /\ SettledRegisters

LEMMA InvariantInit == Init => Invariant
BY PlacesApart DEF Init, Invariant, TypeOK, SourcesIntact, SettledRegisters,
                   Places, Read

LEMMA InvariantStep == Invariant /\ [Next]_vars => Invariant'
<1> SUFFICES ASSUME Invariant, [Next]_vars
             PROVE  Invariant'
  OBVIOUS
<1>0. TypeOK /\ SourcesIntact /\ SettledRegisters
  BY DEF Invariant
<1>1. ASSUME NEW d \in Regs, EmitReady(d)
      PROVE  Invariant'
  <2>0. /\ d \in pending
        /\ hold' = [hold EXCEPT ![d] = Read(source[d])]
        /\ pending' = pending \ {d}
        /\ wanted' = wanted /\ source' = source
        /\ \A e \in pending \ {d} : source[e] # d
    BY <1>1 DEF EmitReady, Ready
  <2>1. TypeOK'
    BY <1>0, <2>0 DEF TypeOK, Places, Read
  <2>2. SourcesIntact'
    BY <1>0, <2>0 DEF TypeOK, SourcesIntact, Read, Places
  <2>3. SettledRegisters'
    BY <1>0, <2>0, PlacesApart
    DEF TypeOK, SourcesIntact, SettledRegisters
  <2>4. QED
    BY <2>1, <2>2, <2>3 DEF Invariant
<1>2. ASSUME NEW d \in Regs, BreakCycle(d)
      PROVE  Invariant'
  <2>0. /\ d \in pending
        /\ NoneReady
        /\ hold' = [hold EXCEPT ![Scratch] = hold[d]]
        /\ source' = [e \in Regs |->
                        IF e \in pending /\ source[e] = d THEN Scratch
                        ELSE source[e]]
        /\ wanted' = wanted /\ pending' = pending
    BY <1>2 DEF BreakCycle
  <2>1. TypeOK'
    BY <1>0, <2>0 DEF TypeOK
  <2>2. SourcesIntact'
    <3> SUFFICES ASSUME NEW e \in pending
                 PROVE  Read(source[e])' = wanted[e]
      BY <2>0 DEF SourcesIntact
    <3>1. source[e] # Scratch /\ e \in Regs
      BY <1>0, <2>0, BlockedCopiesSpareScratch DEF TypeOK
    <3>2. Read(source[e]) = wanted[e]
      BY <1>0 DEF SourcesIntact
    <3>3. CASE source[e] = d
      BY <1>0, <2>0, <3>1, <3>2, <3>3, PlacesApart DEF TypeOK, Read
    <3>4. CASE source[e] # d
      BY <1>0, <2>0, <3>1, <3>2, <3>4 DEF TypeOK, Read, Places
    <3>5. QED
      BY <3>3, <3>4
  <2>3. SettledRegisters'
    BY <1>0, <2>0, PlacesApart DEF TypeOK, SettledRegisters
  <2>4. QED
    BY <2>1, <2>2, <2>3 DEF Invariant
<1>3. CASE UNCHANGED vars
  BY <1>0, <1>3 DEF vars, Invariant, TypeOK, SourcesIntact, SettledRegisters,
                    Read
<1>4. QED
  BY <1>1, <1>2, <1>3 DEF Next, Finished

LEMMA InvariantHolds == Spec => []Invariant
BY InvariantInit, InvariantStep, PTL DEF Spec

\* No emitted move destroys a value some waiting copy has still to read.
THEOREM NoSourceLost == Spec => []SourcesIntact
<1>1. Invariant => SourcesIntact
  BY DEF Invariant
<1>2. QED
  BY <1>1, InvariantHolds, PTL

\* A register off the list has its final value.
THEOREM SettledForGood == Spec => []SettledRegisters
<1>1. Invariant => SettledRegisters
  BY DEF Invariant
<1>2. QED
  BY <1>1, InvariantHolds, PTL

\* t2 is saved into only while it is free.
THEOREM ScratchFree == Spec => ScratchIsFree
<1>1. Invariant /\ [Next]_vars
        => [hold'[Scratch] # hold[Scratch] =>
              \A d \in pending : source[d] # Scratch]_vars
  <2> SUFFICES ASSUME Invariant, [Next]_vars, hold'[Scratch] # hold[Scratch],
                      NEW d \in pending
               PROVE  source[d] # Scratch
    OBVIOUS
  <2>1. TypeOK
    BY DEF Invariant
  <2>2. ASSUME NEW e \in Regs, EmitReady(e)
        PROVE  FALSE
    BY <2>1, <2>2, PlacesApart DEF TypeOK, EmitReady
  <2>3. ASSUME NEW e \in Regs, BreakCycle(e)
        PROVE  source[d] # Scratch
    BY <2>1, <2>3, BlockedCopiesSpareScratch DEF BreakCycle
  <2>4. CASE UNCHANGED vars
    BY <2>4 DEF vars
  <2>5. QED
    BY <2>2, <2>3, <2>4 DEF Next, Finished
<1>2. QED
  BY <1>1, InvariantHolds, PTL DEF Spec, ScratchIsFree

\* The resolver implements the simultaneous assignment: its list becoming
\* empty is the abstract step, every other move is invisible.
THEOREM Refinement == Spec => ImplementsSimultaneousCopy
<1> DEFINE Shown == IF pending = {} THEN [r \in Regs |-> hold[r]]
                    ELSE [r \in Regs |-> r]
<1>1. Init => Simultaneous!Init
  BY PlacesApart DEF Init, Simultaneous!Init, Simultaneous!Places, Places
<1>2. Invariant /\ Invariant' /\ [Next]_vars
        => [Simultaneous!CopyAll]_<<wanted, Shown>>
  <2> SUFFICES ASSUME Invariant, Invariant', [Next]_vars
               PROVE  \/ Simultaneous!CopyAll
                      \/ wanted' = wanted /\ Shown' = Shown
    OBVIOUS
  <2>1. ASSUME NEW d \in Regs, EmitReady(d)
        PROVE  \/ Simultaneous!CopyAll
               \/ wanted' = wanted /\ Shown' = Shown
    <3>1. pending # {} /\ wanted' = wanted
      BY <2>1 DEF EmitReady
    <3>2. CASE pending' = {}
      <4>1. [r \in Regs |-> hold[r]]' = wanted'
        BY <3>2 DEF Invariant, TypeOK, SettledRegisters
      <4>2. QED
        BY <3>1, <3>2, <4>1 DEF Simultaneous!CopyAll
    <3>3. CASE pending' # {}
      BY <3>1, <3>3
    <3>4. QED
      BY <3>2, <3>3
  <2>2. ASSUME NEW d \in Regs, BreakCycle(d)
        PROVE  wanted' = wanted /\ Shown' = Shown
    BY <2>2 DEF BreakCycle
  <2>3. CASE UNCHANGED vars
    BY <2>3 DEF vars
  <2>4. QED
    BY <2>1, <2>2, <2>3 DEF Next, Finished
<1>3. QED
  BY <1>1, <1>2, InvariantHolds, PTL
  DEF Spec, ImplementsSimultaneousCopy, Simultaneous!Spec
=============================================================================
