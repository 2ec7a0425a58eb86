-------------------------- MODULE SimultaneousCopy --------------------------
(***************************************************************************)
(* What a batch of copies promises: every register of a request receives,  *)
(* at once, the value its requested place held before the batch.  This is  *)
(* the meaning of the phi instructions at the head of a block (all read    *)
(* on the edge, then all written) and of the argument list of a call.      *)
(*                                                                         *)
(* A value is named by the place that held it when the batch began.        *)
(***************************************************************************)
CONSTANTS
  Regs,     \* the registers a copy may write
  Memory    \* values that are in no register: stack slots and constants

VARIABLES
  wanted,   \* the place each register is to be loaded from; itself = leave it
  contents  \* the value each register holds

Places == Regs \cup Memory

Init ==
  /\ wanted \in [Regs -> Places]
  /\ contents = [r \in Regs |-> r]

CopyAll ==
  /\ contents = [r \in Regs |-> r]
  /\ contents' = wanted
  /\ UNCHANGED wanted

Spec == Init /\ [][CopyAll]_<<wanted, contents>>
=============================================================================
