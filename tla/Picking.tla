------------------------------ MODULE Picking ------------------------------
(***************************************************************************)
(* The members of a sequence that stand at given places, in their order:   *)
(* what every loop of the compiler leaves that copies some elements of a   *)
(* list to a new one, or erases the others from it.                        *)
(***************************************************************************)
EXTENDS Naturals, FiniteSets

\* The members of s at the given places, in their order.
Picked(s, places) ==
  [k \in 1 .. Cardinality(places) |->
     s[CHOOSE i \in places : Cardinality({j \in places : j <= i}) = k]]
=============================================================================
