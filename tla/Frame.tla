------------------------------- MODULE Frame -------------------------------
(***************************************************************************)
(* The stack frame of a compiled function (class FunctionFrame,            *)
(* src/src/codegen/codegen.cpp), in words from the stack pointer up:       *)
(*                                                                         *)
(*   arguments passed on the stack to callees                              *)
(*   ra, if the function calls                                             *)
(*   one temporary per phi, for edges whose phis are not all in registers  *)
(*   register parameters that have no register of their own                *)
(*   results that have no register                                         *)
(*   callee-saved registers the function uses                              *)
(*   padding to four words; above it, in the caller's frame, the           *)
(*   parameters that came on the stack                                     *)
(***************************************************************************)
EXTENDS RegAlloc

Allocated(v) == regOf[v] # NoReg

ParamIndex(v) == IndexOf(fn.params, v)
OnStack(i) == i > Len(ARegs)

WordsOnStack(n) == IF n > Len(ARegs) THEN n - Len(ARegs) ELSE 0

\* slip: reserves only what the function's own parameters take
OutgoingWordsOwn == WordsOnStack(Len(fn.params))

\* The area is also as large as the function's own parameters on the stack.
OutgoingWords ==
  Max({WordsOnStack(Len(fn.params))} \cup
      {WordsOnStack(Len(At(fn, s).args)) :
         s \in {t \in Sites(fn) : At(fn, t).op = "call"}})

HasCall == \E s \in Sites(fn) : At(fn, s).op = "call"
RaOffset == OutgoingWords

TempBase == OutgoingWords + IF HasCall THEN 1 ELSE 0
TempCount ==
  Max({0} \cup {Cardinality(Phis(fn, b)) :
         b \in {c \in Blocks(fn) : \E phi \in Phis(fn, c) : ~Allocated(phi.res)}})

\* Register parameters kept in the frame, read or not.
HomeParams == {v \in Params(fn) : ~OnStack(ParamIndex(v)) /\ ~Allocated(v)}
ParamBase == TempBase + TempCount

\* slip: one home for all
ParamOffsetShared(v) == ParamBase

ParamOffset(v) ==
  ParamBase + Cardinality({u \in HomeParams : ParamIndex(u) < ParamIndex(v)})

\* slip: a result nobody reads gets no slot
SlottedIfRead ==
  {v \in Results(fn) : ~Allocated(v) /\ Uses(fn, v) # {} /\
                       ~(fn.opt /\ DirectCondition(fn, DefSite(fn, v)))}

\* Local variables, and the results kept in the frame.  With -opt the condition
\* of a branch is kept nowhere.
Slotted ==
  {v \in Results(fn) : ~Allocated(v) /\ ~(fn.opt /\ DirectCondition(fn, DefSite(fn, v)))}
SlotBase == ParamBase + Cardinality(HomeParams)
DefinedBefore(u, v) ==
  LET s == DefSite(fn, u)  t == DefSite(fn, v)
  IN  s[1] < t[1] \/ (s[1] = t[1] /\ s[2] < t[2])
SlotOffset(v) ==
  SlotBase + Cardinality({u \in Slotted : DefinedBefore(u, v)})

\* collect_used_callee_saved: a register belongs here once any value has it.
UsedCalleeSaved == {r \in ToSet(SRegs) : \E v \in DOMAIN regOf : regOf[v] = r}
SavedBase == SlotBase + Cardinality(Slotted)
SavedOffset(r) ==
  SavedBase + Cardinality({q \in UsedCalleeSaved :
                             IndexOf(SRegs, q) < IndexOf(SRegs, r)})

FrameSize == LET used == SavedBase + Cardinality(UsedCalleeSaved)
             IN  4 * ((used + 3) \div 4)

StackParamOffset(i) == FrameSize + (i - Len(ARegs) - 1)

-----------------------------------------------------------------------------

ASSUME InstructionsInOrder ==
  \A f \in Functions :
    /\ \A b \in Blocks(f) :
         Len(f.blocks[b]) \in Nat /\ DOMAIN f.blocks[b] = 1 .. Len(f.blocks[b])
    /\ \A s \in Sites(f) : Len(At(f, s).args) \in Nat

\* Whatever has which register: the areas of the frame are large enough for what
\* the code puts there and follow each other, no two things share a word of it,
\* and the parameters that came on the stack lie above it.
AreasApart ==
  /\ \A s \in Sites(fn) :
       At(fn, s).op = "call" => /\ WordsOnStack(Len(At(fn, s).args)) <= RaOffset
                                /\ RaOffset < TempBase
  /\ \A b \in Blocks(fn) :
       (\E phi \in Phis(fn, b) : ~Allocated(phi.res)) =>
         TempBase + Cardinality(Phis(fn, b)) <= ParamBase
  /\ \A v \in HomeParams :
       /\ ParamBase <= ParamOffset(v) /\ ParamOffset(v) < SlotBase
       /\ \A u \in HomeParams : ParamOffset(u) = ParamOffset(v) => u = v
  /\ \A v \in Slotted :
       /\ SlotBase <= SlotOffset(v) /\ SlotOffset(v) < SavedBase
       /\ \A u \in Slotted : SlotOffset(u) = SlotOffset(v) => u = v
  /\ \A r \in UsedCalleeSaved :
       /\ SavedBase <= SavedOffset(r) /\ SavedOffset(r) < FrameSize
       /\ \A q \in UsedCalleeSaved : SavedOffset(q) = SavedOffset(r) => q = r
  /\ 0 <= RaOffset /\ RaOffset <= TempBase /\ TempBase <= ParamBase /\ SavedBase <= FrameSize
  /\ \A i \in DOMAIN fn.params : OnStack(i) => FrameSize <= StackParamOffset(i)
=============================================================================
