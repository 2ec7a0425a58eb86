------------------------------ MODULE Liveness ------------------------------
(***************************************************************************)
(* The live-variable analysis at the head of plan_global_registers         *)
(* (src/src/codegen/codegen.cpp): the sets of values live into and out of  *)
(* each block, computed by sweeping the block list from its end until a    *)
(* sweep changes nothing.  The register allocator lets two values share a  *)
(* register when these sets say they are never live together, so a value   *)
(* the sets miss may be overwritten before it is read.                     *)
(***************************************************************************)
EXTENDS FunctionIR

CONSTANT Functions  \* the functions to compile

ASSUME BlocksInOrder ==
  \A f \in Functions : Len(f.blocks) \in Nat /\ DOMAIN f.blocks = 1 .. Len(f.blocks)

ASSUME TargetsAreBlocks ==
  \A f \in Functions : \A b \in Blocks(f) : Succs(f, b) \subseteq Blocks(f)

VARIABLES
  fn,       \* the function being compiled
  stage,    \* how far its code generation has come
  liveIn, liveOut,
  block,    \* the block the sweep visits next; 0 at the end of a sweep
  changed   \* whether this sweep changed a set

livenessVars == <<fn, stage, liveIn, liveOut, block, changed>>

\* Parameters and results that somebody reads.  A value read only by the
\* branch at the end of its block is left to the branch.
Candidates(f) ==
  {v \in Params(f) : Uses(f, v) # {}} \cup
  {v \in Results(f) : /\ Uses(f, v) # {}
                      /\ At(f, DefSite(f, v)).op # "alloca"
                      /\ ~DirectCondition(f, DefSite(f, v))}

BlockDef(f, b) ==
  {f.blocks[b][i].res : i \in DOMAIN f.blocks[b]} \cap Candidates(f)

\* slip: takes in every operand
BlockUseAny(f, b) ==
  {v \in SsaValues(f) :
     \E i \in DOMAIN f.blocks[b] :
       f.blocks[b][i].op # "phi" /\ v \in ToSet(f.blocks[b][i].args)}

\* Read by an instruction of the block other than a phi, before being defined.
BlockUse(f, b) ==
  {v \in Candidates(f) :
     \E i \in DOMAIN f.blocks[b] :
       /\ f.blocks[b][i].op # "phi"
       /\ v \in ToSet(f.blocks[b][i].args)
       /\ \A j \in 1 .. i - 1 : f.blocks[b][j].res # v}

\* Live on the edge b -> c given what is live into c.  The code goes through
\* the phis of c in order, each time erasing the phi and then adding the value
\* it takes on this edge; a value added for one phi is erased again when it is
\* itself a later phi of c.
EdgeLive(f, b, c, in) ==
  LET order == f.blocks[c]
      erasedLater(i) == \E j \in PhiSites(f, c) : j > i /\
                          order[j].res = Incoming(order[i], b)
  IN  (in \ {phi.res : phi \in Phis(f, c)}) \cup
      {Incoming(order[i], b) :
         i \in {k \in PhiSites(f, c) : /\ HasIncoming(order[k], b)
                                       /\ Incoming(order[k], b) \in Candidates(f)
                                       /\ ~erasedLater(k)}}

NewOut(b) == UNION {EdgeLive(fn, b, c, liveIn[c]) : c \in Succs(fn, b)}

\* slip: a definition does not end the range
NewInNoKill(b, out) == BlockUse(fn, b) \cup out

NewIn(b, out) == BlockUse(fn, b) \cup (out \ BlockDef(fn, b))

LivenessInit ==
  /\ fn \in Functions
  /\ stage = IF fn.opt THEN "liveness" ELSE "allocated"
  /\ liveIn = [b \in Blocks(fn) |-> {}]
  /\ liveOut = [b \in Blocks(fn) |-> {}]
  /\ block = Len(fn.blocks)
  /\ changed = FALSE

\* slip: a set that is not empty counts as changed
VisitBlockNonEmpty ==
  /\ stage = "liveness"
  /\ block # 0
  /\ liveOut' = [liveOut EXCEPT ![block] = NewOut(block)]
  /\ liveIn' = [liveIn EXCEPT ![block] = NewIn(block, NewOut(block))]
  /\ changed' = (changed \/ liveIn'[block] # {})
  /\ block' = block - 1
  /\ UNCHANGED <<fn, stage>>

VisitBlock ==
  /\ stage = "liveness"
  /\ block # 0
  /\ LET out == NewOut(block)
         in  == NewIn(block, out)
     IN  /\ liveOut' = [liveOut EXCEPT ![block] = out]
         /\ liveIn' = [liveIn EXCEPT ![block] = in]
         /\ changed' = (changed \/ out # liveOut[block] \/ in # liveIn[block])
  /\ block' = block - 1
  /\ UNCHANGED <<fn, stage>>

SweepAgain ==
  /\ stage = "liveness"
  /\ block = 0
  /\ changed
  /\ block' = Len(fn.blocks)
  /\ changed' = FALSE
  /\ UNCHANGED <<fn, stage, liveIn, liveOut>>

\* slip: one sweep is taken to be enough
LivenessDoneEarly ==
  /\ stage = "liveness"
  /\ block = 0
  /\ stage' = "interference"
  /\ UNCHANGED <<fn, liveIn, liveOut, block, changed>>

LivenessDone ==
  /\ stage = "liveness"
  /\ block = 0
  /\ ~changed
  /\ stage' = "interference"
  /\ UNCHANGED <<fn, liveIn, liveOut, block, changed>>

LivenessNext == VisitBlock \/ SweepAgain \/ LivenessDone

LivenessOver == stage # "liveness" /\ UNCHANGED livenessVars

\* The analysis on its own, which the compiler runs without interruption.
LivenessSpec ==
  LivenessInit /\ [][LivenessNext \/ LivenessOver]_livenessVars /\ WF_livenessVars(LivenessNext)

\* The analysis has run: without -opt it never does.
Analysed == fn.opt /\ stage # "liveness"

-----------------------------------------------------------------------------

LivenessTypeOK ==
  /\ liveIn \in [Blocks(fn) -> SUBSET Candidates(fn)]
  /\ liveOut \in [Blocks(fn) -> SUBSET Candidates(fn)]
  /\ block \in 0 .. Len(fn.blocks)
  /\ changed \in BOOLEAN

\* What the value read on an edge by a phi, or further on, asks of the sets.
NeededOnEdge(f, b, c, in) ==
  (in \ {phi.res : phi \in Phis(f, c)}) \cup
  ({Incoming(phi, b) : phi \in Phis(f, c)} \cap Candidates(f))

\* Once the sweeps have settled, the sets miss no value that some path still
\* reads: a value is live into a block that reads it or passes it on, and live
\* out of a block when a successor, or a phi of a successor, wants it.
LivenessCovers ==
  Analysed =>
    \A b \in Blocks(fn) :
      /\ BlockUse(fn, b) \cup (liveOut[b] \ BlockDef(fn, b)) \subseteq liveIn[b]
      /\ \A c \in Succs(fn, b) :
           NeededOnEdge(fn, b, c, liveIn[c]) \subseteq liveOut[b]

\* The blocks at whose end v is still wanted: some path of at most n edges
\* leads from there to a read of v, in a block or by a phi on the last edge,
\* and meets no definition of v on the way.
WantedWithin(f, v) ==
  LET wanted[n \in Nat] ==
        IF n = 0 THEN {}
        ELSE LET further == wanted[n - 1]
                 wantedBy(b, c) ==
                   \/ \E phi \in Phis(f, c) : HasIncoming(phi, b) /\ Incoming(phi, b) = v
                   \/ v \in BlockUse(f, c) \ {phi.res : phi \in Phis(f, c)}
                   \/ v \notin BlockDef(f, c) /\ c \in further
             IN  {b \in Blocks(f) : \E c \in Succs(f, b) : wantedBy(b, c)}
  IN  wanted[Len(f.blocks) + 1]

\* The sets hold no value that no path reads either: a value kept alive for
\* nothing would cost a register.
LivenessExact ==
  Analysed => \A b \in Blocks(fn) :
                liveOut[b] = {v \in Candidates(fn) : b \in WantedWithin(fn, v)}

\* The sweeps over the blocks come to an end.
LivenessEnds == <>(stage # "liveness")
=============================================================================
