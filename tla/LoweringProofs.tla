--------------------------- MODULE LoweringProofs ---------------------------
(***************************************************************************)
(* What liveness analysis, register allocation, the frame and the          *)
(* generated code guarantee, for every well-formed function and every set  *)
(* of registers.                                                           *)
(*                                                                         *)
(* The sweeps stop when one of them changes nothing.  The argument why the *)
(* sets then solve the dataflow equations is about the last sweep only: as *)
(* long as a sweep has changed nothing, each block it has passed satisfies *)
(* its equations, because they speak about sets that have not moved since. *)
(*                                                                         *)
(* Solving the equations is not yet covering every read: the code's        *)
(* equation for an edge loses a value which one phi reads and which is     *)
(* itself a later phi of the same block.  Without such phis nothing is     *)
(* lost.  And nothing is kept that no path reads: the sets grow from       *)
(* nothing, one step of such a path at a time, and the blocks from which   *)
(* it leads to a reader are those the definition counts (RecursionFacts).  *)
(*                                                                         *)
(* The graph is symmetric, for it joins the members of cliques, and a      *)
(* value is coloured once, with a register that no neighbour has: this is  *)
(* why neighbours stay apart as long as only the colouring hands out       *)
(* registers.  It also refuses a register only if the neighbours hold all  *)
(* those it would accept, which stays true for good because nobody gives a *)
(* register back.                                                          *)
(*                                                                         *)
(* Each area of the frame numbers its members by how many come before in   *)
(* some order; that two of them never get one number, and that none gets a *)
(* number beyond the area, is a fact about finite ordered sets (Ranks).    *)
(* What remains is that the orders used are total (DefinedBefore on the    *)
(* places of definitions, positions in a list of parameters or registers)  *)
(* and that the areas are finite.                                          *)
(*                                                                         *)
(* Then the code runs: types, the caller's registers, and, where none of   *)
(* the conditions under which the back end goes wrong is met, that every   *)
(* instruction reads the current values of its operands.                   *)
(***************************************************************************)
EXTENDS Lowering, RecursionFacts

-----------------------------------------------------------------------------
(* Liveness. *)

Solved(b) == liveOut[b] = NewOut(b) /\ liveIn[b] = NewIn(b, liveOut[b])

Settled ==
  /\ Analysed => \A b \in Blocks(fn) : Solved(b)
  /\ stage = "liveness" /\ ~changed => \A b \in Blocks(fn) : b > block => Solved(b)

LivenessInv == fn \in Functions /\ LivenessTypeOK /\ Settled

\* The sets computed for one block stay within the values that can be
\* allocated at all.
LEMMA SetsStayWithinCandidates ==
  ASSUME fn \in Functions, LivenessTypeOK, NEW b \in Blocks(fn)
  PROVE  /\ NewOut(b) \subseteq Candidates(fn)
         /\ NewIn(b, NewOut(b)) \subseteq Candidates(fn)
<1>1. NewOut(b) \subseteq Candidates(fn)
  <2>1. ASSUME NEW c \in Succs(fn, b)
        PROVE  EdgeLive(fn, b, c, liveIn[c]) \subseteq Candidates(fn)
    <3>1. liveIn[c] \subseteq Candidates(fn)
      BY <2>1, TargetsAreBlocks DEF LivenessTypeOK
    <3>2. QED
      BY <3>1 DEF EdgeLive
  <2>2. QED
    BY <2>1 DEF NewOut
<1>2. QED
  BY <1>1 DEF NewIn, BlockUse

LEMMA InitEstablishesLivenessInv == LivenessInit => LivenessInv
<1>1. SUFFICES ASSUME LivenessInit PROVE LivenessInv
  OBVIOUS
<1>2. Len(fn.blocks) \in Nat /\ Blocks(fn) = 1 .. Len(fn.blocks)
  BY <1>1, BlocksInOrder DEF LivenessInit, Blocks
<1>3. LivenessTypeOK
  <2>1. Len(fn.blocks) \in 0 .. Len(fn.blocks)
    BY <1>2
  <2>2. QED
    BY <1>1, <2>1 DEF LivenessInit, LivenessTypeOK
<1>4. Settled
  BY <1>1, <1>2 DEF LivenessInit, Settled, Analysed
<1>5. QED
  BY <1>1, <1>3, <1>4 DEF LivenessInit, LivenessInv

LEMMA VisitPreservesLivenessInv == LivenessInv /\ VisitBlock => LivenessInv'
<1> SUFFICES ASSUME LivenessInv, VisitBlock PROVE LivenessInv'
  OBVIOUS
<1>1. fn' = fn /\ fn \in Functions /\ stage' = stage /\ stage = "liveness"
  BY DEF LivenessInv, VisitBlock
<1>2. Len(fn.blocks) \in Nat /\ Blocks(fn) = 1 .. Len(fn.blocks)
  BY <1>1, BlocksInOrder DEF Blocks
<1>3. block \in Blocks(fn) /\ block' = block - 1 /\ block' \in 0 .. Len(fn.blocks)
  BY <1>2 DEF LivenessInv, LivenessTypeOK, VisitBlock
<1>4. NewOut(block) \subseteq Candidates(fn) /\ NewIn(block, NewOut(block)) \subseteq Candidates(fn)
  BY <1>1, <1>3, SetsStayWithinCandidates DEF LivenessInv
<1>5. LivenessTypeOK'
  BY <1>1, <1>3, <1>4 DEF LivenessInv, LivenessTypeOK, VisitBlock
<1>6. ASSUME ~changed'
      PROVE  /\ ~changed
             /\ liveIn' = liveIn /\ liveOut' = liveOut
             /\ Solved(block)
  <2>1. ~changed /\ NewOut(block) = liveOut[block] /\ NewIn(block, NewOut(block)) = liveIn[block]
    BY <1>6 DEF VisitBlock, LivenessInv, LivenessTypeOK
  <2>2. liveIn' = liveIn /\ liveOut' = liveOut
    BY <2>1, <1>3 DEF VisitBlock, LivenessInv, LivenessTypeOK
  <2>3. QED
    BY <2>1, <2>2 DEF Solved
<1>7. ASSUME ~changed', NEW b \in Blocks(fn), b > block'
      PROVE  Solved(b)'
  <2>1. b = block \/ b > block
    BY <1>2, <1>3, <1>7
  <2>2. Solved(b)
    BY <1>1, <1>6, <1>7, <2>1 DEF LivenessInv, Settled
  <2>3. QED
    BY <1>1, <1>6, <1>7, <2>2 DEF Solved, NewOut, NewIn
<1>8. Settled'
  BY <1>1, <1>7 DEF Settled, Analysed
<1>9. QED
  BY <1>1, <1>5, <1>8 DEF LivenessInv

LEMMA StepPreservesLivenessInv ==
  LivenessInv /\ [LivenessNext \/ LivenessOver]_livenessVars => LivenessInv'
<1> SUFFICES ASSUME LivenessInv, [LivenessNext \/ LivenessOver]_livenessVars PROVE LivenessInv'
  OBVIOUS
<1>1. Len(fn.blocks) \in Nat /\ Blocks(fn) = 1 .. Len(fn.blocks)
  BY BlocksInOrder DEF LivenessInv, Blocks
<1>2. CASE VisitBlock
  BY <1>2, VisitPreservesLivenessInv
<1>3. CASE SweepAgain
  <2>1. LivenessTypeOK'
    <3>1. Len(fn.blocks) \in 0 .. Len(fn.blocks)
      BY <1>1
    <3>2. QED
      BY <1>3, <3>1 DEF LivenessInv, LivenessTypeOK, SweepAgain
  <2>2. Settled'
    BY <1>1, <1>3 DEF LivenessInv, Settled, Analysed, SweepAgain
  <2>3. QED
    BY <1>3, <2>1, <2>2 DEF LivenessInv, SweepAgain
<1>4. CASE LivenessDone
  <2>1. \A b \in Blocks(fn) : Solved(b)
    BY <1>1, <1>4 DEF LivenessInv, Settled, LivenessDone
  <2>2. fn' = fn /\ \A b \in Blocks(fn) : Solved(b)'
    BY <1>4, <2>1 DEF LivenessDone, Solved, NewOut, NewIn
  <2>3. LivenessTypeOK'
    BY <1>4 DEF LivenessInv, LivenessTypeOK, LivenessDone
  <2>4. Settled'
    BY <1>4, <2>2 DEF Settled, Analysed, LivenessDone
  <2>5. QED
    BY <2>2, <2>3, <2>4 DEF LivenessInv
<1>5. CASE UNCHANGED livenessVars
  BY <1>5 DEF livenessVars, LivenessInv, LivenessTypeOK, Settled, Analysed, Solved, NewOut, NewIn
<1>6. QED
  BY <1>2, <1>3, <1>4, <1>5 DEF LivenessNext, LivenessOver

\* The sets always hold allocatable values of the blocks of the function, and
\* the sweep stays within the block list.
THEOREM LivenessTypeCorrect == LivenessSpec => []LivenessTypeOK
<1>1. LivenessInv => LivenessTypeOK
  BY DEF LivenessInv
<1>2. QED
  BY <1>1, InitEstablishesLivenessInv, StepPreservesLivenessInv, PTL DEF LivenessSpec

\* When the loop stops, every block satisfies the equation for what is live at
\* its end and the equation for what is live at its head.
THEOREM EquationsSolved ==
  LivenessSpec => [](Analysed => \A b \in Blocks(fn) : Solved(b))
<1>1. LivenessInv => (Analysed => \A b \in Blocks(fn) : Solved(b))
  BY DEF LivenessInv, Settled
<1>2. QED
  BY <1>1, InitEstablishesLivenessInv, StepPreservesLivenessInv, PTL DEF LivenessSpec

-----------------------------------------------------------------------------

\* Every phi has a value for every edge into its block, and no phi takes the
\* value of a later phi of its own block.
PhisReadBackwards(f) ==
  \A b \in Blocks(f) : \A c \in Succs(f, b) : \A i \in PhiSites(f, c) :
    /\ HasIncoming(f.blocks[c][i], b)
    /\ \A j \in PhiSites(f, c) : j > i => f.blocks[c][j].res # Incoming(f.blocks[c][i], b)

\* The equation of an edge then asks for everything the edge needs.
LEMMA EdgeLosesNothing ==
  ASSUME NEW f, PhisReadBackwards(f), NEW b \in Blocks(f), NEW c \in Succs(f, b), NEW in
  PROVE  NeededOnEdge(f, b, c, in) \subseteq EdgeLive(f, b, c, in)
<1>1. ASSUME NEW phi \in Phis(f, c), Incoming(phi, b) \in Candidates(f)
      PROVE  Incoming(phi, b) \in EdgeLive(f, b, c, in)
  <2>1. PICK i \in PhiSites(f, c) : phi = f.blocks[c][i]
    BY DEF Phis
  <2>2. HasIncoming(f.blocks[c][i], b)
        /\ \A j \in PhiSites(f, c) : j > i => f.blocks[c][j].res # Incoming(f.blocks[c][i], b)
    BY DEF PhisReadBackwards
  <2>3. QED
    BY <1>1, <2>1, <2>2 DEF EdgeLive
<1>2. QED
  BY <1>1 DEF NeededOnEdge, EdgeLive

LEMMA SolvedCovers ==
  ASSUME LivenessInv, PhisReadBackwards(fn)
  PROVE  LivenessCovers
<1> SUFFICES ASSUME Analysed, NEW b \in Blocks(fn)
             PROVE  /\ BlockUse(fn, b) \cup (liveOut[b] \ BlockDef(fn, b)) \subseteq liveIn[b]
                    /\ \A c \in Succs(fn, b) :
                         NeededOnEdge(fn, b, c, liveIn[c]) \subseteq liveOut[b]
  BY DEF LivenessCovers
<1>1. liveOut[b] = NewOut(b) /\ liveIn[b] = NewIn(b, liveOut[b])
  BY DEF LivenessInv, Settled, Solved
<1>2. ASSUME NEW c \in Succs(fn, b)
      PROVE  NeededOnEdge(fn, b, c, liveIn[c]) \subseteq liveOut[b]
  <2>1. NeededOnEdge(fn, b, c, liveIn[c]) \subseteq EdgeLive(fn, b, c, liveIn[c])
    BY EdgeLosesNothing
  <2>2. EdgeLive(fn, b, c, liveIn[c]) \subseteq liveOut[b]
    BY <1>1 DEF NewOut
  <2>3. QED
    BY <2>1, <2>2
<1>3. QED
  BY <1>1, <1>2 DEF NewIn

\* For such functions the analysis misses no value that some path still reads,
\* so the allocator never gives away a register that is still needed.
THEOREM NothingReadIsMissed ==
  ASSUME \A f \in Functions : PhisReadBackwards(f)
  PROVE  LivenessSpec => []LivenessCovers
<1>1. LivenessInv => LivenessCovers
  BY SolvedCovers DEF LivenessInv
<1>2. QED
  BY <1>1, InitEstablishesLivenessInv, StepPreservesLivenessInv, PTL DEF LivenessSpec

-----------------------------------------------------------------------------

\* One edge more: the blocks with a successor that wants v itself, or that
\* lets it through to one of the blocks in further.
WantedBy(f, v, b, c, further) ==
  \/ \E phi \in Phis(f, c) : HasIncoming(phi, b) /\ Incoming(phi, b) = v
  \/ v \in BlockUse(f, c) \ {phi.res : phi \in Phis(f, c)}
  \/ v \notin BlockDef(f, c) /\ c \in further

WantStep(f, v) ==
  [further \in SUBSET Blocks(f) |->
     {b \in Blocks(f) : \E c \in Succs(f, b) : WantedBy(f, v, b, c, further)}]

LEMMA WantStepMonotone == ASSUME NEW f, NEW v PROVE Monotone(Blocks(f), WantStep(f, v))
<1>1. WantStep(f, v) \in [SUBSET Blocks(f) -> SUBSET Blocks(f)]
  BY DEF WantStep
<1>2. ASSUME NEW X \in SUBSET Blocks(f), NEW Y \in SUBSET Blocks(f), X \subseteq Y
      PROVE  WantStep(f, v)[X] \subseteq WantStep(f, v)[Y]
  <2>1. \A b, c : WantedBy(f, v, b, c, X) => WantedBy(f, v, b, c, Y)
    BY <1>2 DEF WantedBy
  <2>2. QED
    BY <2>1 DEF WantStep
<1>3. QED
  BY <1>1, <1>2 DEF Monotone

\* The definition by the number of edges is that step, repeated.
LEMMA WantedIsChain ==
  ASSUME NEW f, NEW v, Len(f.blocks) \in Nat
  PROVE  \E g : /\ Chain(g, Blocks(f), {}, WantStep(f, v))
                /\ WantedWithin(f, v) = g[Len(f.blocks) + 1]
<1> DEFINE Body(g) ==
      [n \in Nat |->
         IF n = 0 THEN {}
         ELSE {b \in Blocks(f) : \E c \in Succs(f, b) :
                 \/ \E phi \in Phis(f, c) : HasIncoming(phi, b) /\ Incoming(phi, b) = v
                 \/ v \in BlockUse(f, c) \ {phi.res : phi \in Phis(f, c)}
                 \/ v \notin BlockDef(f, c) /\ c \in g[n - 1]}]
           w == CHOOSE g : g = Body(g)
<1>1. ASSUME NEW g, Chain(g, Blocks(f), {}, WantStep(f, v)) PROVE g = Body(g)
  <2>1. ASSUME NEW n \in Nat PROVE g[n] = Body(g)[n]
    <3>1. CASE n = 0
      BY <1>1, <3>1 DEF Chain
    <3>2. CASE n # 0
      <4>1. n - 1 \in Nat /\ (n - 1) + 1 = n
        BY <3>2
      <4>2. g[n] = WantStep(f, v)[g[n - 1]] /\ g[n - 1] \in SUBSET Blocks(f)
        BY <1>1, <4>1 DEF Chain
      <4>3. QED
        BY <3>2, <4>2 DEF WantStep, WantedBy
    <3>3. QED
      BY <3>1, <3>2
  <2>2. g \in [Nat -> SUBSET Blocks(f)]
    BY <1>1 DEF Chain
  <2>3. DOMAIN Body(g) = Nat /\ Body(g) = [n \in Nat |-> Body(g)[n]]
    OBVIOUS
  <2> HIDE DEF Body
  <2>4. QED
    BY <2>1, <2>2, <2>3
<1>2. \E g : g = Body(g)
  <2>1. WantStep(f, v) \in [SUBSET Blocks(f) -> SUBSET Blocks(f)]
    BY DEF WantStep
  <2>2. \E g : Chain(g, Blocks(f), {}, WantStep(f, v))
    BY <2>1, ChainExists
  <2> HIDE DEF Body
  <2>3. QED
    BY <1>1, <2>2
<1>3. w = Body(w)
  <2> HIDE DEF Body
  <2>1. QED
    BY <1>2
<1>4. WantedWithin(f, v) = w[Len(f.blocks) + 1]
  BY DEF WantedWithin
<1> HIDE DEF w
<1>5. Chain(w, Blocks(f), {}, WantStep(f, v))
  <2>1. w \in [Nat -> SUBSET Blocks(f)]
    BY <1>3
  <2>2. w[0] = {}
    BY <1>3
  <2>3. ASSUME NEW n \in Nat PROVE w[n + 1] = WantStep(f, v)[w[n]]
    <3>1. n + 1 \in Nat /\ n + 1 # 0 /\ (n + 1) - 1 = n
      OBVIOUS
    <3>2. Body(w)[n + 1] = WantStep(f, v)[w[n]]
      BY <2>1, <3>1 DEF WantStep, WantedBy
    <3>3. QED
      <4> HIDE DEF Body
      <4>1. QED
        BY <1>3, <3>2
  <2>4. QED
    BY <2>1, <2>2, <2>3 DEF Chain
<1>6. QED
  BY <1>4, <1>5

\* Paths longer than the function has blocks lead to nothing new, so the
\* blocks at whose end v is wanted are the least set closed under the step.
LEMMA WantedIsLeast ==
  ASSUME NEW f, NEW v, Len(f.blocks) \in Nat, DOMAIN f.blocks = 1 .. Len(f.blocks)
  PROVE  /\ WantedWithin(f, v) \in SUBSET Blocks(f)
         /\ WantStep(f, v)[WantedWithin(f, v)] = WantedWithin(f, v)
         /\ \A Y \in SUBSET Blocks(f) :
              WantStep(f, v)[Y] \subseteq Y => WantedWithin(f, v) \subseteq Y
<1> DEFINE n == Len(f.blocks) + 1
<1>1. PICK g : Chain(g, Blocks(f), {}, WantStep(f, v)) /\ WantedWithin(f, v) = g[n]
  BY WantedIsChain
<1>2. Monotone(Blocks(f), WantStep(f, v))
  BY WantStepMonotone
<1>3. IsFiniteSet(Blocks(f)) /\ Cardinality(Blocks(f)) = Len(f.blocks)
  <2>1. Blocks(f) = 1 .. Len(f.blocks)
    BY DEF Blocks
  <2>2. IsFiniteSet(1 .. Len(f.blocks))
        /\ Cardinality(1 .. Len(f.blocks)) = IF 1 > Len(f.blocks) THEN 0 ELSE Len(f.blocks) - 1 + 1
    <3>1. 1 \in Int /\ Len(f.blocks) \in Int
      OBVIOUS
    <3> HIDE DEF n
    <3>2. QED
      BY <3>1, FS_Interval, Zenon
  <2>3. IsFiniteSet(Blocks(f)) /\ Cardinality(Blocks(f)) = IF 1 > Len(f.blocks) THEN 0 ELSE Len(f.blocks) - 1 + 1
    BY <2>1, <2>2
  <2>4. (IF 1 > Len(f.blocks) THEN 0 ELSE Len(f.blocks) - 1 + 1) = Len(f.blocks)
    OBVIOUS
  <2>5. QED
    BY <2>3, <2>4
<1>4. n \in Nat /\ n >= Cardinality(Blocks(f))
  BY <1>3
<1>5. {} \in SUBSET Blocks(f) /\ {} \subseteq WantStep(f, v)[{}]
  OBVIOUS
<1> HIDE DEF n
<1>6. WantStep(f, v)[g[n]] = g[n]
  <2>1. \A m \in Nat : m >= Cardinality(Blocks(f)) => WantStep(f, v)[g[m]] = g[m]
    BY <1>1, <1>2, <1>3, <1>5, ChainSettles
  <2>2. QED
    BY <1>4, <2>1
<1>7. g[n] \in SUBSET Blocks(f)
  BY <1>1, <1>4 DEF Chain
<1>8. ASSUME NEW Y \in SUBSET Blocks(f), WantStep(f, v)[Y] \subseteq Y PROVE g[n] \subseteq Y
  BY <1>1, <1>2, <1>4, <1>8, ChainLeast
<1>9. QED
  BY <1>1, <1>6, <1>7, <1>8

\* Every value in the sets is wanted: at the end of the block, or at its head.
NothingInVain ==
  \A b \in Blocks(fn) :
    /\ \A v \in liveOut[b] : b \in WantedWithin(fn, v)
    /\ \A v \in liveIn[b] :
         v \in BlockUse(fn, b) \/ (v \notin BlockDef(fn, b) /\ b \in WantedWithin(fn, v))

LEMMA VisitAddsNothingInVain ==
  ASSUME LivenessInv, NothingInVain, VisitBlock
  PROVE  NothingInVain'
<1>1. fn' = fn /\ fn \in Functions /\ block \in Blocks(fn)
      /\ liveOut' = [liveOut EXCEPT ![block] = NewOut(block)]
      /\ liveIn' = [liveIn EXCEPT ![block] = NewIn(block, NewOut(block))]
  <2>1. Len(fn.blocks) \in Nat /\ Blocks(fn) = 1 .. Len(fn.blocks)
    BY BlocksInOrder DEF LivenessInv, Blocks
  <2>2. QED
    BY <2>1 DEF LivenessInv, LivenessTypeOK, VisitBlock
<1>2. ASSUME NEW v \in NewOut(block) PROVE block \in WantedWithin(fn, v)
  <2>1. PICK c \in Succs(fn, block) : v \in EdgeLive(fn, block, c, liveIn[c])
    BY <1>2 DEF NewOut
  <2>2. c \in Blocks(fn)
    BY <1>1, TargetsAreBlocks
  <2>3. WantedBy(fn, v, block, c, WantedWithin(fn, v))
    <3>1. CASE v \in liveIn[c] \ {phi.res : phi \in Phis(fn, c)}
      BY <2>2, <3>1 DEF NothingInVain, WantedBy
    <3>2. CASE v \notin liveIn[c] \ {phi.res : phi \in Phis(fn, c)}
      <4>1. PICK i \in PhiSites(fn, c) : /\ HasIncoming(fn.blocks[c][i], block)
                                         /\ v = Incoming(fn.blocks[c][i], block)
        BY <2>1, <3>2 DEF EdgeLive
      <4>2. fn.blocks[c][i] \in Phis(fn, c)
        BY DEF Phis
      <4>3. QED
        BY <4>1, <4>2 DEF WantedBy
    <3>3. QED
      BY <3>1, <3>2
  <2>4. WantedWithin(fn, v) \in SUBSET Blocks(fn)
        /\ WantStep(fn, v)[WantedWithin(fn, v)] = WantedWithin(fn, v)
    BY <1>1, BlocksInOrder, WantedIsLeast
  <2>5. block \in WantStep(fn, v)[WantedWithin(fn, v)]
    BY <1>1, <2>1, <2>3, <2>4 DEF WantStep
  <2>6. QED
    BY <2>4, <2>5
<1>3. ASSUME NEW v \in NewIn(block, NewOut(block))
      PROVE  v \in BlockUse(fn, block)
             \/ (v \notin BlockDef(fn, block) /\ block \in WantedWithin(fn, v))
  BY <1>2, <1>3 DEF NewIn
<1>4. ASSUME NEW b \in Blocks(fn)
      PROVE  /\ \A v \in liveOut'[b] : b \in WantedWithin(fn, v)
             /\ \A v \in liveIn'[b] :
                  v \in BlockUse(fn, b) \/ (v \notin BlockDef(fn, b) /\ b \in WantedWithin(fn, v))
  <2>1. CASE b = block
    <3>1. liveOut'[b] = NewOut(block) /\ liveIn'[b] = NewIn(block, NewOut(block))
      BY <1>1, <2>1 DEF LivenessInv, LivenessTypeOK
    <3>2. QED
      BY <1>2, <1>3, <2>1, <3>1
  <2>2. CASE b # block
    <3>1. liveOut'[b] = liveOut[b] /\ liveIn'[b] = liveIn[b]
      BY <1>1, <2>2 DEF LivenessInv, LivenessTypeOK
    <3>2. QED
      BY <3>1 DEF NothingInVain
  <2>3. QED
    BY <2>1, <2>2
<1>5. QED
  BY <1>1, <1>4 DEF NothingInVain

LEMMA InitNothingInVain == LivenessInit => NothingInVain
BY DEF LivenessInit, NothingInVain

LEMMA StepNothingInVain ==
  LivenessInv /\ NothingInVain /\ [LivenessNext \/ LivenessOver]_livenessVars => NothingInVain'
<1> SUFFICES ASSUME LivenessInv, NothingInVain, [LivenessNext \/ LivenessOver]_livenessVars
             PROVE  NothingInVain'
  OBVIOUS
<1>1. CASE VisitBlock
  BY <1>1, VisitAddsNothingInVain
<1>2. CASE UNCHANGED <<fn, liveIn, liveOut>>
  BY <1>2 DEF NothingInVain
<1>3. QED
  BY <1>1, <1>2 DEF LivenessNext, LivenessOver, SweepAgain, LivenessDone, livenessVars

\* However early the sweeps are looked at, and whatever the phis read: a value
\* in the set of a block is one that some path from the end of the block reads
\* before it is defined again.  No register is kept busy for nothing.
THEOREM NothingKeptInVain ==
  LivenessSpec => [](\A b \in Blocks(fn) : \A v \in liveOut[b] : b \in WantedWithin(fn, v))
<1>1. NothingInVain => \A b \in Blocks(fn) : \A v \in liveOut[b] : b \in WantedWithin(fn, v)
  BY DEF NothingInVain
<1>2. QED
  BY <1>1, InitEstablishesLivenessInv, StepPreservesLivenessInv, InitNothingInVain,
     StepNothingInVain, PTL DEF LivenessSpec

\* Sets that miss no value an equation asks for hold all that is wanted: the
\* blocks whose sets hold v are closed under the step.
LEMMA CoveringIsExact ==
  ASSUME LivenessInv, NothingInVain, LivenessCovers
  PROVE  LivenessExact
<1> SUFFICES ASSUME Analysed, NEW b \in Blocks(fn)
             PROVE  liveOut[b] = {v \in Candidates(fn) : b \in WantedWithin(fn, v)}
  BY DEF LivenessExact
<1>1. ASSUME NEW v \in liveOut[b] PROVE v \in Candidates(fn) /\ b \in WantedWithin(fn, v)
  BY DEF LivenessInv, LivenessTypeOK, NothingInVain
<1>2. ASSUME NEW v \in Candidates(fn), b \in WantedWithin(fn, v) PROVE v \in liveOut[b]
  <2> DEFINE Y == {d \in Blocks(fn) : v \in liveOut[d]}
  <2>1. ASSUME NEW d \in Blocks(fn), NEW c \in Succs(fn, d), WantedBy(fn, v, d, c, Y)
        PROVE  v \in liveOut[d]
    <3>1. c \in Blocks(fn)
      BY TargetsAreBlocks DEF LivenessInv
    <3>2. /\ BlockUse(fn, c) \cup (liveOut[c] \ BlockDef(fn, c)) \subseteq liveIn[c]
          /\ NeededOnEdge(fn, d, c, liveIn[c]) \subseteq liveOut[d]
      BY <3>1 DEF LivenessCovers
    <3>3. CASE \E phi \in Phis(fn, c) : Incoming(phi, d) = v
      BY <3>2, <3>3 DEF NeededOnEdge
    <3>4. CASE v \in BlockUse(fn, c) \ {phi.res : phi \in Phis(fn, c)}
      BY <3>2, <3>4 DEF NeededOnEdge
    <3>5. CASE v \notin BlockDef(fn, c) /\ c \in Y
      <4>1. v \in liveIn[c]
        BY <3>2, <3>5
      <4>2. v \notin {phi.res : phi \in Phis(fn, c)}
        BY <3>5 DEF BlockDef, Phis, PhiSites
      <4>3. QED
        BY <3>2, <4>1, <4>2 DEF NeededOnEdge
    <3>6. QED
      BY <2>1, <3>3, <3>4, <3>5 DEF WantedBy
  <2>2. Y \in SUBSET Blocks(fn)
    OBVIOUS
  <2> HIDE DEF Y
  <2>3. WantStep(fn, v)[Y] \subseteq Y
    <3>1. WantStep(fn, v)[Y]
            = {d \in Blocks(fn) : \E c \in Succs(fn, d) : WantedBy(fn, v, d, c, Y)}
      BY <2>2 DEF WantStep
    <3>2. QED
      BY <2>1, <3>1 DEF Y
  <2>4. WantedWithin(fn, v) \subseteq Y
    BY <2>2, <2>3, BlocksInOrder, WantedIsLeast DEF LivenessInv
  <2>5. QED
    BY <1>2, <2>4 DEF Y
<1>3. QED
  BY <1>1, <1>2

\* Where no phi reads a later phi of its block, the sets are, when the sweeps
\* have come to their end, exactly the values read further on: none is missed
\* and none is kept for nothing, along paths of every length.
THEOREM SweepsAreExact ==
  ASSUME \A f \in Functions : PhisReadBackwards(f)
  PROVE  LivenessSpec => []LivenessExact
<1>1. LivenessInv /\ NothingInVain => LivenessExact
  BY SolvedCovers, CoveringIsExact DEF LivenessInv
<1>2. QED
  BY <1>1, InitEstablishesLivenessInv, StepPreservesLivenessInv, InitNothingInVain,
     StepNothingInVain, PTL DEF LivenessSpec

-----------------------------------------------------------------------------
(* Register allocation. *)

LEMMA MinOfSet ==
  ASSUME NEW S \in SUBSET Nat, S # {}
  PROVE  Min(S) \in S /\ \A n \in S : Min(S) <= n
<1> DEFINE Less == {ss \in Nat \X Nat : ss[1] < ss[2]}
<1>1. IsWellFoundedOn(Less, Nat)
  BY NatLessThanWellFounded, Zenon DEF OpToRel
<1> HIDE DEF Less
<1>2. PICK x \in S : \A y \in S : <<y, x>> \notin Less
  BY <1>1, WFMin, Zenon
<1>3. ASSUME NEW y \in S PROVE x <= y
  <2>1. x \in Nat /\ y \in Nat
    OBVIOUS
  <2>2. <<y, x>> \in Nat \X Nat /\ <<y, x>> \notin Less
    BY <1>2, <2>1
  <2>3. ~(y < x)
    BY <2>2 DEF Less
  <2>4. QED
    BY <2>1, <2>3
<1>4. QED
  BY <1>3 DEF Min

LEMMA FirstFreeSound ==
  ASSUME NEW seq, seq \in Seq(ToSet(seq)), NEW taken
  PROVE  \/ FirstFree(seq, taken) = NoReg /\ ToSet(seq) \subseteq taken
         \/ FirstFree(seq, taken) \in ToSet(seq) \ taken
<1> DEFINE free == {i \in DOMAIN seq : seq[i] \notin taken}
<1>1. CASE ToSet(seq) \subseteq taken
  BY <1>1 DEF FirstFree
<1>2. CASE ~(ToSet(seq) \subseteq taken)
  <2>1. free \in SUBSET Nat /\ free # {}
    BY <1>2 DEF ToSet
  <2>2. Min(free) \in free
    BY <2>1, MinOfSet
  <2>3. QED
    BY <1>2, <2>2 DEF FirstFree, ToSet
<1>3. QED
  BY <1>1, <1>2

LEMMA Appended ==
  ASSUME NEW s, s \in Seq(ToSet(s)), NEW t, t \in Seq(ToSet(t))
  PROVE  /\ s \o t \in Seq(ToSet(s \o t))
         /\ ToSet(s \o t) = ToSet(s) \cup ToSet(t)
<1>1. s \o t \in Seq(ToSet(s) \cup ToSet(t))
  OBVIOUS
<1>2. ToSet(s \o t) = ToSet(s) \cup ToSet(t)
  <2>1. ToSet(s \o t) \subseteq ToSet(s) \cup ToSet(t)
    BY <1>1 DEF ToSet
  <2>2. ASSUME NEW i \in DOMAIN s PROVE s[i] \in ToSet(s \o t)
    BY i \in DOMAIN (s \o t) /\ (s \o t)[i] = s[i] DEF ToSet
  <2>3. ASSUME NEW i \in DOMAIN t PROVE t[i] \in ToSet(s \o t)
    BY i + Len(s) \in DOMAIN (s \o t) /\ (s \o t)[i + Len(s)] = t[i] DEF ToSet
  <2>4. QED
    BY <2>1, <2>2, <2>3 DEF ToSet
<1>3. QED
  BY <1>1, <1>2
-----------------------------------------------------------------------------

LEMMA RegisterLists ==
  /\ TRegs \in Seq(ToSet(TRegs)) /\ ARegs \in Seq(ToSet(ARegs)) /\ SRegs \in Seq(ToSet(SRegs))
  /\ Registers = ToSet(TRegs) \cup ToSet(ARegs) \cup ToSet(SRegs)
  /\ NoReg \notin Registers
<1>1. TRegs \in Seq(ToSet(TRegs)) /\ ARegs \in Seq(ToSet(ARegs)) /\ SRegs \in Seq(ToSet(SRegs))
  BY RegisterSequences
<1>2. TRegs \o ARegs \in Seq(ToSet(TRegs \o ARegs))
      /\ ToSet(TRegs \o ARegs) = ToSet(TRegs) \cup ToSet(ARegs)
  BY <1>1, Appended
<1>3. ToSet((TRegs \o ARegs) \o SRegs) = ToSet(TRegs \o ARegs) \cup ToSet(SRegs)
  BY <1>1, <1>2, Appended
<1>4. QED
  BY <1>1, <1>2, <1>3, RegistersApart DEF Registers

LEMMA PreferredRegisters ==
  ASSUME fn \in Functions, NEW v
  PROVE  /\ Preferences(v) \in Seq(ToSet(Preferences(v)))
         /\ ToSet(Preferences(v)) \subseteq Registers
         /\ v \in crossing => ToSet(Preferences(v)) = ToSet(SRegs)
         /\ v \notin crossing => ToSet(TRegs) \subseteq ToSet(Preferences(v))
<1>1. CASE v \in crossing
  BY <1>1, RegisterLists DEF Preferences
<1>2. CASE v \notin crossing
  <2> DEFINE own == IF v \in Params(fn) /\ IndexOf(fn.params, v) <= Len(ARegs)
                    THEN <<ARegs[IndexOf(fn.params, v)]>> ELSE <<>>
  <2>1. own \in Seq(ToSet(own)) /\ ToSet(own) \subseteq Registers
    <3>1. CASE v \in Params(fn) /\ IndexOf(fn.params, v) <= Len(ARegs)
      <4>1. IndexOf(fn.params, v) \in DOMAIN fn.params
        BY <3>1 DEF Params, ToSet, IndexOf
      <4>2. fn.params \in Seq(ToSet(fn.params))
        BY ParamsInOrder
      <4>3. IndexOf(fn.params, v) \in DOMAIN ARegs
        BY <3>1, <4>1, <4>2, RegisterLists
      <4>4. ARegs[IndexOf(fn.params, v)] \in Registers
        BY <4>3, RegisterLists DEF ToSet
      <4>5. own = <<ARegs[IndexOf(fn.params, v)]>>
        BY <3>1
      <4>6. QED
        BY <4>4, <4>5 DEF ToSet
    <3>2. CASE ~(v \in Params(fn) /\ IndexOf(fn.params, v) <= Len(ARegs))
      <4>1. own = << >>
        BY <3>2
      <4>2. QED
        BY <4>1 DEF ToSet
    <3>3. QED
      BY <3>1, <3>2
  <2> HIDE DEF own
  <2>2. own \o TRegs \in Seq(ToSet(own \o TRegs))
        /\ ToSet(own \o TRegs) = ToSet(own) \cup ToSet(TRegs)
    BY <2>1, RegisterLists, Appended
  <2>3. (own \o TRegs) \o ARegs \in Seq(ToSet((own \o TRegs) \o ARegs))
        /\ ToSet((own \o TRegs) \o ARegs) = ToSet(own \o TRegs) \cup ToSet(ARegs)
    BY <2>2, RegisterLists, Appended
  <2>4. ((own \o TRegs) \o ARegs) \o SRegs \in Seq(ToSet(((own \o TRegs) \o ARegs) \o SRegs))
        /\ ToSet(((own \o TRegs) \o ARegs) \o SRegs) =
             ToSet((own \o TRegs) \o ARegs) \cup ToSet(SRegs)
    BY <2>3, RegisterLists, Appended
  <2>5. Preferences(v) = ((own \o TRegs) \o ARegs) \o SRegs
    BY <1>2 DEF Preferences, own
  <2>6. QED
    BY <1>2, <2>1, <2>2, <2>3, <2>4, <2>5, RegisterLists
<1>3. QED
  BY <1>1, <1>2
-----------------------------------------------------------------------------

BeforeColouring == {"liveness", "interference"}
BeforeScan == BeforeColouring \cup {"colouring"}
BeforeCaching == BeforeScan \cup {"scanning"}

Typed ==
  /\ fn \in Functions
  /\ regOf \in [SsaValues(fn) \cup Literals -> Registers \cup {NoReg}]
  /\ graph \in [Candidates(fn) -> SUBSET Candidates(fn)]
  /\ crossing \subseteq Candidates(fn)
  /\ uncoloured \subseteq Candidates(fn)

Symmetric == \A u \in Candidates(fn) : \A v \in graph[u] : v # u /\ u \in graph[v]

ColouredOnce ==
  /\ stage \in BeforeColouring => uncoloured = Candidates(fn)
  /\ stage \in BeforeScan => \A v \in uncoloured : regOf[v] = NoReg
  /\ stage \in {"scanning", "caching"} => uncoloured = {}

CrossingKept ==
  stage \in BeforeScan => \A v \in crossing : regOf[v] \in ToSet(SRegs) \cup {NoReg}

RefusedForNeighbours ==
  \A v \in Candidates(fn) \ uncoloured :
    regOf[v] = NoReg => ToSet(Preferences(v)) \subseteq {regOf[u] : u \in graph[v]}

LiteralsWait == stage \in BeforeCaching => \A c \in Literals : regOf[c] = NoReg

Inv ==
  /\ Typed
  /\ Symmetric
  /\ ColouredOnce
  /\ stage \in BeforeScan => NeighboursApart
  /\ CrossingKept
  /\ RefusedForNeighbours
  /\ LiteralsWait
  /\ CachedLiteralsAlone

LEMMA CandidatesAreValues ==
  ASSUME NEW f
  PROVE  Candidates(f) \subseteq SsaValues(f)
BY DEF Candidates, SsaValues

LEMMA InitEstablishesInv == AllocInit => Inv
<1> SUFFICES ASSUME AllocInit PROVE Inv
  OBVIOUS
<1>1. Typed
  BY DEF AllocInit, LivenessInit, Typed
<1>2. \A v \in Candidates(fn) \cup Literals : regOf[v] = NoReg
  BY CandidatesAreValues DEF AllocInit
<1>3. uncoloured = Candidates(fn) /\ crossing = {}
  BY DEF AllocInit
<1>4. graph = [v \in Candidates(fn) |-> {}]
  BY DEF AllocInit
<1>5. Symmetric /\ NeighboursApart
  BY <1>4 DEF Symmetric, NeighboursApart
<1>6. ColouredOnce /\ CrossingKept /\ RefusedForNeighbours /\ LiteralsWait /\ CachedLiteralsAlone
  BY <1>2, <1>3 DEF AllocInit, LivenessInit, ColouredOnce, CrossingKept, RefusedForNeighbours, LiteralsWait,
                    CachedLiteralsAlone
<1>7. QED
  BY <1>1, <1>5, <1>6 DEF Inv

\* A register given to one more value does not undo a refusal: whoever held a
\* register before still holds it.
LEMMA RefusalsLast ==
  ASSUME Typed, RefusedForNeighbours,
         NEW x, regOf[x] = NoReg, NEW r, regOf' = [regOf EXCEPT ![x] = r],
         fn' = fn, graph' = graph, crossing' = crossing,
         NEW v \in Candidates(fn), v \notin uncoloured, regOf[v] = NoReg
  PROVE  ToSet(Preferences(v)') \subseteq {regOf'[u] : u \in graph[v]}
<1>1. Preferences(v)' = Preferences(v)
  BY DEF Preferences
<1>2. SUFFICES ASSUME NEW chosen \in ToSet(Preferences(v))
               PROVE  \E u \in graph[v] : regOf'[u] = chosen
  BY <1>1
<1>3. PICK u \in graph[v] : regOf[u] = chosen
  BY DEF RefusedForNeighbours
<1>4. chosen # NoReg
  BY PreferredRegisters, RegisterLists DEF Typed
<1>5. u \in DOMAIN regOf /\ u # x
  BY <1>3, <1>4, CandidatesAreValues DEF Typed
<1>6. QED
  BY <1>3, <1>5 DEF Typed
LEMMA BuildGraphPreservesInv == Inv /\ BuildGraph => Inv'
<1> SUFFICES ASSUME Inv, BuildGraph PROVE Inv'
  OBVIOUS
<1> USE DEF Inv
<1>1. stage = "interference" /\ stage' = "colouring"
      /\ fn' = fn /\ regOf' = regOf /\ uncoloured' = uncoloured
  BY DEF BuildGraph
<1>2. uncoloured = Candidates(fn) /\ \A v \in Candidates(fn) : regOf[v] = NoReg
  BY <1>1 DEF ColouredOnce, BeforeColouring, BeforeScan
<1>3. \A b, i : LiveAfter(b, i) \subseteq Candidates(fn)
  BY DEF LiveAfter
<1>4. \A c \in Cliques : c \subseteq Candidates(fn)
  BY <1>3 DEF Cliques
<1>5. graph' = [v \in Candidates(fn) |-> (UNION {c \in Cliques : v \in c}) \ {v}]
  BY DEF BuildGraph
<1>6. crossing' \subseteq Candidates(fn)
  BY <1>3 DEF BuildGraph
<1>7. Typed'
  BY <1>1, <1>4, <1>5, <1>6 DEF Typed
<1>8. Symmetric'
  <2>1. SUFFICES ASSUME NEW u \in Candidates(fn), NEW v \in graph'[u]
                 PROVE  v # u /\ u \in graph'[v]
    BY <1>1 DEF Symmetric
  <2>2. \A w \in Candidates(fn) : graph'[w] = (UNION {c \in Cliques : w \in c}) \ {w}
    BY <1>5
  <2>3. v # u /\ v \in UNION {c \in Cliques : u \in c}
    BY <2>1, <2>2
  <2>4. PICK c \in Cliques : u \in c /\ v \in c
    BY <2>3
  <2>5. v \in Candidates(fn)
    BY <1>4, <2>4
  <2>6. u \in (UNION {d \in Cliques : v \in d}) \ {v}
    BY <2>3, <2>4
  <2>7. QED
    BY <2>2, <2>3, <2>5, <2>6
<1>9. NeighboursApart'
  BY <1>1, <1>2 DEF NeighboursApart
<1>10. ColouredOnce' /\ RefusedForNeighbours' /\ CrossingKept'
  BY <1>1, <1>2, <1>6 DEF ColouredOnce, RefusedForNeighbours, CrossingKept, BeforeColouring
<1>11. LiteralsWait' /\ CachedLiteralsAlone'
  BY <1>1 DEF LiteralsWait, CachedLiteralsAlone, BeforeCaching, BeforeScan, BeforeColouring
<1>12. QED
  BY <1>7, <1>8, <1>9, <1>10, <1>11

LEMMA ColourPreservesInv ==
  ASSUME Inv, NEW x \in uncoloured, Colour(x)
  PROVE  Inv'
<1> USE DEF Inv
<1> DEFINE taken == {regOf[u] : u \in graph[x]}
           r == FirstFree(Preferences(x), taken)
<1>1. /\ stage = "colouring" /\ stage' = stage
      /\ fn' = fn /\ graph' = graph /\ crossing' = crossing
      /\ regOf' = [regOf EXCEPT ![x] = r] /\ uncoloured' = uncoloured \ {x}
  BY DEF Colour, livenessVars
<1>2. x \in Candidates(fn) /\ x \in DOMAIN regOf /\ x \notin Literals /\ regOf[x] = NoReg
  BY <1>1, CandidatesAreValues, LiteralsAreNoValues
     DEF Typed, ColouredOnce, BeforeScan
<1>3. Preferences(x)' = Preferences(x)
  BY <1>1 DEF Preferences
<1>4. \/ r = NoReg /\ ToSet(Preferences(x)) \subseteq taken
      \/ r \in ToSet(Preferences(x)) \ taken
  BY FirstFreeSound, PreferredRegisters DEF Typed
<1>5. r \in Registers \cup {NoReg} /\ regOf'[x] = r
      /\ \A w \in DOMAIN regOf : w # x => regOf'[w] = regOf[w]
  BY <1>1, <1>2, <1>4, PreferredRegisters DEF Typed
<1> HIDE DEF r
<1>6. Typed' /\ Symmetric'
  BY <1>1, <1>5 DEF Typed, Symmetric
<1>7. ColouredOnce'
  BY <1>1, <1>5, CandidatesAreValues DEF ColouredOnce, BeforeScan, BeforeColouring, Typed
<1>8. NeighboursApart'
  <2>1. SUFFICES ASSUME NEW u \in Candidates(fn), NEW v \in graph[u], regOf'[u] # NoReg
                 PROVE  regOf'[u] # regOf'[v]
    BY <1>1 DEF NeighboursApart
  <2>2. u # v /\ u \in graph[v] /\ v \in Candidates(fn)
        /\ u \in DOMAIN regOf /\ v \in DOMAIN regOf
    BY <2>1, CandidatesAreValues DEF Symmetric, Typed
  <2>3. CASE u = x
    BY <1>4, <1>5, <2>1, <2>2, <2>3
  <2>4. CASE v = x
    BY <1>4, <1>5, <2>1, <2>2, <2>4
  <2>5. CASE u # x /\ v # x
    BY <1>1, <1>5, <2>1, <2>2, <2>5 DEF NeighboursApart, BeforeScan
  <2>6. QED
    BY <2>3, <2>4, <2>5
<1>9. CrossingKept'
  BY <1>1, <1>4, <1>5, PreferredRegisters, CandidatesAreValues
     DEF CrossingKept, BeforeScan, Typed
<1>10. RefusedForNeighbours'
  <2>1. SUFFICES ASSUME NEW v \in Candidates(fn) \ uncoloured', regOf'[v] = NoReg
                 PROVE  ToSet(Preferences(v)') \subseteq {regOf'[u] : u \in graph[v]}
    BY <1>1 DEF RefusedForNeighbours
  <2>2. CASE v = x
    <3>1. \A u \in graph[x] : u # x /\ u \in DOMAIN regOf
      BY <1>2, CandidatesAreValues DEF Symmetric, Typed
    <3>2. taken = {regOf'[u] : u \in graph[x]}
      BY <1>5, <3>1
    <3>3. ToSet(Preferences(x)) \subseteq taken
      BY <1>4, <1>5, <2>1, <2>2, PreferredRegisters, RegisterLists DEF Typed
    <3>4. QED
      BY <1>3, <2>2, <3>2, <3>3
  <2>3. CASE v # x
    BY <1>1, <1>2, <1>5, <2>1, <2>3, RefusalsLast, CandidatesAreValues DEF Typed
  <2>4. QED
    BY <2>2, <2>3
<1>11. LiteralsWait' /\ CachedLiteralsAlone'
  <2>1. \A c \in Literals : regOf'[c] = NoReg
    BY <1>1, <1>2, <1>5 DEF LiteralsWait, BeforeCaching, BeforeScan, Typed
  <2>2. QED
    BY <2>1 DEF LiteralsWait, CachedLiteralsAlone
<1>12. QED
  BY <1>6, <1>7, <1>8, <1>9, <1>10, <1>11
\* A step after the colouring, which gives one register to one more value.
LEMMA LateRegisterPreservesInv ==
  ASSUME Inv, stage \in {"scanning", "caching"}, stage' = stage,
         fn' = fn, graph' = graph, crossing' = crossing, uncoloured' = uncoloured,
         NEW x, regOf[x] = NoReg,
         NEW chosen \in Registers, regOf' = [regOf EXCEPT ![x] = chosen],
         LiteralsWait', CachedLiteralsAlone'
  PROVE  Inv'
<1> USE DEF Inv
<1>1. Typed' /\ Symmetric'
  BY DEF Typed, Symmetric
<1>2. stage' \notin BeforeScan /\ stage' \notin BeforeColouring
  BY DEF BeforeScan, BeforeColouring
<1>3. ColouredOnce' /\ CrossingKept'
  BY <1>2 DEF ColouredOnce, CrossingKept
<1>4. RefusedForNeighbours'
  <2>1. SUFFICES ASSUME NEW v \in Candidates(fn) \ uncoloured, regOf'[v] = NoReg
                 PROVE  ToSet(Preferences(v)') \subseteq {regOf'[u] : u \in graph[v]}
    BY DEF RefusedForNeighbours
  <2>2. regOf[v] = NoReg
    BY <2>1, RegisterLists, CandidatesAreValues DEF Typed
  <2>3. QED
    BY <2>1, <2>2, RefusalsLast
<1>5. QED
  BY <1>1, <1>2, <1>3, <1>4

LEMMA ScanSitePreservesInv == Inv /\ ScanSite => Inv'
<1> SUFFICES ASSUME Inv, ScanSite PROVE Inv'
  OBVIOUS
<1> DEFINE live == {v \in active : DefSite(fn, v)[1] = scan[1]
                                   /\ LastUse(DefSite(fn, v)) >= scan[2]}
           chosen == FirstFree(TRegs, {regOf[v] : v \in live})
           v == At(fn, scan).res
<1>1. /\ stage = "scanning" /\ stage' = stage /\ scan \in Sites(fn)
      /\ fn' = fn /\ graph' = graph /\ crossing' = crossing /\ uncoloured' = uncoloured
  BY DEF ScanSite, livenessVars
<1>2. CASE Eligible(scan) /\ chosen # NoReg
  <2>1. regOf' = [regOf EXCEPT ![v] = chosen] /\ regOf[v] = NoReg
    BY <1>2 DEF ScanSite, Eligible
  <2>2. chosen \in Registers
    BY <1>2, FirstFreeSound, RegisterLists
  <2>3. v \notin Literals
    BY <1>1, LiteralsAreNoValues DEF Inv, Typed, SsaValues, Results
  <2> HIDE DEF chosen, v
  <2>4. \A c \in Literals : regOf'[c] = NoReg
    BY <1>1, <2>1, <2>3 DEF Inv, Typed, LiteralsWait, BeforeCaching
  <2>5. LiteralsWait' /\ CachedLiteralsAlone'
    BY <2>4 DEF LiteralsWait, CachedLiteralsAlone
  <2>6. QED
    BY <1>1, <2>1, <2>2, <2>5, LateRegisterPreservesInv
<1>3. CASE ~(Eligible(scan) /\ chosen # NoReg)
  <2>1. regOf' = regOf
    BY <1>3 DEF ScanSite
  <2>2. QED
    BY <1>1, <2>1 DEF Inv, Typed, Symmetric, ColouredOnce, NeighboursApart, CrossingKept,
                      RefusedForNeighbours, Preferences, LiteralsWait, CachedLiteralsAlone
<1>4. QED
  BY <1>2, <1>3

LEMMA CacheLiteralPreservesInv ==
  ASSUME Inv, NEW c \in Literals, CacheLiteral(c)
  PROVE  Inv'
<1> DEFINE chosen == FirstFree(TRegs, {regOf[v] : v \in DOMAIN regOf})
<1>1. /\ stage = "caching" /\ stage' = stage
      /\ fn' = fn /\ graph' = graph /\ crossing' = crossing /\ uncoloured' = uncoloured
      /\ regOf[c] = NoReg /\ chosen # NoReg /\ regOf' = [regOf EXCEPT ![c] = chosen]
  BY DEF CacheLiteral, livenessVars
<1>2. chosen \in Registers /\ \A v \in DOMAIN regOf : regOf[v] # chosen
  BY <1>1, FirstFreeSound, RegisterLists
<1> HIDE DEF chosen
<1>3. LiteralsWait'
  BY <1>1 DEF LiteralsWait, BeforeCaching, BeforeScan, BeforeColouring
<1>4. CachedLiteralsAlone'
  BY <1>1, <1>2 DEF Inv, Typed, CachedLiteralsAlone
<1>5. QED
  BY <1>1, <1>2, <1>3, <1>4, LateRegisterPreservesInv

LEMMA StepPreservesInv == Inv /\ [AllocNext]_<<livenessVars, allocVars>> => Inv'
<1> SUFFICES ASSUME Inv, [AllocNext]_<<livenessVars, allocVars>> PROVE Inv'
  OBVIOUS
<1> DEFINE Same == /\ fn' = fn /\ graph' = graph /\ crossing' = crossing
                   /\ regOf' = regOf /\ uncoloured' = uncoloured
<1>1. ASSUME Same,
             stage' \in BeforeColouring => stage \in BeforeColouring,
             stage' \in BeforeScan => stage \in BeforeScan,
             stage' \in BeforeCaching => stage \in BeforeCaching,
             stage' \in {"scanning", "caching"} => stage = stage' \/ uncoloured = {}
      PROVE  Inv'
  BY <1>1 DEF Inv, Typed, Symmetric, ColouredOnce, NeighboursApart, CrossingKept,
              RefusedForNeighbours, Preferences, LiteralsWait, CachedLiteralsAlone
<1> HIDE DEF Same
<1>2. CASE LivenessNext /\ UNCHANGED allocVars
  <2>1. stage = "liveness" /\ stage' \in BeforeColouring /\ Same
    BY <1>2 DEF LivenessNext, VisitBlock, SweepAgain, LivenessDone, allocVars, Same,
                BeforeColouring
  <2>2. QED
    BY <1>1, <2>1 DEF BeforeColouring, BeforeScan, BeforeCaching
<1>3. CASE BuildGraph
  BY <1>3, BuildGraphPreservesInv
<1>4. CASE \E v \in uncoloured : Colour(v)
  BY <1>4, ColourPreservesInv
<1>5. CASE ColouringDone \/ ScanDone \/ CachingDone
  <2>1. /\ Same /\ stage' \in {"scanning", "caching", "allocated"}
        /\ stage' = "scanning" => stage = "colouring" /\ uncoloured = {}
        /\ stage' = "caching" => stage = "scanning"
    BY <1>5 DEF ColouringDone, ScanDone, CachingDone, allocVars, Same
  <2>2. stage' = "caching" => uncoloured = {}
    BY <2>1 DEF Inv, ColouredOnce
  <2>3. QED
    BY <1>1, <2>1, <2>2 DEF BeforeColouring, BeforeScan, BeforeCaching
<1>6. CASE ScanSite
  BY <1>6, ScanSitePreservesInv
<1>7. CASE \E c \in Literals : CacheLiteral(c)
  BY <1>7, CacheLiteralPreservesInv
<1>8. CASE UNCHANGED <<livenessVars, allocVars>>
  BY <1>1, <1>8 DEF livenessVars, allocVars, Same
<1>9. QED
  BY <1>2, <1>3, <1>4, <1>5, <1>6, <1>7, <1>8 DEF AllocNext
LEMMA InvAlways == AllocSpec => []Inv
BY InitEstablishesInv, StepPreservesInv, PTL DEF AllocSpec

-----------------------------------------------------------------------------

\* plan_global_registers never gives two values that are live at the same time
\* one register, and to a value that is live across a call it gives none that
\* the call may destroy, in any function and with any registers.
THEOREM ColouringCorrect ==
  AllocSpec => [](stage \in BeforeScan =>
                    /\ NeighboursApart
                    /\ \A v \in crossing : regOf[v] \in ToSet(SRegs) \cup {NoReg})
<1>1. Inv => (stage \in BeforeScan =>
                /\ NeighboursApart
                /\ \A v \in crossing : regOf[v] \in ToSet(SRegs) \cup {NoReg})
  BY DEF Inv, CrossingKept
<1>2. QED
  BY <1>1, InvAlways, PTL

\* plan_global_registers leaves a value without register only if its neighbours
\* hold every register it may have, and neither of the later passes changes that.
THEOREM NothingRefusedInVain == AllocSpec => []RefusedForNeighbours
<1>1. Inv => RefusedForNeighbours
  BY DEF Inv
<1>2. QED
  BY <1>1, InvAlways, PTL

\* plan_loop_constants gives a constant a register that no value and no other
\* constant of the function has, and nobody gets it later.
THEOREM CachedAlone == AllocSpec => []CachedLiteralsAlone
<1>1. Inv => CachedLiteralsAlone
  BY DEF Inv
<1>2. QED
  BY <1>1, InvAlways, PTL

\* plan_local_registers asks only for the registers it handed out itself, and the
\* colouring refuses a value only when its neighbours hold all of t3-t6.
LEMMA ScanTakesFromNeighbour ==
  ASSUME Inv, ScanSite, NEW v \in Candidates(fn) \ crossing, regOf'[v] # regOf[v]
  PROVE  ~NeighboursApart'
<1> DEFINE live == {u \in active : DefSite(fn, u)[1] = scan[1]
                                   /\ LastUse(DefSite(fn, u)) >= scan[2]}
           chosen == FirstFree(TRegs, {regOf[u] : u \in live})
           x    == At(fn, scan).res
<1>1. fn' = fn /\ graph' = graph
  BY DEF ScanSite, livenessVars
<1>2. v \in DOMAIN regOf
  BY CandidatesAreValues DEF Inv, Typed
<1>3. Eligible(scan) /\ chosen # NoReg /\ regOf' = [regOf EXCEPT ![x] = chosen]
  BY DEF ScanSite
<1>4. chosen \in ToSet(TRegs)
  BY <1>3, FirstFreeSound, RegisterLists
<1> HIDE DEF chosen
<1>5. v = x /\ regOf[v] = NoReg /\ v \notin uncoloured
  BY <1>2, <1>3 DEF Inv, Typed, Eligible, ColouredOnce, ScanSite
<1>6. chosen \in ToSet(Preferences(v))
  BY <1>4, PreferredRegisters DEF Inv, Typed
<1>7. PICK u \in graph[v] : regOf[u] = chosen
  BY <1>5, <1>6 DEF Inv, RefusedForNeighbours
<1> HIDE DEF x
<1>8. u # v /\ u \in DOMAIN regOf
  BY CandidatesAreValues DEF Inv, Typed, Symmetric
<1>9. regOf'[v] = chosen /\ regOf'[u] = chosen
  BY <1>2, <1>3, <1>5, <1>7, <1>8 DEF Inv, Typed
<1>10. QED
  BY <1>1, <1>3, <1>7, <1>9 DEF NeighboursApart

\* Whenever the local scan gives a register to a value that the colouring
\* refused one and that is not live across a call, it takes the register of a
\* value that is live at the same time.
THEOREM LocalScanCollides ==
  AllocSpec => [][ScanSite => \A v \in Candidates(fn) \ crossing :
                                regOf'[v] # regOf[v] => ~NeighboursApart']_<<livenessVars, allocVars>>
<1>1. Inv /\ [AllocNext]_<<livenessVars, allocVars>> =>
        [ScanSite => \A v \in Candidates(fn) \ crossing :
                       regOf'[v] # regOf[v] => ~NeighboursApart']_<<livenessVars, allocVars>>
  BY ScanTakesFromNeighbour
<1>2. QED
  BY <1>1, InvAlways, PTL DEF AllocSpec


-----------------------------------------------------------------------------
(* The frame. *)

\* The greatest of finitely many numbers.
LEMMA MaxOfSet ==
  ASSUME NEW S \in SUBSET Nat, IsFiniteSet(S), S # {}
  PROVE  Max(S) \in S /\ \A n \in S : n <= Max(S)
<1>1. \E x \in S : \A n \in S : x >= n
  BY GreatestIs
<1>2. Max(S) \in S /\ \A n \in S : Max(S) >= n
  BY <1>1 DEF Max
<1>3. QED
  BY <1>2

\* A set is finite when finitely many things reach all its members.
LEMMA FiniteImage ==
  ASSUME NEW S, IsFiniteSet(S), NEW T, NEW f \in [S -> T],
         \A t \in T : \E s \in S : f[s] = t
  PROVE  IsFiniteSet(T)
<1>1. f \in Surjection(S, T)
  BY DEF Surjection
<1>2. QED
  BY <1>1, FS_Surjection

Orders(R, S) ==
  /\ \A u \in S : <<u, u>> \notin R
  /\ \A u, v, w \in S : <<u, v>> \in R /\ <<v, w>> \in R => <<u, w>> \in R
  /\ \A u, v \in S : u # v => <<u, v>> \in R \/ <<v, u>> \in R

\* Members of a finite set, numbered by how many come before them.
LEMMA Ranks ==
  ASSUME NEW S, IsFiniteSet(S), NEW R, Orders(R, S), NEW v \in S
  PROVE  /\ Cardinality(S) \in Nat
         /\ Cardinality({u \in S : <<u, v>> \in R}) \in Nat
         /\ Cardinality({u \in S : <<u, v>> \in R}) < Cardinality(S)
         /\ \A w \in S : Cardinality({u \in S : <<u, v>> \in R})
                           = Cardinality({u \in S : <<u, w>> \in R}) => v = w
<1> DEFINE below(w) == {u \in S : <<u, w>> \in R}
<1>1. ASSUME NEW w \in S
      PROVE  IsFiniteSet(below(w)) /\ Cardinality(below(w)) \in Nat
  BY FS_Subset, FS_CardinalityType
<1>2. Cardinality(below(v)) < Cardinality(S)
  <2>1. IsFiniteSet(S \ {v}) /\ Cardinality(S \ {v}) = Cardinality(S) - 1
    BY FS_RemoveElement
  <2>2. below(v) \in SUBSET (S \ {v})
    BY DEF Orders
  <2>3. Cardinality(below(v)) <= Cardinality(S \ {v})
    BY <2>1, <2>2, FS_Subset
  <2>4. QED
    BY <2>1, <2>3, <1>1, FS_CardinalityType
<1>3. ASSUME NEW x \in S, NEW y \in S, <<x, y>> \in R
      PROVE  Cardinality(below(x)) < Cardinality(below(y))
  <2>1. IsFiniteSet(below(y) \ {x}) /\ Cardinality(below(y) \ {x}) = Cardinality(below(y)) - 1
    BY <1>1, <1>3, FS_RemoveElement
  <2>2. below(x) \in SUBSET (below(y) \ {x})
    BY <1>3 DEF Orders
  <2>3. Cardinality(below(x)) <= Cardinality(below(y) \ {x})
    BY <2>1, <2>2, FS_Subset
  <2>4. QED
    BY <2>1, <2>3, <1>1
<1>4. ASSUME NEW w \in S, Cardinality(below(v)) = Cardinality(below(w))
      PROVE  v = w
  <2>1. <<v, w>> \notin R
    <3>1. SUFFICES ASSUME <<v, w>> \in R PROVE FALSE
      OBVIOUS
    <3>2. Cardinality(below(v)) < Cardinality(below(w))
      BY <1>3, <3>1
    <3>3. QED
      BY <1>1, <1>4, <3>2
  <2>2. <<w, v>> \notin R
    <3>1. SUFFICES ASSUME <<w, v>> \in R PROVE FALSE
      OBVIOUS
    <3>2. Cardinality(below(w)) < Cardinality(below(v))
      BY <1>3, <3>1
    <3>3. QED
      BY <1>1, <1>4, <3>2
  <2>3. QED
    BY <2>1, <2>2 DEF Orders
<1>5. QED
  BY <1>1, <1>2, <1>4, FS_CardinalityType
-----------------------------------------------------------------------------

\* A list has finitely many members, and their positions tell them apart.
LEMMA FiniteList ==
  ASSUME NEW seq, seq \in Seq(ToSet(seq))
  PROVE  /\ IsFiniteSet(ToSet(seq))
         /\ \A x \in ToSet(seq) : IndexOf(seq, x) \in Nat /\ seq[IndexOf(seq, x)] = x
<1>1. IsFiniteSet(DOMAIN seq)
  BY FS_Interval
<1>2. seq \in [DOMAIN seq -> ToSet(seq)]
  BY DEF ToSet
<1>3. \A x \in ToSet(seq) : \E i \in DOMAIN seq : seq[i] = x
  BY DEF ToSet
<1>4. IsFiniteSet(ToSet(seq))
  BY <1>1, <1>2, <1>3, FiniteImage
<1>5. ASSUME NEW x \in ToSet(seq)
      PROVE  IndexOf(seq, x) \in DOMAIN seq /\ seq[IndexOf(seq, x)] = x
  BY <1>3 DEF IndexOf
<1>6. QED
  BY <1>4, <1>5

\* The first place that defines a result, and the order of those places.
LEMMA PlacesOfDefinition ==
  ASSUME fn \in Functions
  PROVE  /\ \A v \in Results(fn) : ~DefinedBefore(v, v)
         /\ \A u, v, w \in Results(fn) :
              DefinedBefore(u, v) /\ DefinedBefore(v, w) => DefinedBefore(u, w)
         /\ \A u, v \in Results(fn) :
              u # v => DefinedBefore(u, v) \/ DefinedBefore(v, u)
<1>1. ASSUME NEW v \in Results(fn)
      PROVE  /\ DefSite(fn, v) \in Nat \X Nat
             /\ At(fn, DefSite(fn, v)).res = v
  <2>1. \E s \in Sites(fn) : At(fn, s).res = v
    BY DEF Results
  <2>2. DefSite(fn, v) \in Sites(fn) /\ At(fn, DefSite(fn, v)).res = v
    BY <2>1 DEF DefSite
  <2>3. \A b \in Blocks(fn) : b \in Nat /\ \A i \in DOMAIN fn.blocks[b] : i \in Nat
    BY BlocksInOrder, InstructionsInOrder DEF Blocks
  <2>4. Sites(fn) \subseteq Nat \X Nat
    BY <2>3 DEF Sites
  <2>5. QED
    BY <2>2, <2>4
<1>2. ASSUME NEW v \in Results(fn) PROVE ~DefinedBefore(v, v)
  BY <1>1 DEF DefinedBefore
<1>3. ASSUME NEW u \in Results(fn), NEW v \in Results(fn), NEW w \in Results(fn),
             DefinedBefore(u, v), DefinedBefore(v, w)
      PROVE  DefinedBefore(u, w)
  BY <1>1, <1>3 DEF DefinedBefore
<1>4. ASSUME NEW u \in Results(fn), NEW v \in Results(fn), u # v
      PROVE  DefinedBefore(u, v) \/ DefinedBefore(v, u)
  <2>1. DefSite(fn, u) # DefSite(fn, v)
    BY <1>1, <1>4
  <2>2. QED
    BY <1>1, <2>1 DEF DefinedBefore
<1>5. QED
  BY <1>2, <1>3, <1>4

LEMMA FiniteFunction ==
  ASSUME NEW f \in Functions
  PROVE  /\ IsFiniteSet(Blocks(f)) /\ IsFiniteSet(Sites(f))
         /\ IsFiniteSet(Results(f)) /\ IsFiniteSet(Params(f))
         /\ \A b \in Blocks(f) : IsFiniteSet(Phis(f, b))
<1>1. IsFiniteSet(Blocks(f))
  <2>1. Blocks(f) = 1 .. Len(f.blocks) /\ Len(f.blocks) \in Int /\ 1 \in Int
    BY BlocksInOrder DEF Blocks
  <2>2. QED
    BY <2>1, FS_Interval
<1>2. ASSUME NEW b \in Blocks(f) PROVE IsFiniteSet(DOMAIN f.blocks[b])
  BY InstructionsInOrder, FS_Interval
<1>3. IsFiniteSet(Sites(f))
  <2> DEFINE within(b) == {b} \X DOMAIN f.blocks[b]
             parts == {within(b) : b \in Blocks(f)}
             place == [b \in Blocks(f) |-> within(b)]
  <2>1. place \in [Blocks(f) -> parts] /\ \A part \in parts : \E b \in Blocks(f) : place[b] = part
    OBVIOUS
  <2> HIDE DEF parts, place
  <2>2. IsFiniteSet(parts)
    BY <1>1, <2>1, FiniteImage
  <2>3. ASSUME NEW b \in Blocks(f) PROVE IsFiniteSet(within(b))
    BY <1>2, FS_Singleton, FS_Product
  <2>4. \A part \in parts : IsFiniteSet(part)
    BY <2>3 DEF parts
  <2>5. IsFiniteSet(UNION parts)
    BY <2>2, <2>4, FS_UNION
  <2>6. QED
    BY <2>5 DEF Sites, parts
<1>4. IsFiniteSet(Results(f))
  <2> DEFINE named == {At(f, s).res : s \in Sites(f)}
             naming == [s \in Sites(f) |-> At(f, s).res]
  <2>1. naming \in [Sites(f) -> named] /\ \A v \in named : \E s \in Sites(f) : naming[s] = v
    OBVIOUS
  <2> HIDE DEF naming, named
  <2>2. IsFiniteSet(named)
    BY <1>3, <2>1, FiniteImage
  <2>3. Results(f) \in SUBSET named
    BY DEF Results, named
  <2>4. QED
    BY <2>2, <2>3, FS_Subset
<1>5. IsFiniteSet(Params(f))
  BY ParamsInOrder, FiniteList DEF Params
<1>6. ASSUME NEW b \in Blocks(f) PROVE IsFiniteSet(Phis(f, b))
  <2>1. IsFiniteSet(PhiSites(f, b))
    BY <1>2, FS_Subset DEF PhiSites
  <2> DEFINE at == [i \in PhiSites(f, b) |-> f.blocks[b][i]]
  <2>2. /\ at \in [PhiSites(f, b) -> Phis(f, b)]
        /\ \A phi \in Phis(f, b) : \E i \in PhiSites(f, b) : at[i] = phi
    BY DEF Phis
  <2> HIDE DEF at
  <2>3. QED
    BY <2>1, <2>2, FiniteImage
<1>7. QED
  BY <1>1, <1>3, <1>4, <1>5, <1>6
-----------------------------------------------------------------------------

\* Parameters that need a home are numbered by their positions.
LEMMA HomesApart ==
  ASSUME fn \in Functions, NEW v \in HomeParams
  PROVE  LET before(w) == {u \in HomeParams : ParamIndex(u) < ParamIndex(w)}
         IN  /\ Cardinality(HomeParams) \in Nat
             /\ Cardinality(before(v)) \in Nat
             /\ Cardinality(before(v)) < Cardinality(HomeParams)
             /\ \A w \in HomeParams : Cardinality(before(v)) = Cardinality(before(w)) => v = w
<1> DEFINE before(w) == {u \in HomeParams : ParamIndex(u) < ParamIndex(w)}
           R == {p \in HomeParams \X HomeParams : ParamIndex(p[1]) < ParamIndex(p[2])}
<1>1. IsFiniteSet(HomeParams)
  BY FiniteFunction, FS_Subset DEF HomeParams
<1>2. ASSUME NEW u \in HomeParams
      PROVE  ParamIndex(u) \in Nat /\ fn.params[ParamIndex(u)] = u
  BY ParamsInOrder, FiniteList DEF ParamIndex, HomeParams, Params
<1>3. \A u, w \in HomeParams : <<u, w>> \in R <=> ParamIndex(u) < ParamIndex(w)
  OBVIOUS
<1> HIDE DEF R
<1>4. Orders(R, HomeParams)
  BY <1>2, <1>3 DEF Orders
<1>5. \A w \in HomeParams : before(w) = {u \in HomeParams : <<u, w>> \in R}
  BY <1>3
<1>6. LET below(w) == {u \in HomeParams : <<u, w>> \in R}
      IN  /\ Cardinality(HomeParams) \in Nat
          /\ Cardinality(below(v)) \in Nat
          /\ Cardinality(below(v)) < Cardinality(HomeParams)
          /\ \A w \in HomeParams : Cardinality(below(v)) = Cardinality(below(w)) => v = w
  BY <1>1, <1>4, Ranks
<1>7. QED
  BY <1>5, <1>6

\* Results that live in the frame are numbered by the places of their definitions.
LEMMA SlotsApart ==
  ASSUME fn \in Functions, NEW v \in Slotted
  PROVE  LET before(w) == {u \in Slotted : DefinedBefore(u, w)}
         IN  /\ Cardinality(Slotted) \in Nat
             /\ Cardinality(before(v)) \in Nat
             /\ Cardinality(before(v)) < Cardinality(Slotted)
             /\ \A w \in Slotted : Cardinality(before(v)) = Cardinality(before(w)) => v = w
<1> DEFINE before(w) == {u \in Slotted : DefinedBefore(u, w)}
           R == {p \in Slotted \X Slotted : DefinedBefore(p[1], p[2])}
<1>1. Slotted \in SUBSET Results(fn)
  BY DEF Slotted
<1>2. IsFiniteSet(Slotted)
  BY <1>1, FiniteFunction, FS_Subset
<1>3. \A u, w \in Slotted : <<u, w>> \in R <=> DefinedBefore(u, w)
  OBVIOUS
<1> HIDE DEF R
<1>4. Orders(R, Slotted)
  BY <1>1, <1>3, PlacesOfDefinition DEF Orders
<1>5. \A w \in Slotted : before(w) = {u \in Slotted : <<u, w>> \in R}
  BY <1>3
<1>6. LET below(w) == {u \in Slotted : <<u, w>> \in R}
      IN  /\ Cardinality(Slotted) \in Nat
          /\ Cardinality(below(v)) \in Nat
          /\ Cardinality(below(v)) < Cardinality(Slotted)
          /\ \A w \in Slotted : Cardinality(below(v)) = Cardinality(below(w)) => v = w
  BY <1>2, <1>4, Ranks
<1>7. QED
  BY <1>5, <1>6

\* Saved registers are numbered by their positions among s1-s11.
LEMMA SavedRegistersApart ==
  ASSUME NEW r \in UsedCalleeSaved
  PROVE  LET before(w) == {q \in UsedCalleeSaved : IndexOf(SRegs, q) < IndexOf(SRegs, w)}
         IN  /\ Cardinality(UsedCalleeSaved) \in Nat
             /\ Cardinality(before(r)) \in Nat
             /\ Cardinality(before(r)) < Cardinality(UsedCalleeSaved)
             /\ \A w \in UsedCalleeSaved :
                  Cardinality(before(r)) = Cardinality(before(w)) => r = w
<1> DEFINE before(w) == {q \in UsedCalleeSaved : IndexOf(SRegs, q) < IndexOf(SRegs, w)}
           R == {p \in UsedCalleeSaved \X UsedCalleeSaved :
                   IndexOf(SRegs, p[1]) < IndexOf(SRegs, p[2])}
<1>1. UsedCalleeSaved \in SUBSET ToSet(SRegs)
  BY DEF UsedCalleeSaved
<1>2. /\ IsFiniteSet(ToSet(SRegs))
      /\ \A x \in ToSet(SRegs) : IndexOf(SRegs, x) \in Nat /\ SRegs[IndexOf(SRegs, x)] = x
  BY RegisterLists, FiniteList
<1>3. IsFiniteSet(UsedCalleeSaved)
  BY <1>1, <1>2, FS_Subset
<1>4. \A u, w \in UsedCalleeSaved : <<u, w>> \in R <=> IndexOf(SRegs, u) < IndexOf(SRegs, w)
  OBVIOUS
<1> HIDE DEF R
<1>5. Orders(R, UsedCalleeSaved)
  BY <1>1, <1>2, <1>4 DEF Orders
<1>6. \A w \in UsedCalleeSaved : before(w) = {u \in UsedCalleeSaved : <<u, w>> \in R}
  BY <1>4
<1>7. LET below(w) == {u \in UsedCalleeSaved : <<u, w>> \in R}
      IN  /\ Cardinality(UsedCalleeSaved) \in Nat
          /\ Cardinality(below(r)) \in Nat
          /\ Cardinality(below(r)) < Cardinality(UsedCalleeSaved)
          /\ \A w \in UsedCalleeSaved : Cardinality(below(r)) = Cardinality(below(w)) => r = w
  BY <1>3, <1>5, Ranks
<1>8. QED
  BY <1>6, <1>7

LEMMA OutgoingLargeEnough ==
  ASSUME fn \in Functions
  PROVE  /\ OutgoingWords \in Nat
         /\ \A s \in Sites(fn) :
              At(fn, s).op = "call" => WordsOnStack(Len(At(fn, s).args)) <= OutgoingWords
<1> DEFINE calls == {t \in Sites(fn) : At(fn, t).op = "call"}
           words == {WordsOnStack(Len(At(fn, s).args)) : s \in calls}
           size == [s \in calls |-> WordsOnStack(Len(At(fn, s).args))]
           own == WordsOnStack(Len(fn.params))
<1>1. \A n \in Nat : WordsOnStack(n) \in Nat
  BY RegisterLists DEF WordsOnStack
<1>2. own \in Nat
  BY <1>1, ParamsInOrder
<1>3. words \in SUBSET Nat
  BY <1>1, InstructionsInOrder
<1>4. IsFiniteSet(words)
  <2>1. IsFiniteSet(calls)
    BY FiniteFunction, FS_Subset
  <2>2. size \in [calls -> words] /\ \A n \in words : \E s \in calls : size[s] = n
    OBVIOUS
  <2> HIDE DEF calls, words, size
  <2>3. QED
    BY <2>1, <2>2, FiniteImage
<1>5. \A s \in Sites(fn) : At(fn, s).op = "call" => WordsOnStack(Len(At(fn, s).args)) \in words
  OBVIOUS
<1>6. OutgoingWords = Max({own} \cup words)
  BY DEF OutgoingWords
<1> HIDE DEF words, own
<1>7. {own} \cup words \in SUBSET Nat /\ IsFiniteSet({own} \cup words)
  BY <1>2, <1>3, <1>4, FS_Singleton, FS_Union
<1>8. QED
  BY <1>5, <1>6, <1>7, MaxOfSet

LEMMA TemporariesEnough ==
  ASSUME fn \in Functions
  PROVE  /\ TempCount \in Nat
         /\ \A b \in Blocks(fn) :
              (\E phi \in Phis(fn, b) : ~Allocated(phi.res)) =>
                Cardinality(Phis(fn, b)) \in Nat /\ Cardinality(Phis(fn, b)) <= TempCount
<1> DEFINE slow == {c \in Blocks(fn) : \E phi \in Phis(fn, c) : ~Allocated(phi.res)}
           counts == {Cardinality(Phis(fn, b)) : b \in slow}
           count == [b \in slow |-> Cardinality(Phis(fn, b))]
<1>1. \A b \in Blocks(fn) : Cardinality(Phis(fn, b)) \in Nat
  BY FiniteFunction, FS_CardinalityType
<1>2. counts \in SUBSET Nat
  BY <1>1
<1>3. IsFiniteSet(counts)
  <2>1. IsFiniteSet(slow)
    BY FiniteFunction, FS_Subset
  <2>2. count \in [slow -> counts] /\ \A n \in counts : \E b \in slow : count[b] = n
    OBVIOUS
  <2> HIDE DEF slow, counts, count
  <2>3. QED
    BY <2>1, <2>2, FiniteImage
<1>4. \A b \in slow : Cardinality(Phis(fn, b)) \in counts
  OBVIOUS
<1>5. TempCount = Max({0} \cup counts)
  BY DEF TempCount
<1> HIDE DEF counts
<1>6. {0} \cup counts \in SUBSET Nat /\ IsFiniteSet({0} \cup counts)
  <2>1. IsFiniteSet({0})
    BY FS_Singleton
  <2>2. IsFiniteSet({0} \cup counts)
    BY <1>3, <2>1, FS_Union
  <2>3. {0} \cup counts \in SUBSET Nat
    BY <1>2
  <2>4. QED
    BY <2>2, <2>3
<1>7. QED
  BY <1>1, <1>4, <1>5, <1>6, MaxOfSet
-----------------------------------------------------------------------------

\* The words the frame takes, counted from the stack pointer up.
LEMMA AreasInOrder ==
  ASSUME fn \in Functions
  PROVE  /\ OutgoingWords \in Nat /\ TempBase \in Nat /\ ParamBase \in Nat /\ SlotBase \in Nat
         /\ SavedBase \in Nat /\ FrameSize \in Nat
         /\ OutgoingWords <= TempBase /\ TempBase <= ParamBase
         /\ SavedBase + Cardinality(UsedCalleeSaved) <= FrameSize
<1>1. OutgoingWords \in Nat /\ TempCount \in Nat
  BY OutgoingLargeEnough, TemporariesEnough
<1>2. Cardinality(HomeParams) \in Nat
  BY FiniteFunction, FS_Subset, FS_CardinalityType DEF HomeParams
<1>3. Cardinality(Slotted) \in Nat
  BY FiniteFunction, FS_Subset, FS_CardinalityType DEF Slotted
<1>4. Cardinality(UsedCalleeSaved) \in Nat
  BY RegisterLists, FiniteList, FS_Subset, FS_CardinalityType DEF UsedCalleeSaved
<1>5. /\ TempBase \in Nat /\ OutgoingWords <= TempBase
      /\ ParamBase \in Nat /\ TempBase <= ParamBase
      /\ SlotBase \in Nat /\ SavedBase \in Nat
  <2>1. TempBase \in Nat /\ OutgoingWords <= TempBase
    BY <1>1 DEF TempBase
  <2>2. ParamBase \in Nat /\ TempBase <= ParamBase
    BY <1>1, <2>1 DEF ParamBase
  <2>3. SlotBase \in Nat /\ SavedBase \in Nat
    BY <1>2, <1>3, <2>2 DEF SlotBase, SavedBase
  <2>4. QED
    BY <2>1, <2>2, <2>3
<1>6. ASSUME NEW n \in Nat
      PROVE  4 * ((n + 3) \div 4) \in Nat /\ n <= 4 * ((n + 3) \div 4)
  OBVIOUS
<1>7. SavedBase + Cardinality(UsedCalleeSaved) \in Nat
  BY <1>4, <1>5
<1>8. FrameSize \in Nat /\ SavedBase + Cardinality(UsedCalleeSaved) <= FrameSize
  BY <1>6, <1>7 DEF FrameSize
<1>9. QED
  BY <1>1, <1>5, <1>8

LEMMA LayoutApart ==
  ASSUME fn \in Functions
  PROVE  AreasApart
<1>1. ASSUME NEW s \in Sites(fn), At(fn, s).op = "call"
      PROVE  WordsOnStack(Len(At(fn, s).args)) <= RaOffset /\ RaOffset < TempBase
  <2>1. TempBase = OutgoingWords + 1
    BY <1>1 DEF TempBase, HasCall
  <2>2. QED
    BY <1>1, <2>1, OutgoingLargeEnough DEF RaOffset
<1>2. ASSUME NEW b \in Blocks(fn), \E phi \in Phis(fn, b) : ~Allocated(phi.res)
      PROVE  TempBase + Cardinality(Phis(fn, b)) <= ParamBase
  BY <1>2, TemporariesEnough, AreasInOrder DEF ParamBase
<1>3. ASSUME NEW v \in HomeParams
      PROVE  /\ ParamBase <= ParamOffset(v) /\ ParamOffset(v) < SlotBase
             /\ \A u \in HomeParams : ParamOffset(u) = ParamOffset(v) => u = v
  <2>1. /\ ParamBase <= ParamOffset(v) /\ ParamOffset(v) < SlotBase
    BY HomesApart, AreasInOrder DEF ParamOffset, SlotBase
  <2>2. ASSUME NEW u \in HomeParams, ParamOffset(u) = ParamOffset(v) PROVE u = v
    <3> DEFINE number(w) == Cardinality({x \in HomeParams : ParamIndex(x) < ParamIndex(w)})
    <3>1. number(u) \in Nat /\ (number(v) = number(u) => v = u)
      BY HomesApart
    <3>2. number(v) \in Nat
      BY HomesApart
    <3>3. ParamOffset(u) = ParamBase + number(u) /\ ParamOffset(v) = ParamBase + number(v)
      BY DEF ParamOffset
    <3> HIDE DEF number
    <3>4. ParamBase \in Nat
      BY AreasInOrder
    <3>5. ParamBase + number(u) = ParamBase + number(v)
      BY <2>2, <3>3
    <3>6. number(v) = number(u)
      BY <3>1, <3>2, <3>4, <3>5
    <3>7. QED
      BY <3>1, <3>6
  <2>3. QED
    BY <2>1, <2>2
<1>4. ASSUME NEW v \in Slotted
      PROVE  /\ SlotBase <= SlotOffset(v) /\ SlotOffset(v) < SavedBase
             /\ \A u \in Slotted : SlotOffset(u) = SlotOffset(v) => u = v
  <2>1. /\ SlotBase <= SlotOffset(v) /\ SlotOffset(v) < SavedBase
    BY SlotsApart, AreasInOrder DEF SlotOffset, SavedBase
  <2>2. ASSUME NEW u \in Slotted, SlotOffset(u) = SlotOffset(v) PROVE u = v
    <3> DEFINE number(w) == Cardinality({x \in Slotted : DefinedBefore(x, w)})
    <3>1. number(u) \in Nat /\ (number(v) = number(u) => v = u)
      BY SlotsApart
    <3>2. number(v) \in Nat
      BY SlotsApart
    <3>3. SlotOffset(u) = SlotBase + number(u) /\ SlotOffset(v) = SlotBase + number(v)
      BY DEF SlotOffset
    <3> HIDE DEF number
    <3>4. SlotBase \in Nat
      BY AreasInOrder
    <3>5. SlotBase + number(u) = SlotBase + number(v)
      BY <2>2, <3>3
    <3>6. number(v) = number(u)
      BY <3>1, <3>2, <3>4, <3>5
    <3>7. QED
      BY <3>1, <3>6
  <2>3. QED
    BY <2>1, <2>2
<1>5. ASSUME NEW r \in UsedCalleeSaved
      PROVE  /\ SavedBase <= SavedOffset(r) /\ SavedOffset(r) < FrameSize
             /\ \A q \in UsedCalleeSaved : SavedOffset(q) = SavedOffset(r) => q = r
  <2>1. /\ SavedBase <= SavedOffset(r) /\ SavedOffset(r) < FrameSize
    BY SavedRegistersApart, AreasInOrder DEF SavedOffset
  <2>2. ASSUME NEW q \in UsedCalleeSaved, SavedOffset(q) = SavedOffset(r) PROVE q = r
    <3> DEFINE number(w) == Cardinality({x \in UsedCalleeSaved : IndexOf(SRegs, x) < IndexOf(SRegs, w)})
    <3>1. number(q) \in Nat /\ (number(r) = number(q) => r = q)
      BY SavedRegistersApart
    <3>2. number(r) \in Nat
      BY SavedRegistersApart
    <3>3. SavedOffset(q) = SavedBase + number(q) /\ SavedOffset(r) = SavedBase + number(r)
      BY DEF SavedOffset
    <3> HIDE DEF number
    <3>4. SavedBase \in Nat
      BY AreasInOrder
    <3>5. SavedBase + number(q) = SavedBase + number(r)
      BY <2>2, <3>3
    <3>6. number(r) = number(q)
      BY <3>1, <3>2, <3>4, <3>5
    <3>7. QED
      BY <3>1, <3>6
  <2>3. QED
    BY <2>1, <2>2
<1>6. 0 <= RaOffset /\ RaOffset <= TempBase /\ TempBase <= ParamBase /\ SavedBase <= FrameSize
  <2>1. Cardinality(UsedCalleeSaved) \in Nat
    BY RegisterLists, FiniteList, FS_Subset, FS_CardinalityType DEF UsedCalleeSaved
  <2>2. QED
    BY <2>1, AreasInOrder DEF RaOffset
<1>7. ASSUME NEW i \in DOMAIN fn.params, OnStack(i)
      PROVE  FrameSize <= StackParamOffset(i)
  <2>1. i \in Nat
    BY ParamsInOrder
  <2>2. QED
    BY <1>7, <2>1, AreasInOrder, RegisterLists DEF OnStack, StackParamOffset
<1>8. QED
  BY <1>1, <1>2, <1>3, <1>4, <1>5, <1>6, <1>7 DEF AreasApart

\* No two things the generated code keeps in the frame share a word of it, every
\* area is as large as what the code puts there, and the parameters that came on
\* the stack are read above the frame: in any function, with any registers, and at
\* whatever step of register allocation the layout is taken.
THEOREM FrameLaidOut == AllocSpec => []AreasApart
<1>1. Inv => AreasApart
  BY LayoutApart DEF Inv, Typed
<1>2. QED
  BY <1>1, InvAlways, PTL

-----------------------------------------------------------------------------
(* Functions. *)

LEMMA FunctionShape ==
  ASSUME NEW f \in Functions
  PROVE  /\ \A b \in Blocks(f) : /\ b \in Nat
                                 /\ Len(f.blocks[b]) \in Nat
                                 /\ DOMAIN f.blocks[b] = 1 .. Len(f.blocks[b])
         /\ Sites(f) \subseteq Nat \X Nat
         /\ \A s \in Sites(f) : s[1] \in Blocks(f) /\ s[2] \in DOMAIN f.blocks[s[1]]
         /\ \A b \in Blocks(f) : \A i \in DOMAIN f.blocks[b] : <<b, i>> \in Sites(f)
<1>1. \A b \in Blocks(f) : /\ b \in Nat
                           /\ Len(f.blocks[b]) \in Nat
                           /\ DOMAIN f.blocks[b] = 1 .. Len(f.blocks[b])
  BY BlocksInOrder, InstructionsInOrder DEF Blocks
<1>2. \A b \in Blocks(f) : {b} \X DOMAIN f.blocks[b] \subseteq Nat \X Nat
  BY <1>1
<1>3. Sites(f) \subseteq Nat \X Nat
  BY <1>2 DEF Sites
<1>4. QED
  BY <1>1, <1>3 DEF Sites

\* An instruction that reads v is a use of v.
LEMMA ReadersAreUses ==
  ASSUME NEW f \in Functions, NEW s \in Sites(f), NEW i \in DOMAIN At(f, s).args
  PROVE  <<s, i>> \in Uses(f, At(f, s).args[i])
<1>1. <<s, i>> \in {s} \X DOMAIN At(f, s).args
  OBVIOUS
<1>2. <<s, i>> \in UNION {{t} \X DOMAIN At(f, t).args : t \in Sites(f)}
  BY <1>1
<1>3. QED
  BY <1>2 DEF Uses

LEMMA UsesAreReaders ==
  ASSUME NEW f \in Functions, NEW v, NEW u \in Uses(f, v)
  PROVE  u[1] \in Sites(f) /\ u[2] \in DOMAIN At(f, u[1]).args /\ At(f, u[1]).args[u[2]] = v
<1>1. PICK s \in Sites(f) : u \in {s} \X DOMAIN At(f, s).args
  BY DEF Uses
<1>2. u[1] = s /\ u[2] \in DOMAIN At(f, s).args
  BY <1>1
<1>3. QED
  BY <1>2 DEF Uses

LEMMA FiniteUses ==
  ASSUME NEW f \in Functions, NEW v
  PROVE  IsFiniteSet(Uses(f, v))
<1> DEFINE operands(s) == {s} \X DOMAIN At(f, s).args
           all == {operands(s) : s \in Sites(f)}
           of == [s \in Sites(f) |-> operands(s)]
<1>1. of \in [Sites(f) -> all] /\ \A part \in all : \E s \in Sites(f) : of[s] = part
  OBVIOUS
<1>2. ASSUME NEW s \in Sites(f) PROVE IsFiniteSet(operands(s))
  <2>1. DOMAIN At(f, s).args = 1 .. Len(At(f, s).args) /\ Len(At(f, s).args) \in Nat
    BY FunctionsWellFormed DEF Shaped
  <2>2. IsFiniteSet(DOMAIN At(f, s).args)
    BY <2>1, FS_Interval
  <2>3. QED
    BY <2>2, FS_Singleton, FS_Product
<1>3. \A part \in all : IsFiniteSet(part)
  BY <1>2
<1> HIDE DEF all, of
<1>4. IsFiniteSet(all)
  BY <1>1, FiniteFunction, FiniteImage
<1>5. IsFiniteSet(UNION all)
  BY <1>3, <1>4, FS_UNION
<1>6. Uses(f, v) \in SUBSET UNION all
  BY DEF Uses, all
<1>7. QED
  BY <1>5, <1>6, FS_Subset

\* There is one definition of a value, so DefSite finds it.
LEMMA OneDefinition ==
  ASSUME NEW f \in Functions, NEW s \in Sites(f), At(f, s).res # NoValue
  PROVE  /\ DefSite(f, At(f, s).res) = s
         /\ At(f, s).res \in Results(f) /\ At(f, s).res \notin Params(f)
BY FunctionsWellFormed DEF SingleAssignment, DefSite, Results

LEMMA ResultsHaveSites ==
  ASSUME NEW f \in Functions, NEW v \in Results(f)
  PROVE  /\ DefSite(f, v) \in Sites(f) /\ At(f, DefSite(f, v)).res = v
         /\ v # NoValue /\ v \notin Params(f)
BY FunctionsWellFormed DEF SingleAssignment, DefSite, Results

\* What a phi takes on an edge is one of its operands.
LEMMA IncomingIsOperand ==
  ASSUME NEW f \in Functions, NEW c \in Blocks(f), NEW j \in PhiSites(f, c), NEW b,
         HasIncoming(f.blocks[c][j], b)
  PROVE  \E k \in DOMAIN f.blocks[c][j].args : f.blocks[c][j].args[k] = Incoming(f.blocks[c][j], b)
<1> DEFINE phi == f.blocks[c][j]
           entries == {k \in DOMAIN phi.to : phi.to[k] = b}
<1>1. <<c, j>> \in Sites(f) /\ At(f, <<c, j>>) = phi /\ phi.op = "phi"
  <2>1. j \in DOMAIN f.blocks[c] /\ j \in 1 .. j
    BY FunctionShape DEF PhiSites
  <2>2. QED
    BY <2>1, FunctionShape DEF PhiSites, At
<1>2. DOMAIN phi.to = DOMAIN phi.args /\ phi.args \in Seq(SsaValues(f) \cup Literals)
  BY <1>1, FunctionsWellFormed DEF Shaped
<1>3. entries \in SUBSET Nat /\ entries # {}
  BY <1>2 DEF HasIncoming
<1>4. Min(entries) \in entries /\ \A k \in entries : Min(entries) <= k
  BY <1>3, MinOfSet
<1>5. \E k \in DOMAIN phi.to : phi.to[k] = b /\ \A i \in 1 .. k - 1 : phi.to[i] # b
  <2>1. ASSUME NEW i \in 1 .. Min(entries) - 1 PROVE phi.to[i] # b
    <3>1. DOMAIN phi.to = 1 .. Len(phi.args)
      BY <1>2
    <3>2. i \in DOMAIN phi.to /\ ~(Min(entries) <= i)
      <4> DEFINE m == Min(entries)
                 l == Len(phi.args)
      <4>1. m \in 1 .. l /\ l \in Nat
        <5>1. m \in DOMAIN phi.to
          BY <1>4
        <5>2. l \in Nat
          BY <1>2
        <5>3. QED
          BY <3>1, <5>1, <5>2
      <4>4. i \in 1 .. m - 1
        OBVIOUS
      <4> HIDE DEF m, l
      <4>2. i \in 1 .. l /\ ~(m <= i)
        BY <4>1, <4>4
      <4>3. QED
        BY <3>1, <4>2 DEF m, l
    <3>3. QED
      BY <1>4, <3>2
  <2>2. QED
    BY <1>4, <2>1
<1>6. QED
  BY <1>2, <1>5 DEF Incoming

-----------------------------------------------------------------------------
(* The compiler's part: what holds of allocation in every later stage. *)

AfterBuild == {"colouring", "scanning", "caching", "allocated",
               "failed", "prologue", "running", "stacked", "called", "returned"}
Emitted == {"failed", "prologue", "running", "stacked", "called", "returned"}

\* Values that some block reads before defining them, or some phi on an edge.
Exposed(f) ==
  {v \in Candidates(f) :
     \/ \E b \in Blocks(f) : v \in BlockUse(f, b)
     \/ \E b \in Blocks(f) : \E c \in Succs(f, b) : \E i \in PhiSites(f, c) :
          HasIncoming(f.blocks[c][i], b) /\ Incoming(f.blocks[c][i], b) = v}

LiveOnlyExposed ==
  \A b \in Blocks(fn) : liveIn[b] \subseteq Exposed(fn) /\ liveOut[b] \subseteq Exposed(fn)

Scheduled ==
  /\ priority \in [Candidates(fn) -> Nat]
  /\ scan \in Sites(fn) \cup {<<0, 0>>}
  /\ active \subseteq Results(fn)

\* Without -opt nothing is allocated.
NothingUnasked ==
  ~fn.opt => /\ stage \in Emitted \cup {"allocated"}
             /\ \A v \in SsaValues(fn) \cup Literals : regOf[v] = NoReg

OnlyCandidates == \A v \in SsaValues(fn) : regOf[v] # NoReg => v \in Candidates(fn)

LiveAcrossCalls ==
  UNION {LiveAfter(s[1], s[2]) \ {At(fn, s).res} : s \in {t \in Sites(fn) : At(fn, t).op = "call"}}

GraphBuilt ==
  fn.opt /\ stage \in AfterBuild =>
    /\ graph = [v \in Candidates(fn) |-> (UNION {c \in Cliques : v \in c}) \ {v}]
    /\ crossing = LiveAcrossCalls

CrossingSaved == \A v \in crossing : regOf[v] \in ToSet(SRegs) \cup {NoReg}

CachedInLeaves ==
  (\E c \in Literals : regOf[c] # NoReg) => \A s \in Sites(fn) : At(fn, s).op # "call"

Compiled ==
  /\ Inv /\ LivenessInv
  /\ LiveOnlyExposed
  /\ Scheduled
  /\ NothingUnasked
  /\ OnlyCandidates
  /\ GraphBuilt
  /\ CrossingSaved
  /\ CachedInLeaves

\* Liveness at the instructions depends on the function and on the sets alone.
LEMMA LivenessStays ==
  ASSUME fn' = fn, liveOut' = liveOut
  PROVE  Cliques' = Cliques /\ LiveAcrossCalls' = LiveAcrossCalls
<1>1. ASSUME NEW b, NEW i PROVE LiveAfter(b, i)' = LiveAfter(b, i)
  BY DEF LiveAfter
<1>2. QED
  BY <1>1 DEF Cliques, LiveAcrossCalls

\* A step that only moves on to a later stage.
LEMMA StageStep ==
  ASSUME Compiled,
         UNCHANGED <<fn, liveIn, liveOut, block, changed, allocVars>>,
         stage' \in Emitted, stage \in Emitted \cup {"allocated"}
  PROVE  Compiled'
<1>1. stage' \notin BeforeColouring /\ stage' \notin BeforeScan /\ stage' \notin BeforeCaching
      /\ stage' \notin {"scanning", "caching", "liveness"} /\ stage \in AfterBuild
      /\ stage # "liveness"
  BY DEF BeforeColouring, BeforeScan, BeforeCaching, Emitted, AfterBuild
<1>2. Inv'
  BY <1>1 DEF Compiled, Inv, Typed, Symmetric, ColouredOnce, CrossingKept, RefusedForNeighbours,
              Preferences, LiteralsWait, CachedLiteralsAlone, allocVars
<1>3. LivenessInv'
  BY <1>1 DEF Compiled, LivenessInv, LivenessTypeOK, Settled, Analysed, Solved, NewOut, NewIn
<1>4. LiveOnlyExposed' /\ Scheduled'
  BY DEF Compiled, LiveOnlyExposed, Scheduled, allocVars
<1>5. NothingUnasked' /\ OnlyCandidates' /\ CrossingSaved' /\ CachedInLeaves'
  BY DEF Compiled, NothingUnasked, OnlyCandidates, CrossingSaved, CachedInLeaves, allocVars
<1>6. GraphBuilt'
  BY <1>1, LivenessStays DEF Compiled, GraphBuilt, allocVars
<1>7. QED
  BY <1>2, <1>3, <1>4, <1>5, <1>6 DEF Compiled

\* The scan always knows where to go on: there is a first site after any other.
LEMMA NextSiteInFunction ==
  ASSUME fn \in Functions, NEW s \in Nat \X Nat
  PROVE  NextSite(s) \in Sites(fn) \cup {<<0, 0>>}
<1>1. CASE SitesAfter(s) = {}
  BY <1>1 DEF NextSite
<1>2. CASE SitesAfter(s) # {}
  <2> DEFINE blocks == {t[1] : t \in SitesAfter(s)}
             b == Min(blocks)
             places == {t[2] : t \in {u \in SitesAfter(s) : u[1] = b}}
             i == Min(places)
  <2>1. SitesAfter(s) \subseteq Sites(fn) /\ Sites(fn) \subseteq Nat \X Nat
    BY FunctionShape DEF SitesAfter
  <2>2. blocks \in SUBSET Nat /\ blocks # {}
    BY <1>2, <2>1
  <2>3. b \in blocks /\ \A n \in blocks : b <= n
    BY <2>2, MinOfSet
  <2> HIDE DEF b
  <2>4. places \in SUBSET Nat /\ places # {}
    BY <2>1, <2>3
  <2>5. i \in places /\ \A n \in places : i <= n
    BY <2>4, MinOfSet
  <2> HIDE DEF i
  <2>6. PICK t \in SitesAfter(s) : t[1] = b /\ t[2] = i
    BY <2>5
  <2>7. ASSUME NEW u \in SitesAfter(s), u # t
        PROVE  u \in SitesAfter(t)
    <3>1. u \in Nat \X Nat /\ t \in Nat \X Nat /\ u \in Sites(fn)
      BY <2>1
    <3>2. b <= u[1] /\ (u[1] = b => i <= u[2])
      BY <2>3, <2>5
    <3>3. u[1] # t[1] \/ u[2] # t[2]
      BY <2>7, <3>1
    <3>4. QED
      BY <2>6, <3>1, <3>2, <3>3 DEF SitesAfter
  <2>8. ASSUME NEW u \in SitesAfter(t)
        PROVE  u \in SitesAfter(s) \ {t}
    <3>1. u \in Nat \X Nat /\ t \in Nat \X Nat /\ u \in Sites(fn)
      BY <2>1, <2>8, FunctionShape DEF SitesAfter
    <3>2. u[1] > t[1] \/ (u[1] = t[1] /\ u[2] > t[2])
      BY <2>8 DEF SitesAfter
    <3>3. t[1] > s[1] \/ (t[1] = s[1] /\ t[2] > s[2])
      BY DEF SitesAfter
    <3>4. QED
      BY <3>1, <3>2, <3>3 DEF SitesAfter
  <2>9. QED
    BY <1>2, <2>1, <2>6, <2>7, <2>8 DEF NextSite
<1>3. QED
  BY <1>1, <1>2

LEMMA InitCompiled == AllocInit => Compiled
<1> SUFFICES ASSUME AllocInit PROVE Compiled
  OBVIOUS
<1>1. Inv /\ LivenessInv /\ fn \in Functions
  BY InitEstablishesInv, InitEstablishesLivenessInv DEF AllocInit, LivenessInit
<1>2. LiveOnlyExposed
  BY DEF AllocInit, LivenessInit, LiveOnlyExposed
<1>3. Scheduled
  BY <1>1, NextSiteInFunction DEF AllocInit, Scheduled
<1>4. \A v \in SsaValues(fn) \cup Literals : regOf[v] = NoReg
  BY DEF AllocInit
<1>5. NothingUnasked /\ OnlyCandidates /\ CachedInLeaves
  BY <1>4 DEF AllocInit, LivenessInit, NothingUnasked, OnlyCandidates, CachedInLeaves
<1>6. GraphBuilt /\ CrossingSaved
  BY DEF AllocInit, LivenessInit, GraphBuilt, CrossingSaved, AfterBuild
<1>7. QED
  BY <1>1, <1>2, <1>3, <1>5, <1>6 DEF Compiled

LEMMA VisitStaysExposed ==
  ASSUME LivenessInv, LiveOnlyExposed, VisitBlock
  PROVE  LiveOnlyExposed'
<1>1. block \in Blocks(fn) /\ fn' = fn /\ fn \in Functions
  BY BlocksInOrder DEF VisitBlock, LivenessInv, LivenessTypeOK, Blocks
<1>2. NewOut(block) \subseteq Exposed(fn)
  <2>1. ASSUME NEW c \in Succs(fn, block), NEW v \in EdgeLive(fn, block, c, liveIn[c])
        PROVE  v \in Exposed(fn)
    <3>1. c \in Blocks(fn)
      BY <1>1, TargetsAreBlocks
    <3>2. CASE v \in liveIn[c]
      BY <3>1, <3>2 DEF LiveOnlyExposed
    <3>3. CASE v \notin liveIn[c]
      <4>1. PICK i \in PhiSites(fn, c) : /\ HasIncoming(fn.blocks[c][i], block)
                                         /\ Incoming(fn.blocks[c][i], block) \in Candidates(fn)
                                         /\ v = Incoming(fn.blocks[c][i], block)
        BY <2>1, <3>3 DEF EdgeLive
      <4>2. QED
        BY <1>1, <4>1 DEF Exposed
    <3>4. QED
      BY <3>2, <3>3
  <2>2. QED
    BY <2>1 DEF NewOut
<1>3. NewIn(block, NewOut(block)) \subseteq Exposed(fn)
  BY <1>1, <1>2 DEF NewIn, Exposed, BlockUse
<1>4. QED
  BY <1>1, <1>2, <1>3 DEF VisitBlock, LiveOnlyExposed, LivenessInv, LivenessTypeOK

LEMMA AfterLiveness ==
  ASSUME LivenessInv, LiveOnlyExposed, stage # "liveness", stage' # "liveness",
         UNCHANGED <<fn, liveIn, liveOut, block, changed>>
  PROVE  LivenessInv' /\ LiveOnlyExposed'
BY DEF LivenessInv, LivenessTypeOK, Settled, Analysed, Solved, NewOut, NewIn, LiveOnlyExposed

LEMMA PriorityIsNumber ==
  ASSUME fn \in Functions, NEW v, NEW cyclic
  PROVE  Priority(v, cyclic) \in Nat
<1> DEFINE often == {u \in Uses(fn, v) : u[1][1] \in cyclic}
           weight(b) == IF b \in cyclic THEN 16 ELSE 1
           uses == Cardinality(Uses(fn, v)) + 15 * Cardinality(often)
           definition == IF v \in Params(fn) THEN 0 ELSE weight(DefSite(fn, v)[1])
           bonus == IF v \in Params(fn) THEN 500
                    ELSE IF At(fn, DefSite(fn, v)).op = "phi" THEN 100 ELSE 0
<1>1. Cardinality(Uses(fn, v)) \in Nat /\ Cardinality(often) \in Nat
  BY FiniteUses, FS_Subset, FS_CardinalityType
<1>2. uses \in Nat /\ definition \in Nat /\ bonus \in Nat
  BY <1>1
<1>3. Priority(v, cyclic) = 10 * (uses + definition) + bonus
  BY DEF Priority
<1> HIDE DEF uses, definition, bonus
<1>4. QED
  BY <1>2, <1>3

LEMMA BuildGraphCompiled == Compiled /\ BuildGraph => Compiled'
<1> SUFFICES ASSUME Compiled, BuildGraph PROVE Compiled'
  OBVIOUS
<1>1. /\ stage = "interference" /\ stage' = "colouring" /\ fn \in Functions
      /\ UNCHANGED <<fn, liveIn, liveOut, block, changed, regOf, scan, active>>
  BY DEF BuildGraph, Compiled, Inv, Typed
<1>2. Inv' /\ LivenessInv' /\ LiveOnlyExposed'
  BY <1>1, BuildGraphPreservesInv, AfterLiveness DEF Compiled
<1>3. Scheduled'
  <2>1. priority' \in [Candidates(fn) -> Nat]
    <3> DEFINE cyclic == {b \in Blocks(fn) : Cyclic(fn, b)}
    <3>1. priority' = [v \in Candidates(fn) |-> Priority(v, cyclic)]
      BY DEF BuildGraph
    <3> HIDE DEF cyclic
    <3>2. QED
      BY <1>1, <3>1, PriorityIsNumber
  <2>2. QED
    BY <1>1, <2>1 DEF Compiled, Scheduled
<1>4. fn.opt
  BY <1>1 DEF Compiled, NothingUnasked, Emitted
<1>5. GraphBuilt'
  <2>1. graph' = [v \in Candidates(fn) |-> (UNION {c \in Cliques : v \in c}) \ {v}]
    BY DEF BuildGraph
  <2>2. crossing' = LiveAcrossCalls
    BY DEF BuildGraph, LiveAcrossCalls
  <2>3. QED
    BY <1>1, <2>1, <2>2, LivenessStays DEF GraphBuilt
<1>6. NothingUnasked' /\ OnlyCandidates' /\ CachedInLeaves'
  BY <1>1, <1>4 DEF Compiled, NothingUnasked, OnlyCandidates, CachedInLeaves
<1>7. CrossingSaved'
  BY <1>1, <1>2 DEF Inv, CrossingKept, CrossingSaved, BeforeScan
<1>8. QED
  BY <1>2, <1>3, <1>5, <1>6, <1>7 DEF Compiled

LEMMA ColourCompiled ==
  ASSUME Compiled, NEW x \in uncoloured, Colour(x)
  PROVE  Compiled'
<1>1. /\ stage = "colouring" /\ stage' = "colouring" /\ x \in Candidates(fn)
      /\ UNCHANGED <<fn, liveIn, liveOut, block, changed, graph, crossing, priority, scan, active>>
      /\ \E r : regOf' = [regOf EXCEPT ![x] = r]
  BY DEF Colour, livenessVars, Compiled, Inv, Typed
<1>2. Inv' /\ LivenessInv' /\ LiveOnlyExposed'
  BY <1>1, ColourPreservesInv, AfterLiveness DEF Compiled
<1>3. Scheduled'
  BY <1>1 DEF Compiled, Scheduled
<1>4. fn.opt
  BY <1>1 DEF Compiled, NothingUnasked, Emitted
<1>5. GraphBuilt'
  BY <1>1, LivenessStays DEF Compiled, GraphBuilt, AfterBuild
<1>6. NothingUnasked' /\ OnlyCandidates'
  BY <1>1, <1>4 DEF Compiled, NothingUnasked, OnlyCandidates, Inv, Typed
<1>7. CrossingSaved' /\ CachedInLeaves'
  BY <1>1, <1>2 DEF Inv, CrossingKept, CrossingSaved, CachedInLeaves, LiteralsWait, BeforeScan, BeforeCaching
<1>8. QED
  BY <1>2, <1>3, <1>5, <1>6, <1>7 DEF Compiled

LEMMA CacheLiteralCompiled ==
  ASSUME Compiled, NEW c \in Literals, CacheLiteral(c)
  PROVE  Compiled'
<1>1. /\ stage = "caching" /\ stage' = "caching" /\ fn \in Functions
      /\ UNCHANGED <<fn, liveIn, liveOut, block, changed, graph, crossing, priority, scan, active>>
      /\ \E r : regOf' = [regOf EXCEPT ![c] = r]
      /\ c \in HotLiterals
  BY DEF CacheLiteral, livenessVars, Compiled, Inv, Typed
<1>2. Inv' /\ LivenessInv' /\ LiveOnlyExposed'
  BY <1>1, CacheLiteralPreservesInv, AfterLiveness DEF Compiled
<1>3. Scheduled' /\ GraphBuilt'
  BY <1>1, LivenessStays DEF Compiled, Scheduled, GraphBuilt, AfterBuild
<1>4. fn.opt
  BY <1>1 DEF Compiled, NothingUnasked, Emitted
<1>5. \A v \in SsaValues(fn) : v # c
  BY <1>1, LiteralsAreNoValues
<1>6. NothingUnasked' /\ OnlyCandidates' /\ CrossingSaved'
  BY <1>1, <1>4, <1>5, CandidatesAreValues
     DEF Compiled, NothingUnasked, OnlyCandidates, CrossingSaved, Inv, Typed
<1>7. CachedInLeaves'
  BY <1>1 DEF HotLiterals, CachedInLeaves
<1>8. QED
  BY <1>2, <1>3, <1>6, <1>7 DEF Compiled

LEMMA LastUseIsLast ==
  ASSUME fn \in Functions, NEW s \in Sites(fn), NEW u \in Uses(fn, At(fn, s).res)
  PROVE  u[1] \in LocalUses(s) /\ u[1][2] \in Nat /\ u[1][2] <= LastUse(s) /\ LastUse(s) \in Nat
<1> DEFINE ends == {t[2] : t \in LocalUses(s)}
           to == [w \in Uses(fn, At(fn, s).res) |-> w[1][2]]
<1>1. \A w \in Uses(fn, At(fn, s).res) : w[1] \in Sites(fn) /\ w[1][2] \in Nat
  BY UsesAreReaders, FunctionShape
<1>2. u[1] \in LocalUses(s) /\ u[1][2] \in ends
  BY DEF LocalUses
<1>3. /\ to \in [Uses(fn, At(fn, s).res) -> ends]
      /\ \A n \in ends : \E w \in Uses(fn, At(fn, s).res) : to[w] = n
  BY DEF LocalUses
<1>4. ends \in SUBSET Nat
  BY <1>1 DEF LocalUses
<1>5. LastUse(s) = Max(ends)
  BY DEF LastUse
<1> HIDE DEF ends, to
<1>6. IsFiniteSet(ends)
  BY <1>3, FiniteUses, FiniteImage
<1>7. QED
  BY <1>2, <1>4, <1>5, <1>6, MaxOfSet

\* A value the local scan considers is read in its own block only, with no call
\* before its last read, so no call finds it live.
LEMMA EligibleDiesBeforeCalls ==
  ASSUME Compiled, fn.opt, stage \in AfterBuild, NEW s \in Sites(fn), Eligible(s)
  PROVE  At(fn, s).res \in Candidates(fn) \ crossing
<1> DEFINE v == At(fn, s).res
<1>1. fn \in Functions
  BY DEF Compiled, Inv, Typed
<1>2. /\ At(fn, s).op \in {"arith", "icmp", "load"} /\ ~DirectCondition(fn, s)
      /\ \A u \in Uses(fn, v) : u[1][1] = s[1] /\ u[1][2] > s[2]
      /\ Uses(fn, v) # {}
      /\ \A i \in s[2] + 1 .. LastUse(s) : fn.blocks[s[1]][i].op # "call"
  BY DEF Eligible, ScanCandidate, LocalUses
<1>3. v # NoValue
  BY <1>1, <1>2, FunctionsWellFormed DEF Shaped
<1>4. DefSite(fn, v) = s /\ v \in Results(fn)
  BY <1>1, <1>3, OneDefinition
<1>5. v \in Candidates(fn)
  BY <1>2, <1>4 DEF Candidates
<1>6. s \in Nat \X Nat /\ s[1] \in Blocks(fn) /\ s[2] \in DOMAIN fn.blocks[s[1]]
      /\ fn.blocks[s[1]][s[2]].res = v /\ fn.blocks[s[1]][s[2]].op # "phi"
  BY <1>1, <1>2, FunctionShape DEF At
<1>7. \* who reads v stands behind s in its block
      ASSUME NEW b \in Blocks(fn), NEW i \in DOMAIN fn.blocks[b], v \in ToSet(fn.blocks[b][i].args)
      PROVE  b = s[1] /\ i \in Nat /\ i > s[2] /\ i <= LastUse(s) /\ LastUse(s) \in Nat
  <2>1. <<b, i>> \in Sites(fn) /\ At(fn, <<b, i>>).args = fn.blocks[b][i].args
    BY <1>1, FunctionShape DEF At
  <2>2. PICK k \in DOMAIN fn.blocks[b][i].args : fn.blocks[b][i].args[k] = v
    BY <1>7 DEF ToSet
  <2>3. <<<<b, i>>, k>> \in Uses(fn, v)
    BY <1>1, <2>1, <2>2, ReadersAreUses
  <2>4. b = s[1] /\ i > s[2]
    BY <1>2, <2>3
  <2>5. i \in Nat /\ i <= LastUse(s) /\ LastUse(s) \in Nat
    BY <1>1, <2>3, LastUseIsLast
  <2>6. QED
    BY <2>4, <2>5
<1>8. v \notin Exposed(fn)
  <2>1. SUFFICES ASSUME v \in Exposed(fn) PROVE FALSE
    OBVIOUS
  <2>2. CASE \E b \in Blocks(fn) : v \in BlockUse(fn, b)
    <3>1. PICK b \in Blocks(fn) : \E i \in DOMAIN fn.blocks[b] :
            v \in ToSet(fn.blocks[b][i].args) /\ \A j \in 1 .. i - 1 : fn.blocks[b][j].res # v
      BY <2>2 DEF BlockUse
    <3>2. PICK i \in DOMAIN fn.blocks[b] :
            v \in ToSet(fn.blocks[b][i].args) /\ \A j \in 1 .. i - 1 : fn.blocks[b][j].res # v
      BY <3>1
    <3>3. b = s[1] /\ i \in Nat /\ i > s[2]
      BY <1>7, <3>2
    <3>4. s[2] \in 1 .. i - 1
      BY <1>1, <1>6, <3>3, FunctionShape
    <3>5. QED
      BY <1>6, <3>2, <3>3, <3>4
  <2>3. CASE \E b \in Blocks(fn) : \E c \in Succs(fn, b) : \E i \in PhiSites(fn, c) :
               HasIncoming(fn.blocks[c][i], b) /\ Incoming(fn.blocks[c][i], b) = v
    <3>1. \E b \in Blocks(fn), c \in Blocks(fn) : \E i \in PhiSites(fn, c) :
               HasIncoming(fn.blocks[c][i], b) /\ Incoming(fn.blocks[c][i], b) = v
      BY <1>1, <2>3, TargetsAreBlocks
    <3>2. PICK c \in Blocks(fn) : \E i \in PhiSites(fn, c) :
               \E b : HasIncoming(fn.blocks[c][i], b) /\ Incoming(fn.blocks[c][i], b) = v
      BY <3>1
    <3>3. PICK i \in PhiSites(fn, c) :
               \E b : HasIncoming(fn.blocks[c][i], b) /\ Incoming(fn.blocks[c][i], b) = v
      BY <3>2
    <3>4. i \in DOMAIN fn.blocks[c] /\ v \in ToSet(fn.blocks[c][i].args)
      BY <1>1, <3>3, IncomingIsOperand DEF ToSet, PhiSites
    <3>5. c = s[1] /\ i \in Nat /\ i > s[2]
      BY <1>7, <3>4
    <3>6. s[2] \in 1 .. i
      BY <1>1, <1>6, <3>5, FunctionShape
    <3>7. QED
      BY <1>6, <3>5, <3>6 DEF PhiSites
  <2>4. QED
    BY <2>1, <2>2, <2>3 DEF Exposed
<1>9. ASSUME NEW t \in Sites(fn), At(fn, t).op = "call"
      PROVE  v \notin LiveAfter(t[1], t[2])
  <2>1. SUFFICES ASSUME v \in LiveAfter(t[1], t[2]) PROVE FALSE
    OBVIOUS
  <2>2. t[1] \in Blocks(fn) /\ t[2] \in DOMAIN fn.blocks[t[1]] /\ t[2] \in Nat
        /\ DOMAIN fn.blocks[t[1]] = 1 .. Len(fn.blocks[t[1]]) /\ Len(fn.blocks[t[1]]) \in Nat
    BY <1>1, FunctionShape
  <2>3. v \notin liveOut[t[1]]
    BY <1>8, <2>2 DEF Compiled, LiveOnlyExposed
  <2>4. PICK k \in t[2] + 1 .. Len(fn.blocks[t[1]]) :
          /\ v \in ToSet(fn.blocks[t[1]][k].args)
          /\ \A j \in t[2] + 1 .. k - 1 : fn.blocks[t[1]][j].res # v
    BY <2>1, <2>3 DEF LiveAfter
  <2>5. t[1] = s[1] /\ k > s[2] /\ k <= LastUse(s) /\ LastUse(s) \in Nat /\ k \in Nat
    BY <1>7, <2>2, <2>4
  <2>6. s[2] \notin t[2] + 1 .. k - 1
    BY <1>6, <2>4, <2>5
  <2>7. t[2] # s[2]
    BY <1>2, <1>6, <1>9, <2>5 DEF At
  <2>8. t[2] \in s[2] + 1 .. LastUse(s)
    BY <1>6, <2>2, <2>4, <2>5, <2>6, <2>7
  <2>9. QED
    BY <1>2, <1>9, <2>5, <2>8 DEF At
<1>10. v \notin crossing
  BY <1>9 DEF Compiled, GraphBuilt, LiveAcrossCalls
<1>11. QED
  BY <1>5, <1>10

LEMMA ScanSiteCompiled == Compiled /\ ScanSite => Compiled'
<1> SUFFICES ASSUME Compiled, ScanSite PROVE Compiled'
  OBVIOUS
<1> DEFINE v == At(fn, scan).res
<1>1. /\ stage = "scanning" /\ stage' = "scanning" /\ fn \in Functions /\ scan \in Sites(fn)
      /\ UNCHANGED <<fn, liveIn, liveOut, block, changed, graph, crossing, priority>>
  BY DEF ScanSite, livenessVars, Compiled, Inv, Typed
<1>2. Inv' /\ LivenessInv' /\ LiveOnlyExposed'
  BY <1>1, ScanSitePreservesInv, AfterLiveness DEF Compiled
<1>3. fn.opt
  BY <1>1 DEF Compiled, NothingUnasked, Emitted
<1>4. GraphBuilt' /\ NothingUnasked' /\ CachedInLeaves'
  BY <1>1, <1>2, <1>3, LivenessStays
     DEF Compiled, GraphBuilt, AfterBuild, NothingUnasked, CachedInLeaves, Inv, LiteralsWait, BeforeCaching
<1>5. scan' \in Sites(fn) \cup {<<0, 0>>}
  <2>1. scan \in Nat \X Nat
    BY <1>1, FunctionShape
  <2>2. QED
    BY <1>1, <2>1, NextSiteInFunction DEF ScanSite
<1>6. CASE /\ Eligible(scan) /\ \E r : regOf' = [regOf EXCEPT ![v] = r]
           /\ active' \subseteq active \cup {v}
  <2>1. v \in Candidates(fn) \ crossing
    BY <1>1, <1>3, <1>6, EligibleDiesBeforeCalls DEF AfterBuild
  <2>2. v \in Results(fn)
    <3>1. v # NoValue
      BY <1>1, <1>6, FunctionsWellFormed DEF Eligible, ScanCandidate, Shaped
    <3>2. QED
      BY <1>1, <3>1 DEF Results
  <2>3. Scheduled'
    BY <1>1, <1>5, <1>6, <2>2 DEF Compiled, Scheduled
  <2>4. OnlyCandidates' /\ CrossingSaved'
    BY <1>1, <1>6, <2>1, CandidatesAreValues
       DEF Compiled, OnlyCandidates, CrossingSaved, Inv, Typed
  <2>5. QED
    BY <1>2, <1>4, <2>3, <2>4 DEF Compiled
<1>7. CASE UNCHANGED regOf /\ active' \subseteq active
  <2>1. Scheduled' /\ OnlyCandidates' /\ CrossingSaved'
    BY <1>1, <1>5, <1>7 DEF Compiled, Scheduled, OnlyCandidates, CrossingSaved
  <2>2. QED
    BY <1>2, <1>4, <2>1 DEF Compiled
<1>8. QED
  <2> DEFINE live == {w \in active : DefSite(fn, w)[1] = scan[1]
                                     /\ LastUse(DefSite(fn, w)) >= scan[2]}
             found == FirstFree(TRegs, {regOf[w] : w \in live})
  <2>1. CASE Eligible(scan) /\ found # NoReg
    <3>1. regOf' = [regOf EXCEPT ![v] = found] /\ active' = live \cup {v}
      BY <2>1 DEF ScanSite
    <3>2. live \subseteq active
      OBVIOUS
    <3> HIDE DEF live, found
    <3>3. QED
      BY <1>6, <2>1, <3>1, <3>2
  <2>2. CASE ~(Eligible(scan) /\ found # NoReg)
    <3>1. regOf' = regOf /\ active' = live
      BY <2>2 DEF ScanSite
    <3>2. QED
      BY <1>7, <3>1
  <2>3. QED
    BY <2>1, <2>2

MachineNext ==
  \/ GiveUp
  \/ Enter
  \/ \E i \in 1 .. Len(fn.params) :
       MoveParamToRegister(i) \/ MoveParamHome(i) \/ LeaveParam(i)
  \/ EnterBody
  \/ Compute \/ Defer \/ LoadLocal \/ SetLocal \/ Pass
  \/ StackArguments \/ RegisterArguments \/ CalleeReturns
  \/ \E c \in Blocks(fn) : Branch(c) \/ FallInto(c)
  \/ Return \/ FallIntoExit

LEMMA MachineMovesOn ==
  ASSUME MachineNext
  PROVE  /\ UNCHANGED <<fn, liveIn, liveOut, block, changed, allocVars>>
         /\ stage' \in Emitted /\ stage \in Emitted \cup {"allocated"}
<1> USE DEF Emitted
<1>1. CASE GiveUp \/ Enter \/ EnterBody
  BY <1>1 DEF GiveUp, Enter, EnterBody
<1>2. CASE \E i \in 1 .. Len(fn.params) : MoveParamToRegister(i) \/ MoveParamHome(i) \/ LeaveParam(i)
  BY <1>2 DEF MoveParamToRegister, MoveParamHome, LeaveParam, Moving, compiler, livenessVars
<1>3. CASE Compute \/ Defer \/ LoadLocal \/ SetLocal \/ Pass
  BY <1>3 DEF Compute, Defer, LoadLocal, SetLocal, Pass, AtInst, compiler, livenessVars
<1>4. CASE StackArguments \/ RegisterArguments
  BY <1>4 DEF StackArguments, RegisterArguments, AtInst
<1>5. CASE CalleeReturns
  BY <1>5 DEF CalleeReturns
<1>6. CASE \E c \in Blocks(fn) : Branch(c) \/ FallInto(c)
  BY <1>6 DEF Branch, FallInto, AtInst, compiler, livenessVars
<1>7. CASE Return \/ FallIntoExit
  BY <1>7 DEF Return, FallIntoExit, Leave, AtInst
<1>8. QED
  BY <1>1, <1>2, <1>3, <1>4, <1>5, <1>6, <1>7 DEF MachineNext

LEMMA AllocNextCompiled == Compiled /\ AllocNext => Compiled'
<1> SUFFICES ASSUME Compiled, AllocNext PROVE Compiled'
  OBVIOUS
<1>1. CASE LivenessNext /\ UNCHANGED allocVars
  <2>1. /\ stage = "liveness" /\ stage' \in {"liveness", "interference"} /\ fn' = fn
        /\ UNCHANGED allocVars
    BY <1>1 DEF LivenessNext, VisitBlock, SweepAgain, LivenessDone
  <2>2. Inv' /\ LivenessInv'
    BY <1>1, StepPreservesInv, StepPreservesLivenessInv DEF Compiled, AllocNext
  <2>3. LiveOnlyExposed'
    <3>1. CASE VisitBlock
      BY <3>1, VisitStaysExposed DEF Compiled
    <3>2. CASE SweepAgain \/ LivenessDone
      BY <3>2 DEF Compiled, LiveOnlyExposed, SweepAgain, LivenessDone
    <3>3. QED
      BY <1>1, <3>1, <3>2 DEF LivenessNext
  <2>4. fn.opt
    BY <2>1 DEF Compiled, NothingUnasked, Emitted
  <2>5. Scheduled' /\ NothingUnasked' /\ OnlyCandidates' /\ CrossingSaved' /\ CachedInLeaves'
    BY <2>1, <2>4 DEF Compiled, Scheduled, NothingUnasked, OnlyCandidates, CrossingSaved,
                      CachedInLeaves, allocVars
  <2>6. GraphBuilt'
    BY <2>1 DEF GraphBuilt, AfterBuild
  <2>7. QED
    BY <2>2, <2>3, <2>5, <2>6 DEF Compiled
<1>2. CASE BuildGraph
  BY <1>2, BuildGraphCompiled
<1>3. CASE \E v \in uncoloured : Colour(v)
  BY <1>3, ColourCompiled
<1>4. CASE ScanSite
  BY <1>4, ScanSiteCompiled
<1>5. CASE \E c \in Literals : CacheLiteral(c)
  BY <1>5, CacheLiteralCompiled
<1>6. CASE ColouringDone \/ ScanDone \/ CachingDone
  <2>1. /\ UNCHANGED <<fn, liveIn, liveOut, block, changed, allocVars>>
        /\ stage \in {"colouring", "scanning", "caching"}
        /\ stage' \in {"scanning", "caching", "allocated"}
    BY <1>6 DEF ColouringDone, ScanDone, CachingDone
  <2>2. Inv'
    BY <1>6, StepPreservesInv DEF Compiled, AllocNext
  <2>3. LivenessInv' /\ LiveOnlyExposed'
    BY <2>1, AfterLiveness DEF Compiled
  <2>4. fn.opt
    BY <2>1 DEF Compiled, NothingUnasked, Emitted
  <2>5. Scheduled' /\ NothingUnasked' /\ OnlyCandidates' /\ CrossingSaved' /\ CachedInLeaves'
    BY <2>1, <2>4 DEF Compiled, Scheduled, NothingUnasked, OnlyCandidates, CrossingSaved,
                      CachedInLeaves, allocVars
  <2>6. GraphBuilt'
    BY <2>1, LivenessStays DEF Compiled, GraphBuilt, AfterBuild, allocVars
  <2>7. QED
    BY <2>2, <2>3, <2>5, <2>6 DEF Compiled
<1>7. QED
  BY <1>1, <1>2, <1>3, <1>4, <1>5, <1>6 DEF AllocNext

LEMMA NextCompiled == Compiled /\ [Next]_vars => Compiled'
<1> SUFFICES ASSUME Compiled, [Next]_vars PROVE Compiled'
  OBVIOUS
<1>1. CASE AllocNext
  BY <1>1, AllocNextCompiled
<1>2. CASE MachineNext
  BY <1>2, MachineMovesOn, StageStep
<1>3. CASE UNCHANGED vars
  <2>1. UNCHANGED <<livenessVars, allocVars>> /\ liveOut' = liveOut /\ fn' = fn
    BY <1>3 DEF vars, compiler, livenessVars
  <2>2. Inv' /\ LivenessInv'
    BY <2>1, StepPreservesInv, StepPreservesLivenessInv DEF Compiled
  <2>3. Cliques' = Cliques /\ LiveAcrossCalls' = LiveAcrossCalls
    BY <2>1, LivenessStays
  <2>4. QED
    BY <2>1, <2>2, <2>3 DEF Compiled, LiveOnlyExposed, Scheduled, NothingUnasked, OnlyCandidates,
       GraphBuilt, CrossingSaved, CachedInLeaves, livenessVars, allocVars
<1>4. QED
  BY <1>1, <1>2, <1>3 DEF Next, MachineNext, Over

LEMMA CompiledAlways == Spec => []Compiled
<1>1. Init => Compiled
  BY InitCompiled DEF Init
<1>2. QED
  BY <1>1, NextCompiled, PTL DEF Spec

-----------------------------------------------------------------------------
(* Places. *)

LEMMA FrameStays ==
  ASSUME fn' = fn, regOf' = regOf
  PROVE  /\ \A v : Allocated(v)' = Allocated(v)
         /\ HomeParams' = HomeParams /\ Slotted' = Slotted /\ UsedCalleeSaved' = UsedCalleeSaved
         /\ OutgoingWords' = OutgoingWords /\ HasCall' = HasCall /\ RaOffset' = RaOffset
         /\ TempBase' = TempBase /\ ParamBase' = ParamBase /\ SlotBase' = SlotBase
         /\ SavedBase' = SavedBase /\ FrameSize' = FrameSize
         /\ \A v : ParamIndex(v)' = ParamIndex(v) /\ ParamOffset(v)' = ParamOffset(v)
         /\ \A v : SlotOffset(v)' = SlotOffset(v) /\ SavedOffset(v)' = SavedOffset(v)
         /\ \A i : StackParamOffset(i)' = StackParamOffset(i)
<1>1. \A v : Allocated(v)' = Allocated(v) /\ ParamIndex(v)' = ParamIndex(v)
  BY DEF Allocated, ParamIndex
<1>2. HomeParams' = HomeParams /\ Slotted' = Slotted /\ UsedCalleeSaved' = UsedCalleeSaved
  BY <1>1 DEF HomeParams, Slotted, UsedCalleeSaved
<1>3. HasCall' = HasCall /\ OutgoingWords' = OutgoingWords
  BY DEF HasCall, OutgoingWords
<1>4. TempBase' = TempBase /\ RaOffset' = RaOffset
  BY <1>3 DEF TempBase, RaOffset
<1>5. TempCount' = TempCount
  BY <1>1 DEF TempCount
<1>6. ParamBase' = ParamBase /\ SlotBase' = SlotBase
  BY <1>2, <1>4, <1>5 DEF ParamBase, SlotBase
<1>7. SavedBase' = SavedBase
  BY <1>2, <1>6 DEF SavedBase
<1>8. FrameSize' = FrameSize
  BY <1>2, <1>7 DEF FrameSize
<1>9. ASSUME NEW v PROVE ParamOffset(v)' = ParamOffset(v)
  BY <1>1, <1>2, <1>6 DEF ParamOffset
<1>10. ASSUME NEW v PROVE SlotOffset(v)' = SlotOffset(v)
  BY <1>2, <1>6 DEF SlotOffset, DefinedBefore
<1>11. ASSUME NEW v PROVE SavedOffset(v)' = SavedOffset(v)
  BY <1>2, <1>7 DEF SavedOffset
<1>12. ASSUME NEW i PROVE StackParamOffset(i)' = StackParamOffset(i)
  BY <1>8 DEF StackParamOffset
<1>13. QED
  BY <1>1, <1>2, <1>3, <1>4, <1>6, <1>7, <1>8, <1>9, <1>10, <1>11, <1>12

LEMMA CodeStays ==
  ASSUME fn' = fn, regOf' = regOf
  PROVE  /\ \A s : LeftToBranch(s)' = LeftToBranch(s) /\ Reads(s)' = Reads(s)
         /\ \A b : EdgeReads(b)' = EdgeReads(b)
         /\ LoweringFails' = LoweringFails
<1>1. \A s : LeftToBranch(s)' = LeftToBranch(s)
  BY DEF LeftToBranch
<1>2. \A s : FusedCompare(s)' = FusedCompare(s)
  BY <1>1 DEF FusedCompare
<1>3. \A s : Reads(s)' = Reads(s)
  BY <1>1, <1>2 DEF Reads
<1>4. \A b : EdgeReads(b)' = EdgeReads(b)
  BY DEF EdgeReads
<1>5. \A v : Placed(v)' = Placed(v)
  BY FrameStays DEF Placed
<1>6. LoweringFails' = LoweringFails
  BY <1>1, <1>3, <1>4, <1>5 DEF LoweringFails
<1>7. QED
  BY <1>1, <1>3, <1>4, <1>6

\* A parameter is found again under its number.
LEMMA ParamsNumbered ==
  ASSUME NEW f \in Functions
  PROVE  /\ Len(f.params) \in Nat /\ DOMAIN f.params = 1 .. Len(f.params)
         /\ \A i \in DOMAIN f.params : f.params[i] \in Params(f) /\ IndexOf(f.params, f.params[i]) = i
         /\ \A v \in Params(f) : /\ IndexOf(f.params, v) \in DOMAIN f.params
                                 /\ f.params[IndexOf(f.params, v)] = v
<1>1. f.params \in Seq(ToSet(f.params))
  BY ParamsInOrder
<1>2. \A i, j \in DOMAIN f.params : f.params[i] = f.params[j] => i = j
  BY FunctionsWellFormed DEF SingleAssignment, IsInjective
<1>3. ASSUME NEW v \in Params(f)
      PROVE  IndexOf(f.params, v) \in DOMAIN f.params /\ f.params[IndexOf(f.params, v)] = v
  BY DEF IndexOf, Params, ToSet
<1>4. ASSUME NEW i \in DOMAIN f.params
      PROVE  f.params[i] \in Params(f) /\ IndexOf(f.params, f.params[i]) = i
  <2>1. f.params[i] \in Params(f)
    BY DEF Params, ToSet
  <2>2. QED
    BY <1>2, <1>3, <2>1
<1>5. QED
  BY <1>1, <1>3, <1>4

InFrame(v) == ~Allocated(v) /\ v \notin Literals /\ (v \in Params(fn) \/ v \in Slotted)

\* The word of a value that is in memory.
Word(v) ==
  IF v \in Params(fn) /\ OnStack(ParamIndex(v)) THEN StackParamOffset(ParamIndex(v))
  ELSE IF v \in Params(fn) THEN ParamOffset(v)
  ELSE SlotOffset(v)

Words == 0 .. FrameSize + WordsOnStack(Len(fn.params)) - 1

LEMMA WordsApart ==
  ASSUME fn \in Functions, NEW v, InFrame(v)
  PROVE  /\ Word(v) \in Words /\ ParamBase <= Word(v)
         /\ Word(v) < SavedBase \/ FrameSize <= Word(v)
         /\ \A u : InFrame(u) /\ Word(u) = Word(v) => u = v
<1> DEFINE Stacked(u) == u \in Params(fn) /\ OnStack(ParamIndex(u))
<1>1. AreasApart
  BY LayoutApart
<1>2. /\ ParamBase \in Nat /\ SlotBase \in Nat /\ SavedBase \in Nat /\ FrameSize \in Nat
      /\ SavedBase <= FrameSize /\ Len(ARegs) \in Nat
  BY <1>1, AreasInOrder, RegisterLists DEF AreasApart
<1>3. ASSUME NEW u, InFrame(u), Stacked(u)
      PROVE  /\ Word(u) \in Nat /\ FrameSize <= Word(u)
             /\ Word(u) < FrameSize + WordsOnStack(Len(fn.params))
             /\ ParamIndex(u) = Word(u) - FrameSize + Len(ARegs) + 1
             /\ fn.params[ParamIndex(u)] = u
  <2>1. /\ Word(u) = FrameSize + (ParamIndex(u) - Len(ARegs) - 1)
        /\ ParamIndex(u) > Len(ARegs)
    BY <1>3 DEF Word, StackParamOffset, OnStack
  <2>2. /\ ParamIndex(u) \in 1 .. Len(fn.params) /\ Len(fn.params) \in Nat
        /\ fn.params[ParamIndex(u)] = u
    BY <1>3, ParamsNumbered DEF ParamIndex
  <2>3. WordsOnStack(Len(fn.params)) = Len(fn.params) - Len(ARegs)
    BY <1>2, <2>1, <2>2 DEF WordsOnStack
  <2> DEFINE p == ParamIndex(u)
             n == Len(ARegs)
  <2>4. /\ p \in Nat /\ n \in Nat /\ p > n /\ p <= Len(fn.params) /\ FrameSize \in Nat
        /\ Word(u) = FrameSize + (p - n - 1)
    BY <1>2, <2>1, <2>2
  <2>5. fn.params[p] = u
    BY <2>2
  <2> HIDE DEF p, n
  <2>6. Word(u) \in Nat /\ FrameSize <= Word(u) /\ p = Word(u) - FrameSize + n + 1
    BY <2>4
  <2>7. Word(u) < FrameSize + (Len(fn.params) - n)
    BY <2>2, <2>4
  <2>8. QED
    BY <2>3, <2>5, <2>6, <2>7 DEF p, n
<1>4. ASSUME NEW u, InFrame(u), u \in Params(fn), ~Stacked(u)
      PROVE  /\ u \in HomeParams /\ Word(u) = ParamOffset(u)
             /\ Word(u) \in Nat /\ ParamBase <= Word(u) /\ Word(u) < SlotBase
  <2>1. u \in HomeParams /\ Word(u) = ParamOffset(u)
    BY <1>4 DEF InFrame, HomeParams, Word
  <2>2. ParamBase <= Word(u) /\ Word(u) < SlotBase
    BY <1>1, <2>1 DEF AreasApart
  <2>3. Word(u) \in Nat
    <3>1. Cardinality({w \in HomeParams : ParamIndex(w) < ParamIndex(u)}) \in Nat
      BY <2>1, HomesApart
    <3>2. QED
      BY <1>2, <2>1, <3>1 DEF ParamOffset
  <2>4. QED
    BY <2>1, <2>2, <2>3
<1>5. ASSUME NEW u, InFrame(u), u \notin Params(fn)
      PROVE  /\ u \in Slotted /\ Word(u) = SlotOffset(u)
             /\ Word(u) \in Nat /\ SlotBase <= Word(u) /\ Word(u) < SavedBase
  <2>1. u \in Slotted /\ Word(u) = SlotOffset(u)
    BY <1>5 DEF InFrame, Word
  <2>2. SlotBase <= Word(u) /\ Word(u) < SavedBase
    BY <1>1, <2>1 DEF AreasApart
  <2>3. Word(u) \in Nat
    <3>1. Cardinality({w \in Slotted : DefinedBefore(w, u)}) \in Nat
      BY <2>1, SlotsApart
    <3>2. QED
      BY <1>2, <2>1, <3>1 DEF SlotOffset
  <2>4. QED
    BY <2>1, <2>2, <2>3
<1>6. ParamBase <= SlotBase /\ SlotBase <= SavedBase
  <2>1. Cardinality(HomeParams) \in Nat /\ Cardinality(Slotted) \in Nat
    BY FiniteFunction, FS_Subset, FS_CardinalityType DEF HomeParams, Slotted
  <2>2. QED
    BY <1>2, <2>1 DEF SlotBase, SavedBase
<1>7. WordsOnStack(Len(fn.params)) \in Nat
  BY <1>2, ParamsNumbered DEF WordsOnStack
<1>8. /\ Word(v) \in Words /\ ParamBase <= Word(v)
      /\ Word(v) < SavedBase \/ FrameSize <= Word(v)
  <2>1. CASE Stacked(v)
    BY <1>2, <1>3, <1>6, <1>7, <2>1 DEF Words
  <2>2. CASE v \in Params(fn) /\ ~Stacked(v)
    BY <1>2, <1>4, <1>6, <1>7, <2>2 DEF Words
  <2>3. CASE v \notin Params(fn)
    BY <1>2, <1>5, <1>6, <1>7, <2>3 DEF Words
  <2>4. QED
    BY <2>1, <2>2, <2>3
<1>9. ASSUME NEW u, InFrame(u), Word(u) = Word(v)
      PROVE  u = v
  <2>1. CASE Stacked(v)
    <3>1. Stacked(u)
      BY <1>2, <1>3, <1>4, <1>5, <1>6, <1>9, <2>1
    <3>2. QED
      BY <1>3, <1>9, <2>1, <3>1
  <2>2. CASE v \in Params(fn) /\ ~Stacked(v)
    <3>1. u \in Params(fn) /\ ~Stacked(u)
      BY <1>2, <1>3, <1>4, <1>5, <1>6, <1>9, <2>2
    <3>2. QED
      BY <1>1, <1>4, <1>9, <2>2, <3>1 DEF AreasApart
  <2>3. CASE v \notin Params(fn)
    <3>1. u \notin Params(fn)
      BY <1>2, <1>3, <1>4, <1>5, <1>6, <1>9, <2>3
    <3>2. QED
      BY <1>1, <1>5, <1>9, <2>3, <3>1 DEF AreasApart
  <2>4. QED
    BY <2>1, <2>2, <2>3
<1>10. QED
  BY <1>8, <1>9

-----------------------------------------------------------------------------
(* Registers, values and places. *)

LEMMA ListsApart ==
  ASSUME NEW t, t \in Seq(ToSet(t)), NEW a, a \in Seq(ToSet(a)), NEW s, s \in Seq(ToSet(s)),
         IsInjective(t \o a \o s)
  PROVE  /\ ToSet(a) \cap ToSet(s) = {}
         /\ \A i, j \in DOMAIN a : a[i] = a[j] => i = j
<1> DEFINE all == t \o a \o s
<1>1. \A i, j \in DOMAIN all : all[i] = all[j] => i = j
  BY DEF IsInjective
<1>2. /\ Len(t) \in Nat /\ Len(a) \in Nat /\ Len(s) \in Nat
      /\ DOMAIN a = 1 .. Len(a) /\ DOMAIN s = 1 .. Len(s)
  OBVIOUS
<1>3. ASSUME NEW i \in DOMAIN a
      PROVE  i + Len(t) \in DOMAIN all /\ all[i + Len(t)] = a[i]
  OBVIOUS
<1>4. ASSUME NEW i \in DOMAIN s
      PROVE  i + Len(t) + Len(a) \in DOMAIN all /\ all[i + Len(t) + Len(a)] = s[i]
  OBVIOUS
<1> HIDE DEF all
<1>5. \A i, j \in DOMAIN a : a[i] = a[j] => i = j
  <2>1. SUFFICES ASSUME NEW i \in DOMAIN a, NEW j \in DOMAIN a, a[i] = a[j] PROVE i = j
    OBVIOUS
  <2>2. i + Len(t) = j + Len(t)
    BY <1>1, <1>3, <2>1
  <2>3. QED
    BY <1>2, <2>2
<1>6. ASSUME NEW i \in DOMAIN a, NEW j \in DOMAIN s, a[i] = s[j] PROVE FALSE
  <2>1. i + Len(t) = j + Len(t) + Len(a)
    BY <1>1, <1>3, <1>4, <1>6
  <2>2. QED
    BY <1>2, <2>1
<1>7. QED
  BY <1>5, <1>6 DEF ToSet

LEMMA RegisterFacts ==
  /\ ToSet(SRegs) \subseteq Registers /\ ToSet(ARegs) \subseteq Registers
  /\ Len(ARegs) \in Nat /\ DOMAIN ARegs = 1 .. Len(ARegs) /\ 1 \in DOMAIN ARegs
  /\ \A i \in DOMAIN ARegs : ARegs[i] \in Registers /\ ARegs[i] \notin ToSet(SRegs)
  /\ \A i, j \in DOMAIN ARegs : ARegs[i] = ARegs[j] => i = j
  /\ NoReg \notin Registers \cup {Ra} /\ Ra \notin Registers
<1>1. ARegs \in Seq(ToSet(ARegs)) /\ ARegs # << >>
  BY RegisterSequences, NamesApart
<1>2. Len(ARegs) \in Nat /\ DOMAIN ARegs = 1 .. Len(ARegs) /\ 1 \in DOMAIN ARegs
  BY <1>1
<1>3. \A i \in DOMAIN ARegs : ARegs[i] \in ToSet(ARegs)
  BY DEF ToSet
<1>4. ToSet(ARegs) \subseteq Registers /\ ToSet(SRegs) \subseteq Registers /\ NoReg \notin Registers
  BY RegisterLists
<1>5. /\ ToSet(ARegs) \cap ToSet(SRegs) = {}
      /\ \A i, j \in DOMAIN ARegs : ARegs[i] = ARegs[j] => i = j
  BY RegisterLists, RegistersApart, ListsApart
<1>6. QED
  BY <1>2, <1>3, <1>4, <1>5, NamesApart

\* The result of a comparison left to the branch has no place of its own.
Deferred == {At(fn, s).res : s \in {t \in Sites(fn) : LeftToBranch(t)}}

LEMMA ValuesAndNames ==
  ASSUME Compiled
  PROVE  /\ fn \in Functions
         /\ \A v \in SsaValues(fn) : v \notin Literals /\ v \notin Registers \cup {Ra} /\ v # NoValue
         /\ \A c \in Literals : c \notin Registers \cup {Ra} /\ c # NoValue
         /\ \A v \in SsaValues(fn) \cup Literals : Allocated(v) => regOf[v] \in Registers
         /\ \A v \in SsaValues(fn) : Allocated(v) => v \in Candidates(fn)
<1>1. fn \in Functions /\ regOf \in [SsaValues(fn) \cup Literals -> Registers \cup {NoReg}]
  BY DEF Compiled, Inv, Typed
<1>2. \A v \in SsaValues(fn) : v \notin Literals /\ v \notin Registers \cup {Ra}
  BY <1>1, LiteralsAreNoValues, NamesApart
<1>3. \A v \in SsaValues(fn) : v # NoValue
  BY <1>1, FunctionsWellFormed DEF SingleAssignment, SsaValues, Results
<1>4. \A c \in Literals : c \notin Registers \cup {Ra} /\ c # NoValue
  BY <1>1, LiteralsAreNoValues, NamesApart
<1>5. QED
  BY <1>1, <1>2, <1>3, <1>4 DEF Allocated, Compiled, OnlyCandidates

LEMMA ContentsWhere ==
  ASSUME Compiled, NEW v \in SsaValues(fn) \cup Literals
  PROVE  Contents(v) = IF Allocated(v) THEN reg[regOf[v]]
                       ELSE IF v \in Literals THEN {v} ELSE mem[Word(v)]
BY DEF Contents, Word

LEMMA PlacedWhere ==
  ASSUME NEW v, Placed(v)
  PROVE  Allocated(v) \/ v \in Literals \/ InFrame(v)
BY DEF Placed, InFrame

\* In a function that can be lowered, what the code reads has a place.
LEMMA ReadsPlaced ==
  ASSUME ~LoweringFails
  PROVE  /\ \A s \in Sites(fn) : \A v \in Reads(s) : Placed(v)
         /\ \A b \in Blocks(fn) : \A v \in EdgeReads(b) : Placed(v)
BY DEF LoweringFails

\* A phi kept nowhere is the condition of its block's branch, which then has
\* nothing to read; any other result kept nowhere is one too many at once.
LEMMA ValuesPlaced ==
  ASSUME Compiled, ~LoweringFails, NEW v \in SsaValues(fn) \ Deferred
  PROVE  Allocated(v) \/ InFrame(v)
<1>1. fn \in Functions /\ v \notin Literals
  BY ValuesAndNames
<1>2. CASE v \in Params(fn)
  BY <1>1, <1>2 DEF InFrame
<1>3. CASE v \notin Params(fn)
  <2> DEFINE s == DefSite(fn, v)
  <2>1. v \in Results(fn) /\ s \in Sites(fn) /\ At(fn, s).res = v /\ v # NoValue
    BY <1>1, <1>3, ResultsHaveSites DEF SsaValues
  <2>2. ~LeftToBranch(s)
    BY <2>1 DEF Deferred
  <2>3. CASE At(fn, s).op # "phi"
    <3>1. Placed(v)
      BY <2>1, <2>2, <2>3 DEF LoweringFails
    <3>2. QED
      BY <1>1, <3>1, PlacedWhere
  <2>4. CASE At(fn, s).op = "phi" /\ ~DirectCondition(fn, s)
    BY <1>1, <2>1, <2>4 DEF InFrame, Slotted
  <2>5. CASE At(fn, s).op = "phi" /\ DirectCondition(fn, s)
    <3>1. Cardinality(Uses(fn, v)) = 1
          /\ \A u \in Uses(fn, v) : u[1][1] = s[1] /\ At(fn, u[1]).op = "condbr"
      BY <2>1, <2>5 DEF DirectCondition
    <3>2. PICK u : u \in Uses(fn, v)
      BY <3>1, FS_EmptySet
    <3>3. /\ u[1] \in Sites(fn) /\ At(fn, u[1]).op = "condbr"
          /\ u[2] \in DOMAIN At(fn, u[1]).args /\ At(fn, u[1]).args[u[2]] = v
      BY <1>1, <3>1, <3>2, UsesAreReaders
    <3>4. At(fn, u[1]).args[1] = v
      <4>1. Len(At(fn, u[1]).args) = 1 /\ At(fn, u[1]).args \in Seq(SsaValues(fn) \cup Literals)
        BY <1>1, <3>3, FunctionsWellFormed DEF Shaped
      <4>2. QED
        BY <3>3, <4>1
    <3>5. ~FusedCompare(u[1])
      <4>1. SUFFICES ASSUME NEW c \in Sites(fn), LeftToBranch(c), At(fn, c).res = v PROVE FALSE
        BY <3>4 DEF FusedCompare
      <4>2. c = s
        BY <1>1, <2>1, <4>1, OneDefinition
      <4>3. QED
        BY <2>2, <4>1, <4>2
    <3>6. v \in Reads(u[1])
      BY <3>3, <3>5 DEF Reads, LeftToBranch, ToSet
    <3>7. QED
      BY <1>1, <3>3, <3>6, ReadsPlaced, PlacedWhere
  <2>6. QED
    BY <2>3, <2>4, <2>5
<1>4. QED
  BY <1>2, <1>3

-----------------------------------------------------------------------------
(* The words of the frame. *)

SavedWords == {SavedOffset(r) : r \in UsedCalleeSaved} \cup (IF HasCall THEN {RaOffset} ELSE {})

LEMMA BasesInOrder ==
  ASSUME fn \in Functions
  PROVE  /\ OutgoingWords \in Nat /\ TempBase \in Nat /\ ParamBase \in Nat /\ SlotBase \in Nat
         /\ SavedBase \in Nat /\ FrameSize \in Nat /\ WordsOnStack(Len(fn.params)) \in Nat
         /\ OutgoingWords <= TempBase /\ TempBase <= ParamBase /\ ParamBase <= SlotBase
         /\ SlotBase <= SavedBase /\ SavedBase <= FrameSize
         /\ HasCall => RaOffset = OutgoingWords /\ RaOffset < TempBase
<1>1. /\ OutgoingWords \in Nat /\ TempBase \in Nat /\ ParamBase \in Nat /\ SlotBase \in Nat
      /\ SavedBase \in Nat /\ FrameSize \in Nat
      /\ OutgoingWords <= TempBase /\ TempBase <= ParamBase
  BY AreasInOrder
<1>2. SavedBase <= FrameSize
  BY LayoutApart DEF AreasApart
<1>3. Cardinality(HomeParams) \in Nat /\ Cardinality(Slotted) \in Nat
  BY FiniteFunction, FS_Subset, FS_CardinalityType DEF HomeParams, Slotted
<1>4. ParamBase <= SlotBase /\ SlotBase <= SavedBase
  BY <1>1, <1>3 DEF SlotBase, SavedBase
<1>5. WordsOnStack(Len(fn.params)) \in Nat
  BY ParamsNumbered, RegisterFacts DEF WordsOnStack
<1>6. HasCall => RaOffset = OutgoingWords /\ RaOffset < TempBase
  BY <1>1 DEF RaOffset, TempBase
<1>7. QED
  BY <1>1, <1>2, <1>4, <1>5, <1>6

LEMMA SavedInFrame ==
  ASSUME fn \in Functions
  PROVE  /\ SavedWords \subseteq Words
         /\ \A r \in UsedCalleeSaved : SavedOffset(r) \in Words
         /\ HasCall => RaOffset \in Words
         /\ \A w \in SavedWords : \/ HasCall /\ w = RaOffset /\ OutgoingWords <= w /\ w < TempBase
                                  \/ SavedBase <= w /\ w < FrameSize
<1>1. ASSUME NEW r \in UsedCalleeSaved
      PROVE  SavedOffset(r) \in Nat /\ SavedBase <= SavedOffset(r) /\ SavedOffset(r) < FrameSize
  <2>1. SavedBase <= SavedOffset(r) /\ SavedOffset(r) < FrameSize
    BY LayoutApart DEF AreasApart
  <2>2. Cardinality({q \in UsedCalleeSaved : IndexOf(SRegs, q) < IndexOf(SRegs, r)}) \in Nat
    BY SavedRegistersApart
  <2>3. SavedOffset(r) \in Nat
    BY <2>2, BasesInOrder DEF SavedOffset
  <2>4. QED
    BY <2>1, <2>3
<1>2. \A r \in UsedCalleeSaved : SavedOffset(r) \in Words
  BY <1>1, BasesInOrder DEF Words
<1>3. HasCall => RaOffset \in Words /\ OutgoingWords <= RaOffset /\ RaOffset < TempBase
  BY BasesInOrder DEF Words
<1>4. QED
  BY <1>1, <1>2, <1>3 DEF SavedWords

-----------------------------------------------------------------------------
(* The course of the execution. *)

Compiling == {"liveness", "interference", "colouring", "scanning", "caching", "allocated"}
InBody == {"running", "stacked", "called", "returned"}
Running == {"prologue"} \cup InBody

AtCall == pc[2] \in DOMAIN fn.blocks[pc[1]] /\ At(fn, pc).op = "call"

Course ==
  /\ stage \in Stages
  /\ pc \in Blocks(fn) \X Nat /\ pc[2] \in 1 .. Len(fn.blocks[pc[1]]) + 1
  /\ moved \in 0 .. Len(fn.params)
  /\ stage \notin Running => moved = 0
  /\ stage \notin InBody => pc = <<Entry, 1>>
  /\ stage \notin Running => mem = << >>
  /\ stage \in Running => DOMAIN mem = Words /\ ~LoweringFails
  /\ stage \in {"stacked", "called"} => AtCall
  /\ stage = "running" /\ pc[2] \notin DOMAIN fn.blocks[pc[1]] => ~Terminated(fn, pc[1])
  /\ stage = "returned" /\ pc[2] \in DOMAIN fn.blocks[pc[1]] => At(fn, pc).op = "ret"
  /\ stage = "failed" => LoweringFails

LEMMA FunctionStays ==
  ASSUME MachineNext
  PROVE  /\ fn' = fn /\ regOf' = regOf /\ liveOut' = liveOut /\ liveIn' = liveIn
         /\ Words' = Words /\ LoweringFails' = LoweringFails /\ Names' = Names
<1>1. fn' = fn /\ regOf' = regOf /\ liveOut' = liveOut /\ liveIn' = liveIn
  BY MachineMovesOn DEF allocVars
<1>2. FrameSize' = FrameSize
  BY <1>1, FrameStays
<1>3. LoweringFails' = LoweringFails
  BY <1>1, CodeStays
<1>4. QED
  BY <1>1, <1>2, <1>3 DEF Words, Names

\* Where the next instruction is.
LEMMA HereIsSite ==
  ASSUME Compiled, Course, pc[2] \in DOMAIN fn.blocks[pc[1]]
  PROVE  /\ fn \in Functions /\ pc \in Sites(fn) /\ pc[1] \in Blocks(fn)
         /\ At(fn, pc) = fn.blocks[pc[1]][pc[2]] /\ pc = <<pc[1], pc[2]>>
         /\ pc[2] \in Nat /\ DOMAIN fn.blocks[pc[1]] = 1 .. Len(fn.blocks[pc[1]])
         /\ Len(fn.blocks[pc[1]]) \in Nat
<1>1. fn \in Functions /\ pc[1] \in Blocks(fn) /\ pc = <<pc[1], pc[2]>>
  BY ValuesAndNames DEF Course
<1>2. QED
  BY <1>1, FunctionShape DEF At

\* Behind an instruction that does not end a block control is still in the
\* block, or at its open end.
LEMMA NextPlace ==
  ASSUME Compiled, Course, pc[2] \in DOMAIN fn.blocks[pc[1]],
         At(fn, pc).op \notin {"br", "condbr", "ret"}
  PROVE  /\ NextPc \in Blocks(fn) \X Nat /\ NextPc[1] = pc[1] /\ NextPc[2] = pc[2] + 1
         /\ NextPc[2] \in 1 .. Len(fn.blocks[pc[1]]) + 1
         /\ NextPc[2] \notin DOMAIN fn.blocks[pc[1]] => ~Terminated(fn, pc[1])
<1>1. NextPc[1] = pc[1] /\ NextPc[2] = pc[2] + 1
  BY DEF NextPc
<1>2. /\ fn.blocks[pc[1]][pc[2]].op \notin {"br", "condbr", "ret"} /\ pc[1] \in Blocks(fn)
      /\ pc[2] \in 1 .. Len(fn.blocks[pc[1]]) /\ Len(fn.blocks[pc[1]]) \in Nat
      /\ DOMAIN fn.blocks[pc[1]] = 1 .. Len(fn.blocks[pc[1]])
  BY HereIsSite
<1>3. NextPc[2] \notin DOMAIN fn.blocks[pc[1]] => pc[2] = Len(fn.blocks[pc[1]])
  BY <1>1, <1>2
<1>4. NextPc[2] \notin DOMAIN fn.blocks[pc[1]] => ~Terminated(fn, pc[1])
  BY <1>2, <1>3 DEF Terminated, Last
<1>5. QED
  BY <1>1, <1>2, <1>4 DEF NextPc

LEMMA BlockStart ==
  ASSUME fn \in Functions, NEW c \in Blocks(fn)
  PROVE  /\ <<c, 1>> \in Blocks(fn) \X Nat /\ 1 \in 1 .. Len(fn.blocks[c]) + 1
         /\ 1 \notin DOMAIN fn.blocks[c] => ~Terminated(fn, c)
<1>1. Len(fn.blocks[c]) \in Nat /\ DOMAIN fn.blocks[c] = 1 .. Len(fn.blocks[c])
  BY FunctionShape
<1>2. 1 \notin DOMAIN fn.blocks[c] => Len(fn.blocks[c]) = 0
  BY <1>1
<1>3. QED
  BY <1>1, <1>2 DEF Terminated

LEMMA InitCourse == Init => Course
<1> SUFFICES ASSUME Init PROVE Course
  OBVIOUS
<1>1. fn \in Functions /\ stage \in {"liveness", "allocated"} /\ pc = <<Entry, 1>> /\ moved = 0
      /\ mem = << >>
  BY DEF Init, AllocInit, LivenessInit
<1>2. Entry \in Blocks(fn) /\ Len(fn.params) \in Nat
  BY <1>1, ParamsNumbered, FunctionsWellFormed DEF Connected
<1>3. pc \in Blocks(fn) \X Nat /\ pc[2] \in 1 .. Len(fn.blocks[pc[1]]) + 1
  BY <1>1, <1>2, BlockStart
<1>4. moved \in 0 .. Len(fn.params)
  BY <1>1, <1>2
<1>5. QED
  BY <1>1, <1>3, <1>4 DEF Course, Stages, InBody, Running

LEMMA AllocMoves ==
  ASSUME AllocNext
  PROVE  fn' = fn /\ stage \in Compiling /\ stage' \in Compiling
<1> USE DEF Compiling
<1>1. CASE LivenessNext /\ UNCHANGED allocVars
  BY <1>1 DEF LivenessNext, VisitBlock, SweepAgain, LivenessDone
<1>2. CASE BuildGraph \/ ColouringDone \/ ScanDone \/ CachingDone
  BY <1>2 DEF BuildGraph, ColouringDone, ScanDone, CachingDone
<1>3. CASE ScanSite
  BY <1>3 DEF ScanSite, livenessVars
<1>4. CASE (\E v \in uncoloured : Colour(v)) \/ (\E c \in Literals : CacheLiteral(c))
  BY <1>4 DEF Colour, CacheLiteral, livenessVars
<1>5. QED
  BY <1>1, <1>2, <1>3, <1>4 DEF AllocNext

\* A step within the body: where control is afterwards decides.
LEMMA BodyStep ==
  ASSUME Compiled, Course, MachineNext, stage \in InBody, stage' \in InBody,
         UNCHANGED moved, DOMAIN mem' = DOMAIN mem,
         pc' \in Blocks(fn) \X Nat, pc'[2] \in 1 .. Len(fn.blocks[pc'[1]]) + 1,
         stage' \in {"stacked", "called"} => AtCall /\ pc' = pc,
         stage' = "running" /\ pc'[2] \notin DOMAIN fn.blocks[pc'[1]] => ~Terminated(fn, pc'[1]),
         stage' = "returned" /\ pc'[2] \in DOMAIN fn.blocks[pc'[1]] => At(fn, pc').op = "ret"
  PROVE  Course'
<1>1. fn' = fn /\ Words' = Words /\ LoweringFails' = LoweringFails
  BY FunctionStays
<1>2. stage \in Running /\ stage' \in Running /\ stage' \in Stages /\ stage' # "failed"
  BY DEF InBody, Running, Stages
<1>3. DOMAIN mem' = Words' /\ ~LoweringFails' /\ moved' \in 0 .. Len(fn'.params)
  BY <1>1, <1>2 DEF Course
<1>4. AtCall /\ pc' = pc => AtCall'
  BY <1>1 DEF AtCall
<1>5. QED
  BY <1>1, <1>2, <1>3, <1>4 DEF Course

LEMMA MachineOnCourse ==
  ASSUME Compiled, Course, MachineNext
  PROVE  Course'
<1>1. fn' = fn /\ Words' = Words /\ LoweringFails' = LoweringFails /\ fn \in Functions
      /\ Len(fn.params) \in Nat
  BY FunctionStays, ValuesAndNames, ParamsNumbered
<1>2. CASE GiveUp
  BY <1>1, <1>2 DEF GiveUp, machine, Course, Stages, InBody, Running
<1>3. CASE Enter
  BY <1>1, <1>3 DEF Enter, Course, Stages, InBody, Running, Words
<1>4. CASE \E i \in 1 .. Len(fn.params) : MoveParamToRegister(i) \/ MoveParamHome(i) \/ LeaveParam(i)
  <2>1. PICK i \in 1 .. Len(fn.params) : MoveParamToRegister(i) \/ MoveParamHome(i) \/ LeaveParam(i)
    BY <1>4
  <2>2. /\ stage = "prologue" /\ stage' = "prologue" /\ pc' = pc /\ moved' = i
        /\ DOMAIN mem' = DOMAIN mem
    BY <2>1 DEF MoveParamToRegister, MoveParamHome, LeaveParam, Moving, compiler, livenessVars
  <2>3. moved' \in 0 .. Len(fn.params)
    BY <1>1, <2>1, <2>2
  <2>4. QED
    BY <1>1, <2>2, <2>3 DEF Course, Stages, InBody, Running
<1>5. CASE EnterBody
  <2>1. /\ stage = "prologue" /\ stage' = "running" /\ pc' = pc /\ moved' = moved /\ mem' = mem
        /\ pc = <<Entry, 1>>
    BY <1>5 DEF EnterBody, Course, InBody
  <2>2. Entry \in Blocks(fn)
    BY <1>1, FunctionsWellFormed DEF Connected
  <2>3. pc[2] \notin DOMAIN fn.blocks[pc[1]] => ~Terminated(fn, pc[1])
    BY <1>1, <2>1, <2>2, BlockStart
  <2>4. QED
    BY <1>1, <2>1, <2>3 DEF Course, Stages, InBody, Running
<1>6. CASE Compute \/ Defer \/ LoadLocal \/ SetLocal \/ Pass
  <2>1. /\ stage = "running" /\ stage' = "running" /\ pc' = NextPc /\ moved' = moved
        /\ pc[2] \in DOMAIN fn.blocks[pc[1]] /\ At(fn, pc).op \notin {"br", "condbr", "ret"}
    BY <1>6 DEF Compute, Defer, LoadLocal, SetLocal, Pass, AtInst, compiler, livenessVars
  <2>2. DOMAIN mem' = DOMAIN mem
    BY <1>6 DEF Compute, Defer, LoadLocal, SetLocal, Pass, PutInMem, Forget
  <2>3. QED
    BY <1>6, <2>1, <2>2, NextPlace, BodyStep DEF MachineNext, InBody
<1>7. CASE StackArguments
  <2>1. /\ stage = "running" /\ stage' = "stacked" /\ pc' = pc /\ moved' = moved /\ AtCall
        /\ DOMAIN mem' = DOMAIN mem
    BY <1>7 DEF StackArguments, AtInst, AtCall
  <2>2. pc \in Blocks(fn) \X Nat /\ pc[2] \in 1 .. Len(fn.blocks[pc[1]]) + 1
    BY DEF Course
  <2>3. QED
    BY <2>1, <2>2, BodyStep DEF InBody
<1>8. CASE RegisterArguments
  <2>1. /\ stage = "stacked" /\ stage' = "called" /\ pc' = pc /\ moved' = moved /\ mem' = mem
    BY <1>8 DEF RegisterArguments
  <2>2. pc \in Blocks(fn) \X Nat /\ pc[2] \in 1 .. Len(fn.blocks[pc[1]]) + 1 /\ AtCall
    BY <2>1 DEF Course
  <2>3. QED
    BY <2>1, <2>2, BodyStep DEF InBody
<1>9. CASE CalleeReturns
  <2>1. /\ stage = "called" /\ stage' = "running" /\ pc' = NextPc /\ moved' = moved
        /\ DOMAIN mem' = DOMAIN mem
    BY <1>9 DEF CalleeReturns
  <2>2. pc[2] \in DOMAIN fn.blocks[pc[1]] /\ At(fn, pc).op \notin {"br", "condbr", "ret"}
    BY <2>1 DEF Course, AtCall
  <2>3. QED
    BY <2>1, <2>2, NextPlace, BodyStep DEF InBody
<1>10. CASE \E c \in Blocks(fn) : Branch(c) \/ FallInto(c)
  <2>1. PICK c \in Blocks(fn) : Branch(c) \/ FallInto(c)
    BY <1>10
  <2>2. /\ stage = "running" /\ stage' = "running" /\ pc' = <<c, 1>> /\ moved' = moved
        /\ DOMAIN mem' = DOMAIN mem
    BY <2>1 DEF Branch, FallInto, AtInst, compiler, livenessVars
  <2>3. QED
    BY <1>1, <2>2, BlockStart, BodyStep DEF InBody
<1>11. CASE Return \/ FallIntoExit
  <2>1. /\ stage = "running" /\ stage' = "returned" /\ pc' = pc /\ moved' = moved /\ mem' = mem
        /\ pc[2] \in DOMAIN fn.blocks[pc[1]] => At(fn, pc).op = "ret"
    <3>1. CASE Return
      BY <3>1 DEF Return, Leave, AtInst
    <3>2. CASE FallIntoExit
      <4>1. pc[2] = Len(fn.blocks[pc[1]]) + 1 /\ pc[1] \in Blocks(fn)
        BY <3>2 DEF FallIntoExit, Course
      <4>2. pc[2] \notin DOMAIN fn.blocks[pc[1]]
        BY <1>1, <4>1, FunctionShape
      <4>3. QED
        BY <3>2, <4>2 DEF FallIntoExit, Leave
    <3>3. QED
      BY <1>11, <3>1, <3>2
  <2>2. pc \in Blocks(fn) \X Nat /\ pc[2] \in 1 .. Len(fn.blocks[pc[1]]) + 1
    BY DEF Course
  <2>3. QED
    BY <2>1, <2>2, BodyStep DEF InBody
<1>12. QED
  BY <1>2, <1>3, <1>4, <1>5, <1>6, <1>7, <1>8, <1>9, <1>10, <1>11 DEF MachineNext

LEMMA NextOnCourse == Compiled /\ Course /\ [Next]_vars => Course'
<1> SUFFICES ASSUME Compiled, Course, [Next]_vars PROVE Course'
  OBVIOUS
<1>1. CASE AllocNext /\ UNCHANGED machine
  <2>1. fn' = fn /\ stage \in Compiling /\ stage' \in Compiling
    BY <1>1, AllocMoves
  <2>2. UNCHANGED <<mem, pc, moved>>
    BY <1>1 DEF machine
  <2>3. QED
    BY <2>1, <2>2 DEF Course, Compiling, Stages, InBody, Running
<1>2. CASE MachineNext
  BY <1>2, MachineOnCourse
<1>3. CASE UNCHANGED vars
  <2>1. fn' = fn /\ regOf' = regOf /\ stage' = stage /\ UNCHANGED <<mem, pc, moved>>
    BY <1>3 DEF vars, compiler, machine, livenessVars, allocVars
  <2>2. FrameSize' = FrameSize /\ LoweringFails' = LoweringFails
    BY <2>1, FrameStays, CodeStays
  <2>3. QED
    BY <2>1, <2>2 DEF Course, AtCall, Words
<1>4. QED
  BY <1>1, <1>2, <1>3 DEF Next, MachineNext, Over

LEMMA CourseAlways == Spec => [](Compiled /\ Course)
<1>1. Init => Compiled /\ Course
  BY InitCompiled, InitCourse DEF Init
<1>2. QED
  BY <1>1, NextCompiled, NextOnCourse, PTL DEF Spec

-----------------------------------------------------------------------------
(* What registers and words may hold. *)

Stored ==
  /\ reg \in [Registers \cup {Ra} -> SUBSET Names]
  /\ \A w \in DOMAIN mem : mem[w] \subseteq Names

LEMMA OperandsAreNames ==
  ASSUME NEW f \in Functions, NEW s \in Sites(f), NEW k \in DOMAIN At(f, s).args
  PROVE  At(f, s).args[k] \in SsaValues(f) \cup Literals
<1>1. At(f, s).args \in Seq(SsaValues(f) \cup Literals)
  BY FunctionsWellFormed DEF Shaped
<1>2. QED
  BY <1>1

LEMMA ResultsAreNames ==
  ASSUME NEW f \in Functions, NEW s \in Sites(f), At(f, s).res # NoValue
  PROVE  At(f, s).res \in SsaValues(f)
BY DEF SsaValues, Results

\* The phis of a block, and what they take on an edge.
LEMMA PhiFacts ==
  ASSUME NEW f \in Functions, NEW c \in Blocks(f), NEW k \in PhiSites(f, c)
  PROVE  /\ <<c, k>> \in Sites(f) /\ At(f, <<c, k>>) = f.blocks[c][k] /\ k \in Nat /\ k >= 1
         /\ f.blocks[c][k].op = "phi" /\ f.blocks[c][k] \in Phis(f, c)
         /\ f.blocks[c][k].res \in SsaValues(f) /\ f.blocks[c][k].res # NoValue
         /\ \A b \in Blocks(f) : c \in Succs(f, b) =>
              /\ HasIncoming(f.blocks[c][k], b)
              /\ Incoming(f.blocks[c][k], b) \in SsaValues(f) \cup Literals
<1>1. /\ k \in DOMAIN f.blocks[c] /\ k \in Nat /\ k >= 1
      /\ DOMAIN f.blocks[c] = 1 .. Len(f.blocks[c]) /\ Len(f.blocks[c]) \in Nat
  BY FunctionShape DEF PhiSites
<1>2. f.blocks[c][k].op = "phi" /\ f.blocks[c][k] \in Phis(f, c)
  BY <1>1 DEF PhiSites, Phis
<1>3. <<c, k>> \in Sites(f) /\ At(f, <<c, k>>) = f.blocks[c][k]
  BY <1>1, FunctionShape DEF At
<1>4. f.blocks[c][k].res # NoValue
  BY <1>2, <1>3, FunctionsWellFormed DEF Shaped
<1>5. f.blocks[c][k].res \in SsaValues(f)
  BY <1>3, <1>4, ResultsAreNames
<1>6. ASSUME NEW b \in Blocks(f), c \in Succs(f, b)
      PROVE  /\ HasIncoming(f.blocks[c][k], b)
             /\ Incoming(f.blocks[c][k], b) \in SsaValues(f) \cup Literals
  <2>1. HasIncoming(f.blocks[c][k], b)
    BY <1>2, <1>6, FunctionsWellFormed DEF Connected
  <2>2. PICK i \in DOMAIN f.blocks[c][k].args : f.blocks[c][k].args[i] = Incoming(f.blocks[c][k], b)
    BY <2>1, IncomingIsOperand
  <2>3. QED
    BY <1>3, <2>1, <2>2, OperandsAreNames
<1>7. QED
  BY <1>1, <1>2, <1>3, <1>4, <1>5, <1>6

LEMMA ContentsTyped ==
  ASSUME Compiled, Course, Stored, stage \in Running,
         NEW v \in SsaValues(fn) \cup Literals, Placed(v)
  PROVE  Contents(v) \subseteq Names
<1>1. CASE Allocated(v)
  BY <1>1, ContentsWhere, ValuesAndNames DEF Stored
<1>2. CASE ~Allocated(v) /\ v \in Literals
  BY <1>2, ContentsWhere DEF Names
<1>3. CASE ~Allocated(v) /\ v \notin Literals
  <2>1. InFrame(v)
    BY <1>3, PlacedWhere
  <2>2. Word(v) \in DOMAIN mem
    BY <2>1, ValuesAndNames, WordsApart DEF Course
  <2>3. QED
    BY <1>3, <2>2, ContentsWhere DEF Stored
<1>4. QED
  BY <1>1, <1>2, <1>3

LEMMA PutTyped ==
  ASSUME Compiled, Stored, NEW v \in SsaValues(fn), NEW contents \in SUBSET Names
  PROVE  /\ PutInReg(v, contents) \in [Registers \cup {Ra} -> SUBSET Names]
         /\ \A w \in DOMAIN PutInMem(v, contents) : PutInMem(v, contents)[w] \subseteq Names
         /\ Forget(reg, {v}) \in [Registers \cup {Ra} -> SUBSET Names]
         /\ \A w \in DOMAIN Forget(mem, {v}) : Forget(mem, {v})[w] \subseteq Names
<1>1. Forget(reg, {v}) \in [Registers \cup {Ra} -> SUBSET Names]
  BY DEF Stored, Forget
<1>2. \A w \in DOMAIN Forget(mem, {v}) : Forget(mem, {v})[w] \subseteq Names
  BY DEF Stored, Forget
<1>3. contents \cup {v} \subseteq Names
  BY DEF Names
<1>4. PutInReg(v, contents) \in [Registers \cup {Ra} -> SUBSET Names]
  BY <1>1, <1>3 DEF PutInReg
<1>5. \A w \in DOMAIN PutInMem(v, contents) : PutInMem(v, contents)[w] \subseteq Names
  BY <1>2, <1>3 DEF PutInMem
<1>6. QED
  BY <1>1, <1>2, <1>4, <1>5

LEMMA LastPhiOf ==
  ASSUME NEW f \in Functions, NEW c \in Blocks(f), NEW phis \in SUBSET PhiSites(f, c), phis # {}
  PROVE  Max(phis) \in phis /\ \A k \in phis : k <= Max(phis)
<1>1. 1 \in Int /\ Len(f.blocks[c]) \in Int
  BY FunctionShape
<1>2. IsFiniteSet(1 .. Len(f.blocks[c]))
  BY <1>1, FS_Interval
<1>3. phis \in SUBSET (1 .. Len(f.blocks[c])) /\ 1 .. Len(f.blocks[c]) \subseteq Nat
  BY FunctionShape DEF PhiSites
<1>4. phis \in SUBSET Nat /\ IsFiniteSet(phis)
  BY <1>2, <1>3, FS_Subset
<1>5. QED
  BY <1>4, MaxOfSet

LEMMA ReceivedTyped ==
  ASSUME Compiled, Course, Stored, stage = "running", NEW c \in Succs(fn, pc[1]), c \in Blocks(fn),
         NEW contents \in SUBSET Names, NEW phis \in SUBSET PhiSites(fn, c)
  PROVE  Received(c, phis, contents) \subseteq Names
<1>1. fn \in Functions /\ pc[1] \in Blocks(fn) /\ stage \in Running
  BY ValuesAndNames DEF Course, Running, InBody
<1>2. ASSUME NEW names \in SUBSET Names PROVE Renamed(names, pc[1], c) \subseteq Names
  <2>1. \A k \in PhiSites(fn, c) : fn.blocks[c][k].res \in SsaValues(fn)
    BY <1>1, PhiFacts
  <2>2. \A phi \in Phis(fn, c) : phi.res \in Names
    BY <2>1 DEF Phis, Names
  <2>3. QED
    BY <2>2 DEF Renamed
<1>3. ASSUME phis # {}
      PROVE  Contents(Incoming(PhiAt(c, Max(phis)), pc[1])) \subseteq Names
  <2>1. Max(phis) \in PhiSites(fn, c)
    BY <1>1, <1>3, LastPhiOf
  <2> DEFINE phi == fn.blocks[c][Max(phis)]
  <2>3. /\ phi \in Phis(fn, c) /\ HasIncoming(phi, pc[1])
        /\ Incoming(phi, pc[1]) \in SsaValues(fn) \cup Literals
    BY <1>1, <2>1, PhiFacts
  <2>4. Incoming(phi, pc[1]) \in EdgeReads(pc[1])
    BY <2>3 DEF EdgeReads
  <2>5. Placed(Incoming(phi, pc[1]))
    BY <1>1, <2>4, ReadsPlaced DEF Course
  <2>6. QED
    BY <1>1, <2>3, <2>5, ContentsTyped DEF PhiAt
<1>4. QED
  BY <1>2, <1>3 DEF Received

LEMMA OperandTyped ==
  ASSUME Compiled, Course, Stored, stage \in Running, NEW s \in Sites(fn),
         At(fn, s).op \in {"load", "call", "ret"}, NEW k \in DOMAIN At(fn, s).args
  PROVE  /\ At(fn, s).args[k] \in Reads(s) /\ At(fn, s).args[k] \in SsaValues(fn) \cup Literals
         /\ Contents(At(fn, s).args[k]) \subseteq Names
<1>1. At(fn, s).args[k] \in Reads(s)
  BY DEF Reads, FusedCompare, LeftToBranch, ToSet
<1>2. At(fn, s).args[k] \in SsaValues(fn) \cup Literals
  BY ValuesAndNames, OperandsAreNames
<1>3. Placed(At(fn, s).args[k])
  BY <1>1, ReadsPlaced DEF Course
<1>4. QED
  BY <1>1, <1>2, <1>3, ContentsTyped

LEMMA InitStored == Init => Stored
BY DEF Init, Stored

LEMMA MachineStored ==
  ASSUME Compiled, Course, Stored, MachineNext
  PROVE  Stored'
<1>1. Names' = Names /\ fn' = fn /\ fn \in Functions
  BY FunctionStays, ValuesAndNames
<1>2. SUFFICES /\ reg' \in [Registers \cup {Ra} -> SUBSET Names]
               /\ \A w \in DOMAIN mem' : mem'[w] \subseteq Names
  BY <1>1 DEF Stored
<1>3. /\ \A v \in SsaValues(fn) : v \in Names
      /\ \A r \in Registers \cup {Ra} : r \in Names /\ reg[r] \subseteq Names
      /\ \A w \in DOMAIN mem : mem[w] \subseteq Names
      /\ DOMAIN reg = Registers \cup {Ra}
  BY DEF Names, Stored
<1>4. CASE GiveUp
  BY <1>4 DEF GiveUp, machine, Stored
<1>5. CASE Enter
  <2>1. \A i \in DOMAIN fn.params : fn.params[i] \in Names
    BY <1>1, ParamsNumbered DEF Names, SsaValues
  <2>2. \A r \in UsedCalleeSaved : r \in Names
    BY RegisterFacts DEF UsedCalleeSaved, Names
  <2>3. Ra \in Names
    BY DEF Names
  <2>4. QED
    BY <1>3, <1>5, <2>1, <2>2, <2>3 DEF Enter
<1>6. CASE \E i \in 1 .. Len(fn.params) : MoveParamToRegister(i) \/ MoveParamHome(i) \/ LeaveParam(i)
  <2>1. PICK i \in 1 .. Len(fn.params) : MoveParamToRegister(i) \/ MoveParamHome(i) \/ LeaveParam(i)
    BY <1>6
  <2>2. /\ stage = "prologue" /\ i \in DOMAIN fn.params /\ fn.params[i] \in Params(fn)
        /\ IndexOf(fn.params, fn.params[i]) = i /\ Len(fn.params) \in Nat
    BY <1>1, <2>1, ParamsNumbered DEF MoveParamToRegister, MoveParamHome, LeaveParam, Moving
  <2>3. ~OnStack(i) => ARegs[i] \in Registers
    BY <2>2, RegisterFacts DEF OnStack
  <2>4. CASE MoveParamToRegister(i)
    <3>1. OnStack(i) => mem[StackParamOffset(i)] \subseteq Names
      <4>1. SUFFICES ASSUME OnStack(i) PROVE StackParamOffset(i) \in Words
        BY <1>3, <2>2 DEF Course, Running
      <4>2. WordsOnStack(Len(fn.params)) = Len(fn.params) - Len(ARegs) /\ FrameSize \in Nat
        BY <1>1, <2>2, <4>1, RegisterFacts, AreasInOrder DEF OnStack, WordsOnStack
      <4>3. StackParamOffset(i) = FrameSize + (i - Len(ARegs) - 1) /\ i > Len(ARegs)
            /\ i \in Nat /\ i <= Len(fn.params) /\ Len(ARegs) \in Nat
        BY <2>1, <2>2, <4>1, RegisterFacts DEF StackParamOffset, OnStack
      <4>4. QED
        BY <2>2, <4>2, <4>3 DEF Words
    <3>2. (IF OnStack(i) THEN mem[StackParamOffset(i)] ELSE reg[ARegs[i]]) \subseteq Names
      BY <1>3, <2>3, <3>1
    <3>3. QED
      BY <1>3, <2>4, <3>2 DEF MoveParamToRegister, Stored
  <2>5. CASE MoveParamHome(i)
    <3>1. ~OnStack(i)
      BY <2>2, <2>5 DEF MoveParamHome, HomeParams, ParamIndex
    <3>2. QED
      BY <1>3, <2>3, <2>5, <3>1 DEF MoveParamHome, Stored
  <2>6. CASE LeaveParam(i)
    BY <2>6 DEF LeaveParam, Stored
  <2>7. QED
    BY <2>1, <2>4, <2>5, <2>6
<1>7. CASE EnterBody
  BY <1>3, <1>7 DEF EnterBody, Names
<1>8. CASE Compute \/ Defer \/ LoadLocal \/ SetLocal
  <2>1. /\ stage \in Running /\ pc[2] \in DOMAIN fn.blocks[pc[1]]
        /\ At(fn, pc).op \in {"arith", "and", "icmp", "load", "set"}
    BY <1>8 DEF Compute, Defer, LoadLocal, SetLocal, AtInst, Running, InBody
  <2>2. pc \in Sites(fn)
    BY <2>1, HereIsSite
  <2>3. At(fn, pc).op # "set" => At(fn, pc).res \in SsaValues(fn)
    BY <1>1, <2>1, <2>2, ResultsAreNames, FunctionsWellFormed DEF Shaped
  <2>4. CASE Compute
    <3>1. At(fn, pc).op # "set"
      BY <2>4 DEF Compute, AtInst
    <3>2. QED
      BY <2>3, <2>4, <3>1, PutTyped DEF Compute
  <2>5. CASE Defer
    <3>1. At(fn, pc).op # "set"
      BY <2>5 DEF Defer, AtInst
    <3>2. QED
      BY <2>3, <2>5, <3>1, PutTyped DEF Defer
  <2>6. CASE LoadLocal
    <3>1. At(fn, pc).op = "load" /\ 1 \in DOMAIN At(fn, pc).args
      <4>1. At(fn, pc).op = "load"
        BY <2>6 DEF LoadLocal, AtInst
      <4>2. At(fn, pc).args \in Seq(SsaValues(fn) \cup Literals) /\ Len(At(fn, pc).args) = 1
        BY <1>1, <2>2, <4>1, FunctionsWellFormed DEF Shaped
      <4>3. QED
        BY <4>1, <4>2
    <3>2. Contents(At(fn, pc).args[1]) \ {At(fn, pc).res} \in SUBSET Names
      BY <2>1, <2>2, <3>1, OperandTyped
    <3>3. QED
      BY <2>3, <2>6, <3>1, <3>2, PutTyped DEF LoadLocal
  <2>7. CASE SetLocal
    <3>1. At(fn, pc).op = "set"
      BY <2>7 DEF SetLocal, AtInst
    <3>2. /\ At(fn, pc).args \in Seq(SsaValues(fn) \cup Literals) /\ Len(At(fn, pc).args) = 2
          /\ At(fn, pc).args[1] \in Variables(fn)
      BY <1>1, <2>2, <3>1, FunctionsWellFormed DEF Shaped
    <3>3. At(fn, pc).args[1] \in SsaValues(fn)
      <4>1. PICK s \in Sites(fn) : At(fn, s).op = "alloca" /\ At(fn, s).res = At(fn, pc).args[1]
        BY <3>2 DEF Variables
      <4>2. QED
        BY <1>1, <4>1, ResultsAreNames, FunctionsWellFormed DEF Shaped
    <3>4. At(fn, pc).args[2] \in Reads(pc) /\ At(fn, pc).args[2] \in SsaValues(fn) \cup Literals
      BY <3>1, <3>2 DEF Reads, FusedCompare, LeftToBranch
    <3>5. Contents(At(fn, pc).args[2]) \ {At(fn, pc).args[1]} \in SUBSET Names
      <4>1. Placed(At(fn, pc).args[2])
        BY <2>1, <2>2, <3>4, ReadsPlaced DEF Course
      <4>2. QED
        BY <2>1, <3>4, <4>1, ContentsTyped
    <3>6. QED
      BY <2>7, <3>3, <3>5, PutTyped DEF SetLocal
  <2>8. QED
    BY <1>8, <2>4, <2>5, <2>6, <2>7
<1>9. CASE Pass
  BY <1>9 DEF Pass, Stored
<1>10. CASE StackArguments
  <2>1. /\ stage \in Running /\ pc[2] \in DOMAIN fn.blocks[pc[1]] /\ At(fn, pc).op = "call"
    BY <1>10 DEF StackArguments, AtInst, Running, InBody
  <2>2. \A k \in DOMAIN At(fn, pc).args : Contents(At(fn, pc).args[k]) \subseteq Names
    BY <2>1, HereIsSite, OperandTyped
  <2>3. QED
    BY <1>3, <1>10, <2>2 DEF StackArguments, Stored
<1>11. CASE RegisterArguments
  <2>1. /\ stage \in Running /\ pc[2] \in DOMAIN fn.blocks[pc[1]] /\ At(fn, pc).op = "call"
    BY <1>11 DEF RegisterArguments, Course, AtCall, Running, InBody
  <2>2. /\ \A k \in DOMAIN At(fn, pc).args : Contents(At(fn, pc).args[k]) \subseteq Names
        /\ DOMAIN At(fn, pc).args \subseteq Nat
    <3>1. pc \in Sites(fn)
      BY <2>1, HereIsSite
    <3>2. At(fn, pc).args \in Seq(SsaValues(fn) \cup Literals)
      BY <1>1, <3>1, FunctionsWellFormed DEF Shaped
    <3>3. DOMAIN At(fn, pc).args \subseteq Nat
      BY <3>2
    <3>4. QED
      BY <2>1, <3>1, <3>3, OperandTyped
  <2> DEFINE of(r) == {j \in DOMAIN At(fn, pc).args : ~OnStack(j) /\ ARegs[j] = r}
  <2>3. ASSUME NEW r, of(r) # {} PROVE Min(of(r)) \in DOMAIN At(fn, pc).args
    <3>1. of(r) \in SUBSET Nat
      BY <2>2
    <3>2. Min(of(r)) \in of(r)
      BY <2>3, <3>1, MinOfSet
    <3>3. QED
      BY <3>2
  <2>4. ASSUME NEW r \in DOMAIN reg
        PROVE  (IF of(r) = {} THEN reg[r] ELSE Contents(At(fn, pc).args[Min(of(r))])) \subseteq Names
    BY <1>3, <2>2, <2>3
  <2>5. reg' = [r \in DOMAIN reg |->
                  IF of(r) = {} THEN reg[r] ELSE Contents(At(fn, pc).args[Min(of(r))])]
    BY <1>11 DEF RegisterArguments
  <2>6. mem' = mem
    BY <1>11 DEF RegisterArguments
  <2> HIDE DEF of
  <2>7. QED
    BY <1>3, <2>4, <2>5, <2>6
<1>12. CASE CalleeReturns
  <2>1. At(fn, pc).res # NoValue => At(fn, pc).res \in Names
    <3>1. pc \in Sites(fn)
      BY <1>12, HereIsSite DEF CalleeReturns, Course, AtCall
    <3>2. QED
      BY <1>1, <1>3, <3>1, ResultsAreNames
  <2> DEFINE v == At(fn, pc).res
             kept == [r \in DOMAIN reg |-> IF r \in ToSet(SRegs) THEN reg[r] ELSE {}]
             left == [w \in DOMAIN mem |-> IF w < OutgoingWords THEN {} ELSE mem[w]]
  <2>2. /\ kept \in [Registers \cup {Ra} -> SUBSET Names]
        /\ DOMAIN left = DOMAIN mem /\ \A w \in DOMAIN mem : left[w] \subseteq Names
    BY <1>3
  <2>3. CASE v = NoValue
    <3>1. reg' = kept /\ mem' = left
      BY <1>12, <2>3 DEF CalleeReturns
    <3>2. QED
      BY <2>2, <3>1
  <2>4. CASE v # NoValue
    <3>1. /\ reg' = [r \in DOMAIN reg |-> IF r = ARegs[1] \/ r = regOf[v] THEN {v} ELSE kept[r] \ {v}]
          /\ mem' = [w \in DOMAIN mem |->
                       IF ~Allocated(v) /\ w = SlotOffset(v) THEN {v} ELSE left[w] \ {v}]
      BY <1>12, <2>4 DEF CalleeReturns
    <3>2. v \in Names
      BY <2>1, <2>4
    <3> HIDE DEF v, kept, left
    <3>3. QED
      BY <1>3, <2>2, <3>1, <3>2
  <2>5. QED
    BY <2>3, <2>4
<1>13. CASE \E c \in Blocks(fn) : Branch(c) \/ FallInto(c)
  <2>1. PICK c \in Blocks(fn) : Branch(c) \/ FallInto(c)
    BY <1>13
  <2>2. CASE Branch(c)
    <3>1. /\ stage = "running" /\ c \in Succs(fn, pc[1])
          /\ reg' = [r \in DOMAIN reg |-> Received(c, PhiToRegister(c, r), reg[r])]
          /\ mem' = [w \in DOMAIN mem |-> Received(c, PhiToWord(c, w), mem[w])]
      BY <2>2 DEF Branch, AtInst
    <3>2. \A r : PhiToRegister(c, r) \in SUBSET PhiSites(fn, c)
      BY DEF PhiToRegister
    <3>3. \A w : PhiToWord(c, w) \in SUBSET PhiSites(fn, c)
      BY DEF PhiToWord
    <3>4. \A r \in DOMAIN reg : Received(c, PhiToRegister(c, r), reg[r]) \subseteq Names
      BY <1>3, <3>1, <3>2, ReceivedTyped
    <3>5. \A w \in DOMAIN mem : Received(c, PhiToWord(c, w), mem[w]) \subseteq Names
      BY <1>3, <3>1, <3>3, ReceivedTyped
    <3>6. QED
      BY <1>3, <3>1, <3>4, <3>5
  <2>3. CASE FallInto(c)
    BY <2>3 DEF FallInto, Stored
  <2>4. QED
    BY <2>1, <2>2, <2>3
<1>14. CASE Return \/ FallIntoExit
  <2>1. /\ stage \in Running /\ mem' = mem
        /\ HasCall => RaOffset \in DOMAIN mem
        /\ \A r \in UsedCalleeSaved : SavedOffset(r) \in DOMAIN mem
    <3>1. stage \in Running /\ mem' = mem
      BY <1>14 DEF Return, FallIntoExit, AtInst, Leave, Running, InBody
    <3>2. QED
      BY <1>1, <3>1, SavedInFrame DEF Course
  <2>2. \E a0 \in SUBSET Names : Leave(a0)
    <3>1. reg[ARegs[1]] \in SUBSET Names
      BY <1>3, RegisterFacts
    <3>2. CASE Return
      <4>1. Return => \/ Leave(reg[ARegs[1]])
                      \/ At(fn, pc).args # << >> /\ Leave(Contents(At(fn, pc).args[1]))
        BY DEF Return
      <4>2. At(fn, pc).op = "ret" /\ pc \in Sites(fn)
        BY <3>2, HereIsSite DEF Return, AtInst
      <4>3. At(fn, pc).args \in Seq(SsaValues(fn) \cup Literals)
        BY <1>1, <4>2, FunctionsWellFormed DEF Shaped
      <4>4. At(fn, pc).args # << >> => 1 \in DOMAIN At(fn, pc).args
        BY <4>3
      <4>5. At(fn, pc).args # << >> => Contents(At(fn, pc).args[1]) \in SUBSET Names
        BY <2>1, <4>2, <4>4, OperandTyped
      <4>6. QED
        BY <3>1, <3>2, <4>1, <4>5
    <3>3. CASE FallIntoExit
      BY <3>1, <3>3 DEF FallIntoExit
    <3>4. QED
      BY <1>14, <3>2, <3>3
  <2>3. QED
    BY <1>3, <2>1, <2>2 DEF Leave
<1>15. QED
  BY <1>4, <1>5, <1>6, <1>7, <1>8, <1>9, <1>10, <1>11, <1>12, <1>13, <1>14 DEF MachineNext

LEMMA NextStored == Compiled /\ Course /\ Stored /\ [Next]_vars => Stored'
<1> SUFFICES ASSUME Compiled, Course, Stored, [Next]_vars PROVE Stored'
  OBVIOUS
<1>1. CASE MachineNext
  BY <1>1, MachineStored
<1>2. CASE (AllocNext /\ UNCHANGED machine) \/ UNCHANGED vars
  <2>1. fn' = fn
    BY <1>2, AllocMoves DEF vars, compiler, livenessVars
  <2>2. UNCHANGED <<reg, mem>>
    BY <1>2 DEF vars, machine
  <2>3. QED
    BY <2>1, <2>2 DEF Stored, Names
<1>3. QED
  BY <1>1, <1>2 DEF Next, MachineNext, Over

\* Every variable keeps its type from the analysis of a function to its return:
\* no step reads a register or a word of the frame that does not exist.
THEOREM LoweringTypeCorrect == Spec => []TypeOK
<1>1. Compiled /\ Course /\ Stored => TypeOK
  <2> SUFFICES ASSUME Compiled, Course, Stored PROVE TypeOK
    OBVIOUS
  <2>1. AllocTypeOK
    BY DEF Compiled, Inv, Typed, LivenessInv, Scheduled, AllocTypeOK
  <2>2. DOMAIN mem \subseteq Nat
    <3>1. CASE stage \in Running
      BY <3>1, BasesInOrder, ValuesAndNames DEF Course, Words
    <3>2. CASE stage \notin Running
      BY <3>2 DEF Course
    <3>3. QED
      BY <3>1, <3>2
  <2>3. QED
    BY <2>1, <2>2 DEF Course, Stored, TypeOK
<1>2. Init => Stored
  BY InitStored
<1>3. QED
  BY <1>1, <1>2, CourseAlways, NextStored, PTL DEF Spec

-----------------------------------------------------------------------------
(* What a step of the machine may change: the registers in rs, the words in ws,
   and where the names in ns are found. *)

Writes(rs, ws, ns) ==
  /\ DOMAIN reg' = DOMAIN reg /\ DOMAIN mem' = DOMAIN mem
  /\ \A r \in DOMAIN reg : r \notin rs => reg[r] \ ns \subseteq reg'[r]
  /\ \A w \in DOMAIN mem : w \notin ws => mem[w] \ ns \subseteq mem'[w]

RegsOf(v) == IF Allocated(v) THEN {regOf[v]} ELSE {}
WordsOf(v) == IF Allocated(v) THEN {} ELSE {SlotOffset(v)}

LEMMA PutWrites ==
  ASSUME NEW v, NEW contents, reg' = PutInReg(v, contents), mem' = PutInMem(v, contents)
  PROVE  Writes(RegsOf(v), WordsOf(v), {v})
<1>1. CASE Allocated(v)
  BY <1>1 DEF Writes, RegsOf, WordsOf, PutInReg, PutInMem, Forget
<1>2. CASE ~Allocated(v)
  BY <1>2 DEF Writes, RegsOf, WordsOf, PutInReg, PutInMem, Forget
<1>3. QED
  BY <1>1, <1>2

Target == IF At(fn, pc).op = "set" THEN At(fn, pc).args[1] ELSE At(fn, pc).res

LEMMA ComputeWrites ==
  ASSUME Compute \/ LoadLocal \/ SetLocal
  PROVE  Writes(RegsOf(Target), WordsOf(Target), {Target})
<1>1. CASE Compute
  BY <1>1, PutWrites DEF Compute, AtInst, Target
<1>2. CASE LoadLocal
  BY <1>2, PutWrites DEF LoadLocal, AtInst, Target
<1>3. CASE SetLocal
  BY <1>3, PutWrites DEF SetLocal, AtInst, Target
<1>4. QED
  BY <1>1, <1>2, <1>3

LEMMA QuietWrites ==
  ASSUME Defer \/ Pass \/ (\E c \in Blocks(fn) : FallInto(c))
  PROVE  Writes({}, {}, IF Defer THEN {At(fn, pc).res} ELSE {})
BY DEF Defer, Pass, FallInto, Writes, Forget

StackArgumentWords == {w \in DOMAIN mem : w + Len(ARegs) + 1 \in DOMAIN At(fn, pc).args}

LEMMA StackArgumentsWrites ==
  ASSUME StackArguments
  PROVE  Writes({}, StackArgumentWords, {})
BY DEF StackArguments, Writes, StackArgumentWords

\* The arguments of the call control stands at.
LEMMA CallArguments ==
  ASSUME Compiled, Course, AtCall
  PROVE  /\ fn \in Functions /\ pc \in Sites(fn) /\ At(fn, pc).op = "call" /\ HasCall
         /\ Len(At(fn, pc).args) \in Nat /\ DOMAIN At(fn, pc).args = 1 .. Len(At(fn, pc).args)
         /\ \A j \in DOMAIN At(fn, pc).args :
              /\ At(fn, pc).args[j] \in SsaValues(fn) \cup Literals
              /\ At(fn, pc).args[j] \in Reads(pc)
              /\ ~OnStack(j) => j \in DOMAIN ARegs
<1>1. fn \in Functions /\ pc \in Sites(fn) /\ At(fn, pc).op = "call"
  BY HereIsSite DEF AtCall
<1>2. At(fn, pc).args \in Seq(SsaValues(fn) \cup Literals)
  BY <1>1, FunctionsWellFormed DEF Shaped
<1>3. Len(At(fn, pc).args) \in Nat /\ DOMAIN At(fn, pc).args = 1 .. Len(At(fn, pc).args)
      /\ \A j \in DOMAIN At(fn, pc).args : At(fn, pc).args[j] \in SsaValues(fn) \cup Literals
  BY <1>2
<1>4. \A j \in DOMAIN At(fn, pc).args : At(fn, pc).args[j] \in Reads(pc)
  BY <1>1 DEF Reads, FusedCompare, LeftToBranch, ToSet
<1>5. \A j \in DOMAIN At(fn, pc).args : ~OnStack(j) => j \in DOMAIN ARegs
  BY <1>3, RegisterFacts DEF OnStack
<1>6. QED
  BY <1>1, <1>3, <1>4, <1>5 DEF HasCall

LEMMA RegisterArgumentsWrites ==
  ASSUME Compiled, Course, RegisterArguments
  PROVE  Writes(ToSet(ARegs), {}, {})
<1> DEFINE of(r) == {j \in DOMAIN At(fn, pc).args : ~OnStack(j) /\ ARegs[j] = r}
<1>1. ASSUME NEW r, r \notin ToSet(ARegs), NEW j \in of(r) PROVE FALSE
  <2>1. AtCall
    BY DEF RegisterArguments, Course
  <2>2. j \in DOMAIN ARegs
    BY <2>1, CallArguments
  <2>3. QED
    BY <1>1, <2>2 DEF ToSet
<1>2. reg' = [r \in DOMAIN reg |->
                IF of(r) = {} THEN reg[r] ELSE Contents(At(fn, pc).args[Min(of(r))])]
      /\ mem' = mem
  BY DEF RegisterArguments
<1> HIDE DEF of
<1>3. QED
  BY <1>1, <1>2 DEF Writes

ResultRegs == IF At(fn, pc).res = NoValue THEN {} ELSE RegsOf(At(fn, pc).res)
ResultWords == IF At(fn, pc).res = NoValue THEN {} ELSE WordsOf(At(fn, pc).res)
ResultNames == {At(fn, pc).res} \ {NoValue}

LEMMA CalleeReturnsWrites ==
  ASSUME Compiled, Stored, CalleeReturns
  PROVE  Writes(((Registers \cup {Ra}) \ ToSet(SRegs)) \cup ResultRegs,
                {w \in DOMAIN mem : w < OutgoingWords} \cup ResultWords,
                ResultNames)
<1> DEFINE v == At(fn, pc).res
           kept == [r \in DOMAIN reg |-> IF r \in ToSet(SRegs) THEN reg[r] ELSE {}]
           left == [w \in DOMAIN mem |-> IF w < OutgoingWords THEN {} ELSE mem[w]]
<1>1. ARegs[1] \in Registers /\ ARegs[1] \notin ToSet(SRegs) /\ DOMAIN reg = Registers \cup {Ra}
      /\ NoReg \notin DOMAIN reg
  BY RegisterFacts DEF Stored
<1>2. CASE v = NoValue
  <2>1. reg' = kept /\ mem' = left
    BY <1>2 DEF CalleeReturns
  <2>2. QED
    BY <1>1, <2>1 DEF Writes, ResultNames, ResultRegs, ResultWords
<1>3. CASE v # NoValue
  <2>1. /\ reg' = [r \in DOMAIN reg |-> IF r = ARegs[1] \/ r = regOf[v] THEN {v} ELSE kept[r] \ {v}]
        /\ mem' = [w \in DOMAIN mem |->
                     IF ~Allocated(v) /\ w = SlotOffset(v) THEN {v} ELSE left[w] \ {v}]
    BY <1>3 DEF CalleeReturns
  <2>2. ResultNames = {v} /\ ResultRegs = RegsOf(v) /\ ResultWords = WordsOf(v)
    BY <1>3 DEF ResultNames, ResultRegs, ResultWords
  <2>3. ~Allocated(v) => \A r \in DOMAIN reg : r # regOf[v]
    BY <1>1 DEF Allocated
  <2>4. \A r \in DOMAIN reg : r \notin ((Registers \cup {Ra}) \ ToSet(SRegs)) \cup RegsOf(v) =>
          reg[r] \ {v} \subseteq reg'[r]
    BY <1>1, <2>1, <2>3 DEF RegsOf
  <2>5. \A w \in DOMAIN mem : w \notin {x \in DOMAIN mem : x < OutgoingWords} \cup WordsOf(v) =>
          mem[w] \ {v} \subseteq mem'[w]
    BY <2>1 DEF WordsOf
  <2> HIDE DEF v
  <2>6. QED
    BY <1>1, <2>1, <2>2, <2>4, <2>5 DEF Writes
<1>4. QED
  BY <1>2, <1>3

PhiRegs(c) == {r \in DOMAIN reg : PhiToRegister(c, r) # {}}
PhiWords(c) == {w \in DOMAIN mem : PhiToWord(c, w) # {}}
PhiResults(c) == {phi.res : phi \in Phis(fn, c)}

LEMMA BranchWrites ==
  ASSUME NEW c \in Blocks(fn), Branch(c)
  PROVE  Writes(PhiRegs(c), PhiWords(c), PhiResults(c))
<1>1. ASSUME NEW contents PROVE contents \ PhiResults(c) \subseteq Received(c, {}, contents)
  BY DEF Received, Renamed, PhiResults
<1>2. /\ reg' = [r \in DOMAIN reg |-> Received(c, PhiToRegister(c, r), reg[r])]
      /\ mem' = [w \in DOMAIN mem |-> Received(c, PhiToWord(c, w), mem[w])]
  BY DEF Branch
<1>3. ASSUME NEW r \in DOMAIN reg, r \notin PhiRegs(c)
      PROVE  reg[r] \ PhiResults(c) \subseteq reg'[r]
  <2>1. PhiToRegister(c, r) = {}
    BY <1>3 DEF PhiRegs
  <2>2. reg'[r] = Received(c, {}, reg[r])
    BY <1>2, <2>1
  <2>3. QED
    BY <1>1, <2>2
<1>4. ASSUME NEW w \in DOMAIN mem, w \notin PhiWords(c)
      PROVE  mem[w] \ PhiResults(c) \subseteq mem'[w]
  <2>1. PhiToWord(c, w) = {}
    BY <1>4 DEF PhiWords
  <2>2. mem'[w] = Received(c, {}, mem[w])
    BY <1>2, <2>1
  <2>3. QED
    BY <1>1, <2>2
<1>5. QED
  BY <1>2, <1>3, <1>4 DEF Writes

LEMMA PrologueWrites ==
  /\ \A i : /\ MoveParamToRegister(i) => Writes({regOf[fn.params[i]]}, {}, {})
            /\ MoveParamHome(i) => Writes({}, {ParamOffset(fn.params[i])}, {})
            /\ LeaveParam(i) => Writes({}, {}, {})
  /\ EnterBody => Writes({regOf[c] : c \in Literals}, {}, {})
<1>1. ASSUME NEW i
      PROVE  /\ MoveParamToRegister(i) => Writes({regOf[fn.params[i]]}, {}, {})
             /\ MoveParamHome(i) => Writes({}, {ParamOffset(fn.params[i])}, {})
             /\ LeaveParam(i) => Writes({}, {}, {})
  BY DEF MoveParamToRegister, MoveParamHome, LeaveParam, Writes
<1>2. EnterBody => Writes({regOf[c] : c \in Literals}, {}, {})
  <2>1. SUFFICES ASSUME EnterBody PROVE Writes({regOf[c] : c \in Literals}, {}, {})
    OBVIOUS
  <2>2. /\ reg' = [r \in DOMAIN reg |-> IF {c \in Literals : regOf[c] = r} = {} THEN reg[r]
                                        ELSE {c \in Literals : regOf[c] = r}]
        /\ mem' = mem
    BY <2>1 DEF EnterBody
  <2>3. QED
    BY <2>2 DEF Writes
<1>3. QED
  BY <1>1, <1>2

-----------------------------------------------------------------------------
(* The places a step may change. *)

\* Phi k of a block is at least the k-th.
LEMMA PhiCount ==
  ASSUME NEW f \in Functions, NEW c \in Blocks(f), NEW k \in PhiSites(f, c)
  PROVE  k \in Nat /\ k >= 1 /\ Cardinality(Phis(f, c)) \in Nat /\ k <= Cardinality(Phis(f, c))
<1> DEFINE phi == [j \in 1 .. k |-> f.blocks[c][j]]
<1>1. k \in DOMAIN f.blocks[c] /\ \A j \in 1 .. k : f.blocks[c][j].op = "phi"
  BY DEF PhiSites
<1>2. k \in Nat /\ k >= 1 /\ DOMAIN f.blocks[c] = 1 .. Len(f.blocks[c]) /\ Len(f.blocks[c]) \in Nat
  BY <1>1, FunctionShape
<1>3. 1 .. k \subseteq PhiSites(f, c)
  <2>1. ASSUME NEW j \in 1 .. k PROVE j \in DOMAIN f.blocks[c] /\ 1 .. j \subseteq 1 .. k
    BY <1>1, <1>2
  <2>2. QED
    BY <1>1, <2>1 DEF PhiSites
<1>4. \A j \in 1 .. k : f.blocks[c][j] \in Phis(f, c)
  BY <1>3 DEF Phis
<1>5. ASSUME NEW i \in 1 .. k, NEW j \in 1 .. k, f.blocks[c][i] = f.blocks[c][j]
      PROVE  i = j
  <2>1. /\ <<c, i>> \in Sites(f) /\ At(f, <<c, i>>) = f.blocks[c][i] /\ f.blocks[c][i].res # NoValue
        /\ <<c, j>> \in Sites(f) /\ At(f, <<c, j>>) = f.blocks[c][j]
    BY <1>3, PhiFacts
  <2>2. <<c, i>> = <<c, j>>
    BY <1>5, <2>1, OneDefinition
  <2>3. QED
    BY <2>2
<1>6. phi \in Injection(1 .. k, Phis(f, c))
  BY <1>4, <1>5 DEF Injection, IsInjective
<1>7. IsFiniteSet(Phis(f, c))
  BY FiniteFunction
<1>8. Cardinality(1 .. k) <= Cardinality(Phis(f, c))
  BY <1>6, <1>7, FS_Injection
<1>9. 1 \in Int /\ k \in Int
  BY <1>2
<1>10. Cardinality(1 .. k) = k
  BY <1>2, <1>9, FS_Interval
<1>11. QED
  BY <1>2, <1>7, <1>8, <1>10, FS_CardinalityType

\* A result that is kept, and its slot.
LEMMA KeptResult ==
  ASSUME Compiled, ~LoweringFails, NEW s \in Sites(fn), At(fn, s).res # NoValue, ~LeftToBranch(s)
  PROVE  LET v == At(fn, s).res
         IN  /\ v \in SsaValues(fn) \ Deferred /\ v \notin Params(fn)
             /\ ~Allocated(v) => /\ InFrame(v) /\ SlotOffset(v) = Word(v) /\ Word(v) \in Words
                                 /\ ParamBase <= Word(v) /\ Word(v) < SavedBase
<1> DEFINE v == At(fn, s).res
<1>1. fn \in Functions
  BY ValuesAndNames
<1>2. DefSite(fn, v) = s /\ v \in Results(fn) /\ v \notin Params(fn)
  BY <1>1, OneDefinition
<1>3. v \notin Deferred
  <2>1. SUFFICES ASSUME NEW t \in Sites(fn), LeftToBranch(t), At(fn, t).res = v PROVE FALSE
    BY DEF Deferred
  <2>2. t = s
    BY <1>1, <2>1, <1>2, OneDefinition
  <2>3. QED
    BY <2>1, <2>2
<1>4. v \in SsaValues(fn) \ Deferred
  BY <1>2, <1>3 DEF SsaValues
<1>5. ASSUME ~Allocated(v)
      PROVE  /\ InFrame(v) /\ SlotOffset(v) = Word(v) /\ Word(v) \in Words
             /\ ParamBase <= Word(v) /\ Word(v) < SavedBase
  <2>1. InFrame(v)
    BY <1>4, <1>5, ValuesPlaced
  <2>2. SlotOffset(v) = Word(v)
    BY <1>2 DEF Word
  <2>3. Word(v) \in Words /\ ParamBase <= Word(v)
    BY <1>1, <2>1, WordsApart
  <2>4. Word(v) < SavedBase
    <3>1. v \in Slotted
      BY <1>2, <2>1 DEF InFrame
    <3>2. QED
      BY <1>1, <2>2, <3>1, LayoutApart DEF AreasApart
  <2>5. QED
    BY <2>1, <2>2, <2>3, <2>4
<1>6. QED
  BY <1>2, <1>4, <1>5

LEMMA TargetKept ==
  ASSUME Compiled, Course, Compute \/ LoadLocal \/ SetLocal
  PROVE  /\ Target \in SsaValues(fn) \ Deferred /\ Target \notin Params(fn)
         /\ ~Allocated(Target) => /\ InFrame(Target) /\ SlotOffset(Target) = Word(Target)
                                  /\ Word(Target) \in Words
                                  /\ ParamBase <= Word(Target) /\ Word(Target) < SavedBase
<1>1. fn \in Functions /\ ~LoweringFails /\ pc[2] \in DOMAIN fn.blocks[pc[1]]
      /\ At(fn, pc).op \in {"arith", "and", "icmp", "load", "set"}
      /\ (At(fn, pc).op = "icmp" => ~LeftToBranch(pc))
  BY ValuesAndNames DEF Compute, LoadLocal, SetLocal, AtInst, Course, Running, InBody
<1>2. pc \in Sites(fn)
  BY <1>1, HereIsSite
<1>3. CASE At(fn, pc).op # "set"
  <2>1. At(fn, pc).res # NoValue /\ ~LeftToBranch(pc) /\ Target = At(fn, pc).res
    BY <1>1, <1>2, <1>3, FunctionsWellFormed DEF Shaped, Target, LeftToBranch
  <2>2. QED
    BY <1>1, <1>2, <2>1, KeptResult
<1>4. CASE At(fn, pc).op = "set"
  <2>1. Target \in Variables(fn)
    BY <1>1, <1>2, <1>4, FunctionsWellFormed DEF Shaped, Target
  <2>2. PICK s \in Sites(fn) : At(fn, s).op = "alloca" /\ At(fn, s).res = Target
    BY <2>1 DEF Variables
  <2>3. At(fn, s).res # NoValue /\ ~LeftToBranch(s)
    BY <1>1, <2>2, FunctionsWellFormed DEF Shaped, LeftToBranch
  <2>4. QED
    BY <1>1, <2>2, <2>3, KeptResult
<1>5. QED
  BY <1>3, <1>4

LEMMA StackArgumentsBelow ==
  ASSUME Compiled, Course, AtCall, stage \in Running, NEW w \in StackArgumentWords
  PROVE  w \in Nat /\ w < OutgoingWords
<1>1. /\ fn \in Functions /\ pc \in Sites(fn) /\ At(fn, pc).op = "call"
      /\ Len(At(fn, pc).args) \in Nat /\ DOMAIN At(fn, pc).args = 1 .. Len(At(fn, pc).args)
  BY CallArguments
<1>2. w \in Nat /\ w + Len(ARegs) + 1 <= Len(At(fn, pc).args) /\ Len(ARegs) \in Nat
  <2>1. w \in Words /\ w + Len(ARegs) + 1 \in DOMAIN At(fn, pc).args
    BY DEF StackArgumentWords, Course
  <2>2. QED
    BY <1>1, <2>1, RegisterFacts DEF Words
<1>3. WordsOnStack(Len(At(fn, pc).args)) = Len(At(fn, pc).args) - Len(ARegs)
  BY <1>1, <1>2 DEF WordsOnStack
<1>4. WordsOnStack(Len(At(fn, pc).args)) <= OutgoingWords /\ OutgoingWords \in Nat
  BY <1>1, OutgoingLargeEnough
<1>5. QED
  BY <1>1, <1>2, <1>3, <1>4

LEMMA PhiPlaces ==
  ASSUME Compiled, Course, stage \in Running, NEW c \in Blocks(fn), NEW k \in PhiSites(fn, c)
  PROVE  LET v == PhiAt(c, k).res
         IN  /\ v \in SsaValues(fn) \ Deferred /\ v \notin Params(fn)
             /\ ~Allocated(v) =>
                  /\ InFrame(v) /\ SlotOffset(v) = Word(v) /\ Word(v) \in Words
                  /\ ParamBase <= Word(v) /\ Word(v) < SavedBase
             /\ (\E phi \in Phis(fn, c) : ~Allocated(phi.res)) =>
                  TempBase <= TempBase + k - 1 /\ TempBase + k - 1 < ParamBase
<1>1. fn \in Functions /\ ~LoweringFails
  BY ValuesAndNames DEF Course
<1>2. /\ <<c, k>> \in Sites(fn) /\ At(fn, <<c, k>>) = PhiAt(c, k) /\ PhiAt(c, k).op = "phi"
      /\ PhiAt(c, k).res # NoValue
  BY <1>1, PhiFacts DEF PhiAt
<1>3. ~LeftToBranch(<<c, k>>)
  BY <1>2 DEF LeftToBranch
<1>4. ASSUME \E phi \in Phis(fn, c) : ~Allocated(phi.res)
      PROVE  TempBase <= TempBase + k - 1 /\ TempBase + k - 1 < ParamBase
  <2>1. TempBase + Cardinality(Phis(fn, c)) <= ParamBase
    BY <1>1, <1>4, LayoutApart DEF AreasApart
  <2>2. QED
    BY <1>1, <2>1, PhiCount, BasesInOrder
<1>5. QED
  BY <1>1, <1>2, <1>3, <1>4, KeptResult

LEMMA PhiWordsWhere ==
  ASSUME Compiled, Course, stage \in Running, NEW c \in Blocks(fn), NEW w \in PhiWords(c)
  PROVE  /\ w \in Nat /\ TempBase <= w /\ w < SavedBase
         /\ \A v : InFrame(v) /\ Word(v) = w => \E k \in PhiSites(fn, c) : v = PhiAt(c, k).res
<1>1. fn \in Functions /\ PhiToWord(c, w) # {} /\ w \in Words
  BY ValuesAndNames DEF PhiWords, Course
<1>2. \E phi \in Phis(fn, c) : ~Allocated(phi.res)
  BY <1>1 DEF PhiToWord
<1>3. PICK k \in PhiSites(fn, c) :
        \/ w = TempBase + k - 1
        \/ ~Allocated(PhiAt(c, k).res) /\ w = SlotOffset(PhiAt(c, k).res)
  BY <1>1 DEF PhiToWord
<1>4. w \in Nat
  BY <1>1 DEF Words
<1>5. CASE w = TempBase + k - 1
  <2>1. TempBase <= w /\ w < ParamBase
    BY <1>2, <1>5, PhiPlaces
  <2>2. \A v : InFrame(v) => ParamBase <= Word(v) /\ Word(v) \in Nat
    BY <1>1, WordsApart DEF Words
  <2>3. QED
    BY <1>1, <1>4, <2>1, <2>2, BasesInOrder
<1>6. CASE ~Allocated(PhiAt(c, k).res) /\ w = SlotOffset(PhiAt(c, k).res)
  <2> DEFINE u == PhiAt(c, k).res
  <2>1. InFrame(u) /\ w = Word(u) /\ ParamBase <= w /\ w < SavedBase
    BY <1>6, PhiPlaces
  <2>2. \A v : InFrame(v) /\ Word(v) = w => v = u
    BY <1>1, <2>1, WordsApart
  <2>3. QED
    BY <1>1, <1>4, <2>1, <2>2, BasesInOrder
<1>7. QED
  BY <1>3, <1>5, <1>6

-----------------------------------------------------------------------------
(* The caller's registers. *)

Executing == {"prologue", "running", "stacked", "called"}

CallerKept ==
  /\ stage \in Executing =>
       /\ \A r \in UsedCalleeSaved : r \in mem[SavedOffset(r)]
       /\ \A r \in ToSet(SRegs) \ UsedCalleeSaved : r \in reg[r]
       /\ IF HasCall THEN Ra \in mem[RaOffset] ELSE Ra \in reg[Ra]
  /\ stage = "returned" => \A r \in ToSet(SRegs) \cup {Ra} : r \in reg[r]

\* Changes that leave alone what the epilogue needs.
Spares(rs, ws, ns) ==
  /\ \A n \in ns : n \notin Registers \cup {Ra}
  /\ \A r \in rs : r \in ToSet(SRegs) => r \in UsedCalleeSaved
  /\ Ra \in rs => HasCall
  /\ \A w \in ws : w \notin SavedWords

LEMMA SparingStep ==
  ASSUME Course, Stored, fn \in Functions, fn' = fn, regOf' = regOf,
         stage \in Executing, stage' \in Executing, CallerKept,
         NEW rs, NEW ws, NEW ns, Writes(rs, ws, ns), Spares(rs, ws, ns)
  PROVE  CallerKept'
<1>1. /\ UsedCalleeSaved' = UsedCalleeSaved /\ HasCall' = HasCall /\ RaOffset' = RaOffset
      /\ \A r : SavedOffset(r)' = SavedOffset(r)
  BY FrameStays
<1>2. DOMAIN mem = Words /\ DOMAIN reg = Registers \cup {Ra} /\ ToSet(SRegs) \subseteq Registers
      /\ stage' # "returned" /\ UsedCalleeSaved \subseteq ToSet(SRegs)
  BY RegisterFacts DEF Course, Stored, Executing, Running, InBody, UsedCalleeSaved
<1>3. ASSUME NEW r \in UsedCalleeSaved PROVE r \in mem'[SavedOffset(r)]
  <2>1. SavedOffset(r) \in DOMAIN mem /\ SavedOffset(r) \notin ws /\ r \notin ns
    BY <1>2, SavedInFrame DEF Spares, SavedWords
  <2>2. r \in mem[SavedOffset(r)]
    BY DEF CallerKept
  <2>3. QED
    BY <2>1, <2>2 DEF Writes
<1>4. ASSUME NEW r \in ToSet(SRegs) \ UsedCalleeSaved PROVE r \in reg'[r]
  BY <1>2 DEF CallerKept, Spares, Writes
<1>5. CASE HasCall
  <2>1. RaOffset \in DOMAIN mem /\ RaOffset \notin ws /\ Ra \notin ns
    BY <1>2, <1>5, SavedInFrame DEF Spares, SavedWords
  <2>2. Ra \in mem'[RaOffset]
    BY <1>5, <2>1 DEF CallerKept, Writes
  <2>3. QED
    BY <1>1, <1>2, <1>3, <1>4, <1>5, <2>2 DEF CallerKept
<1>6. CASE ~HasCall
  <2>1. Ra \in reg'[Ra]
    BY <1>2, <1>6 DEF CallerKept, Spares, Writes
  <2>2. QED
    BY <1>1, <1>2, <1>3, <1>4, <1>6, <2>1 DEF CallerKept
<1>7. QED
  BY <1>5, <1>6

\* A value's register is saved by the function if the caller expects it back,
\* and its slot is no word of the saved ones.
LEMMA PlaceSpared ==
  ASSUME Compiled, NEW v \in SsaValues(fn) \cup Literals,
         ~Allocated(v) => SlotOffset(v) \in Words /\ ParamBase <= SlotOffset(v)
                          /\ SlotOffset(v) < SavedBase
  PROVE  /\ \A r \in RegsOf(v) : r # Ra /\ (r \in ToSet(SRegs) => r \in UsedCalleeSaved)
         /\ \A w \in WordsOf(v) : w \notin SavedWords
<1>1. /\ fn \in Functions
      /\ regOf \in [SsaValues(fn) \cup Literals -> Registers \cup {NoReg}]
      /\ Allocated(v) => regOf[v] \in Registers
  BY ValuesAndNames DEF Compiled, Inv, Typed
<1>2. \A r \in RegsOf(v) : r # Ra /\ (r \in ToSet(SRegs) => r \in UsedCalleeSaved)
  BY <1>1, RegisterFacts DEF RegsOf, UsedCalleeSaved
<1>3. ASSUME ~Allocated(v) PROVE SlotOffset(v) \notin SavedWords
  <2>1. SUFFICES ASSUME SlotOffset(v) \in SavedWords PROVE FALSE
    OBVIOUS
  <2>2. \/ HasCall /\ SlotOffset(v) < TempBase
        \/ SavedBase <= SlotOffset(v)
    BY <1>1, <2>1, SavedInFrame
  <2>3. SlotOffset(v) \in Nat
    BY <1>3 DEF Words
  <2>4. QED
    BY <1>1, <1>3, <2>2, <2>3, BasesInOrder
<1>4. QED
  BY <1>2, <1>3 DEF WordsOf

LEMMA MachineKeepsCaller ==
  ASSUME Compiled, Course, Stored, CallerKept, MachineNext
  PROVE  CallerKept'
<1>1. fn' = fn /\ regOf' = regOf /\ fn \in Functions
  BY FunctionStays, ValuesAndNames
<1>2. CASE GiveUp
  BY <1>2 DEF GiveUp, CallerKept, Executing
<1>3. CASE Enter
  <2>1. /\ UsedCalleeSaved' = UsedCalleeSaved /\ HasCall' = HasCall /\ RaOffset' = RaOffset
        /\ \A r : SavedOffset(r)' = SavedOffset(r)
    BY <1>1, FrameStays
  <2>2. stage' = "prologue"
    BY <1>3 DEF Enter
  <2>3. \A r \in Registers \cup {Ra} : r \in reg'[r]
    BY <1>3 DEF Enter
  <2>4. ASSUME NEW r \in UsedCalleeSaved PROVE r \in mem'[SavedOffset(r)]
    <3>1. SavedOffset(r) \in 0 .. FrameSize + WordsOnStack(Len(fn.params)) - 1
      BY <1>1, SavedInFrame DEF Words
    <3>2. QED
      BY <1>3, <3>1 DEF Enter
  <2>5. HasCall => Ra \in mem'[RaOffset]
    <3>1. HasCall => RaOffset \in 0 .. FrameSize + WordsOnStack(Len(fn.params)) - 1
      BY <1>1, SavedInFrame DEF Words
    <3>2. QED
      BY <1>3, <3>1 DEF Enter
  <2>6. QED
    BY <2>1, <2>2, <2>3, <2>4, <2>5, RegisterFacts DEF CallerKept
<1>4. CASE \E i \in 1 .. Len(fn.params) : MoveParamToRegister(i) \/ MoveParamHome(i) \/ LeaveParam(i)
  <2>1. PICK i \in 1 .. Len(fn.params) : MoveParamToRegister(i) \/ MoveParamHome(i) \/ LeaveParam(i)
    BY <1>4
  <2> DEFINE v == fn.params[i]
  <2>2. /\ stage = "prologue" /\ stage' = "prologue" /\ v \in SsaValues(fn)
    BY <1>1, <2>1, ParamsNumbered
       DEF MoveParamToRegister, MoveParamHome, LeaveParam, Moving, compiler, livenessVars, SsaValues
  <2>3. CASE MoveParamToRegister(i)
    <3>1. Writes({regOf[v]}, {}, {}) /\ Allocated(v)
      BY <2>3, PrologueWrites DEF MoveParamToRegister
    <3>2. Spares({regOf[v]}, {}, {})
      BY <2>2, <3>1, PlaceSpared DEF Spares, RegsOf
    <3>3. QED
      BY <1>1, <2>2, <3>1, <3>2, SparingStep DEF Executing
  <2>4. CASE MoveParamHome(i)
    <3>1. Writes({}, {ParamOffset(v)}, {}) /\ v \in HomeParams
      BY <2>4, PrologueWrites DEF MoveParamHome
    <3>2. ParamOffset(v) = Word(v) /\ InFrame(v) /\ Word(v) < SlotBase
      <4>1. v \notin Literals
        BY <2>2, ValuesAndNames
      <4>2. ParamOffset(v) = Word(v) /\ InFrame(v)
        BY <3>1, <4>1 DEF HomeParams, InFrame, Word
      <4>3. ParamOffset(v) < SlotBase
        BY <1>1, <3>1, LayoutApart DEF AreasApart
      <4>4. QED
        BY <4>2, <4>3
    <3>3. Word(v) \in Nat /\ ParamBase <= Word(v)
      BY <1>1, <3>2, WordsApart DEF Words
    <3>4. Word(v) \notin SavedWords
      BY <1>1, <3>2, <3>3, SavedInFrame, BasesInOrder
    <3>5. Spares({}, {ParamOffset(v)}, {})
      BY <3>2, <3>4 DEF Spares
    <3>6. QED
      BY <1>1, <2>2, <3>1, <3>5, SparingStep DEF Executing
  <2>5. CASE LeaveParam(i)
    <3>1. Writes({}, {}, {}) /\ Spares({}, {}, {})
      BY <2>5, PrologueWrites DEF Spares
    <3>2. QED
      BY <1>1, <2>2, <3>1, SparingStep DEF Executing
  <2>6. QED
    BY <2>1, <2>3, <2>4, <2>5
<1>5. CASE EnterBody
  <2>1. Writes({regOf[c] : c \in Literals}, {}, {}) /\ stage = "prologue" /\ stage' = "running"
    BY <1>5, PrologueWrites DEF EnterBody
  <2>2. regOf \in [SsaValues(fn) \cup Literals -> Registers \cup {NoReg}]
    BY DEF Compiled, Inv, Typed
  <2>3. Spares({regOf[c] : c \in Literals}, {}, {})
    <3>1. \A c \in Literals : regOf[c] # Ra
      BY <2>2, RegisterFacts
    <3>2. \A c \in Literals : regOf[c] \in ToSet(SRegs) => regOf[c] \in UsedCalleeSaved
      BY <2>2 DEF UsedCalleeSaved
    <3>3. QED
      BY <3>1, <3>2 DEF Spares
  <2>4. QED
    BY <1>1, <2>1, <2>3, SparingStep DEF Executing
<1>6. CASE Compute \/ LoadLocal \/ SetLocal
  <2>1. Writes(RegsOf(Target), WordsOf(Target), {Target}) /\ stage = "running" /\ stage' = "running"
    BY <1>6, ComputeWrites DEF Compute, LoadLocal, SetLocal, AtInst, compiler, livenessVars
  <2>2. Spares(RegsOf(Target), WordsOf(Target), {Target})
    <3>1. /\ Target \in SsaValues(fn)
          /\ ~Allocated(Target) => SlotOffset(Target) \in Words /\ ParamBase <= SlotOffset(Target)
                                   /\ SlotOffset(Target) < SavedBase
      BY <1>6, TargetKept
    <3>2. QED
      BY <3>1, PlaceSpared, ValuesAndNames DEF Spares
  <2>3. QED
    BY <1>1, <2>1, <2>2, SparingStep DEF Executing
<1>7. CASE Defer \/ Pass \/ (\E c \in Blocks(fn) : FallInto(c))
  <2> DEFINE ns == IF Defer THEN {At(fn, pc).res} ELSE {}
  <2>1. stage = "running" /\ stage' = "running"
    BY <1>7 DEF Defer, Pass, FallInto, AtInst, compiler, livenessVars
  <2>2. Defer => At(fn, pc).res \in SsaValues(fn)
    <3>1. SUFFICES ASSUME Defer PROVE At(fn, pc).res \in SsaValues(fn)
      OBVIOUS
    <3>2. pc \in Sites(fn) /\ At(fn, pc).op = "icmp"
      BY <3>1, HereIsSite DEF Defer, AtInst
    <3>3. QED
      BY <1>1, <3>2, ResultsAreNames, FunctionsWellFormed DEF Shaped
  <2>3. Writes({}, {}, ns)
    BY <1>7, QuietWrites
  <2>4. Spares({}, {}, ns)
    BY <2>2, ValuesAndNames DEF Spares
  <2> HIDE DEF ns
  <2>5. QED
    BY <1>1, <2>1, <2>3, <2>4, SparingStep DEF Executing
<1>8. CASE StackArguments
  <2>1. stage = "running" /\ stage' = "stacked" /\ AtCall
    BY <1>8 DEF StackArguments, AtInst, AtCall
  <2>2. Writes({}, StackArgumentWords, {})
    BY <1>8, StackArgumentsWrites
  <2>3. ASSUME NEW w \in StackArgumentWords PROVE w \notin SavedWords
    <3>1. w \in Nat /\ w < OutgoingWords
      BY <2>1, StackArgumentsBelow DEF Running, InBody
    <3>2. QED
      BY <1>1, <3>1, SavedInFrame, BasesInOrder
  <2>4. Spares({}, StackArgumentWords, {})
    BY <2>3 DEF Spares
  <2>5. QED
    BY <1>1, <2>1, <2>2, <2>4, SparingStep DEF Executing
<1>9. CASE RegisterArguments
  <2>1. stage = "stacked" /\ stage' = "called"
    BY <1>9 DEF RegisterArguments
  <2>2. Writes(ToSet(ARegs), {}, {})
    BY <1>9, RegisterArgumentsWrites
  <2>3. Spares(ToSet(ARegs), {}, {})
    BY RegisterFacts DEF Spares, ToSet
  <2>4. QED
    BY <1>1, <2>1, <2>2, <2>3, SparingStep DEF Executing
<1>10. CASE CalleeReturns
  <2> DEFINE rs == ((Registers \cup {Ra}) \ ToSet(SRegs)) \cup ResultRegs
             ws == {w \in DOMAIN mem : w < OutgoingWords} \cup ResultWords
  <2>1. stage = "called" /\ stage' = "running" /\ AtCall
    BY <1>10 DEF CalleeReturns, Course
  <2>2. Writes(rs, ws, ResultNames)
    BY <1>10, CalleeReturnsWrites
  <2>3. HasCall /\ pc \in Sites(fn) /\ At(fn, pc).op = "call" /\ ~LoweringFails
    BY <2>1, CallArguments DEF Course, Running, InBody
  <2>4. /\ \A r \in ResultRegs : r # Ra /\ (r \in ToSet(SRegs) => r \in UsedCalleeSaved)
        /\ \A w \in ResultWords : w \notin SavedWords
        /\ \A n \in ResultNames : n \notin Registers \cup {Ra}
    <3>1. CASE At(fn, pc).res = NoValue
      BY <3>1 DEF ResultRegs, ResultWords, ResultNames
    <3>2. CASE At(fn, pc).res # NoValue
      <4> DEFINE v == At(fn, pc).res
      <4>1. /\ v \in SsaValues(fn)
            /\ ~Allocated(v) => SlotOffset(v) \in Words /\ ParamBase <= SlotOffset(v)
                                /\ SlotOffset(v) < SavedBase
        BY <2>3, <3>2, KeptResult DEF LeftToBranch
      <4>2. ResultRegs = RegsOf(v) /\ ResultWords = WordsOf(v) /\ ResultNames = {v}
        BY <3>2 DEF ResultRegs, ResultWords, ResultNames
      <4> HIDE DEF v
      <4>3. QED
        BY <4>1, <4>2, PlaceSpared, ValuesAndNames
    <3>3. QED
      BY <3>1, <3>2
  <2>5. ASSUME NEW w \in DOMAIN mem, w < OutgoingWords PROVE w \notin SavedWords
    <3>1. w \in Nat
      BY <2>1, <2>5 DEF Course, Running, InBody, Words
    <3>2. QED
      BY <1>1, <2>5, <3>1, SavedInFrame, BasesInOrder
  <2>6. Spares(rs, ws, ResultNames)
    BY <2>3, <2>4, <2>5 DEF Spares
  <2> HIDE DEF rs, ws
  <2>7. QED
    BY <1>1, <2>1, <2>2, <2>6, SparingStep DEF Executing
<1>11. CASE \E c \in Blocks(fn) : Branch(c)
  <2>1. PICK c \in Blocks(fn) : Branch(c)
    BY <1>11
  <2>2. stage = "running" /\ stage' = "running" /\ stage \in Running
    BY <2>1 DEF Branch, AtInst, compiler, livenessVars, Running, InBody
  <2>3. Writes(PhiRegs(c), PhiWords(c), PhiResults(c))
    BY <2>1, BranchWrites
  <2>4. \A n \in PhiResults(c) : n \notin Registers \cup {Ra}
    <3>1. ASSUME NEW n \in PhiResults(c) PROVE n \in SsaValues(fn)
      <4>1. PICK k \in PhiSites(fn, c) : n = fn.blocks[c][k].res
        BY DEF PhiResults, Phis
      <4>2. QED
        BY <1>1, <4>1, PhiFacts
    <3>2. QED
      BY <3>1, ValuesAndNames
  <2>5. ASSUME NEW r \in PhiRegs(c)
        PROVE  r # Ra /\ (r \in ToSet(SRegs) => r \in UsedCalleeSaved)
    <3>1. PICK k \in PhiSites(fn, c) : regOf[PhiAt(c, k).res] = r
      BY DEF PhiRegs, PhiToRegister
    <3>2. PhiAt(c, k).res \in SsaValues(fn) /\ r \in Registers \cup {Ra}
      BY <1>1, <3>1, PhiFacts DEF PhiAt, PhiRegs, Stored
    <3>3. Allocated(PhiAt(c, k).res)
      BY <3>1, <3>2, RegisterFacts DEF Allocated
    <3>4. QED
      BY <3>1, <3>2, <3>3, PlaceSpared DEF RegsOf
  <2>6. ASSUME NEW w \in PhiWords(c) PROVE w \notin SavedWords
    <3>1. w \in Nat /\ TempBase <= w /\ w < SavedBase
      BY <2>2, PhiWordsWhere
    <3>2. QED
      BY <1>1, <3>1, SavedInFrame, BasesInOrder
  <2>7. Spares(PhiRegs(c), PhiWords(c), PhiResults(c))
    BY <2>4, <2>5, <2>6 DEF Spares
  <2>8. QED
    BY <1>1, <2>2, <2>3, <2>7, SparingStep DEF Executing
<1>12. CASE Return \/ FallIntoExit
  <2>1. /\ stage = "running" /\ stage' = "returned"
        /\ \E a0 : Leave(a0)
    BY <1>12 DEF Return, FallIntoExit, AtInst, Leave
  <2>2. DOMAIN reg = Registers \cup {Ra} /\ ToSet(SRegs) \subseteq Registers
        /\ ARegs[1] \notin ToSet(SRegs) /\ ARegs[1] # Ra
    BY RegisterFacts DEF Stored
  <2>3. ASSUME NEW r \in ToSet(SRegs) PROVE r \in reg'[r]
    <3>1. r # ARegs[1] /\ r # Ra
      BY <2>2, RegisterFacts
    <3>2. QED
      BY <2>1, <2>2, <3>1 DEF Leave, CallerKept, Executing
  <2>4. Ra \in reg'[Ra]
    <3>1. Ra \notin UsedCalleeSaved /\ Ra # ARegs[1]
      BY RegisterFacts DEF UsedCalleeSaved
    <3>2. QED
      BY <2>1, <2>2, <3>1 DEF Leave, CallerKept, Executing
  <2>5. QED
    BY <2>1, <2>3, <2>4 DEF CallerKept, Executing
<1>13. QED
  BY <1>2, <1>3, <1>4, <1>5, <1>6, <1>7, <1>8, <1>9, <1>10, <1>11, <1>12 DEF MachineNext

LEMMA NextKeepsCaller ==
  Compiled /\ Course /\ Stored /\ CallerKept /\ [Next]_vars => CallerKept'
<1> SUFFICES ASSUME Compiled, Course, Stored, CallerKept, [Next]_vars PROVE CallerKept'
  OBVIOUS
<1>1. CASE MachineNext
  BY <1>1, MachineKeepsCaller
<1>2. CASE AllocNext /\ UNCHANGED machine
  BY <1>2, AllocMoves DEF CallerKept, Compiling, Executing
<1>3. CASE UNCHANGED vars
  <2>1. fn' = fn /\ regOf' = regOf /\ stage' = stage /\ UNCHANGED <<reg, mem>>
    BY <1>3 DEF vars, compiler, machine, livenessVars, allocVars
  <2>2. /\ UsedCalleeSaved' = UsedCalleeSaved /\ HasCall' = HasCall /\ RaOffset' = RaOffset
        /\ \A r : SavedOffset(r)' = SavedOffset(r)
    BY <2>1, FrameStays
  <2>3. QED
    BY <2>1, <2>2 DEF CallerKept
<1>4. QED
  BY <1>1, <1>2, <1>3 DEF Next, MachineNext, Over

LEMMA CallerKeptAlways == Spec => [](Compiled /\ Course /\ Stored /\ CallerKept)
<1>1. Init => Stored /\ CallerKept
  BY InitStored, InitCourse DEF Init, AllocInit, LivenessInit, CallerKept, Executing
<1>2. QED
  BY <1>1, CourseAlways, NextStored, NextKeepsCaller, PTL DEF Spec

\* The caller gets back its callee-saved registers and its return address, from
\* every function, however many it has and however often it calls.
THEOREM CallerGetsBack ==
  Spec => [](stage = "returned" => \A r \in ToSet(SRegs) \cup {Ra} : r \in reg[r])
<1>1. CallerKept => (stage = "returned" => \A r \in ToSet(SRegs) \cup {Ra} : r \in reg[r])
  BY DEF CallerKept
<1>2. QED
  BY <1>1, CallerKeptAlways, PTL

\* A value that is live across a call, to whichever pass it owes its register,
\* is in a register the callee saves or in the frame.
THEOREM CrossingAlwaysSaved == Spec => []CrossingSaved
<1>1. Compiled => CrossingSaved
  BY DEF Compiled
<1>2. QED
  BY <1>1, CompiledAlways, PTL

-----------------------------------------------------------------------------
(* When there is no code. *)

\* A value without a place is read by the branch behind it, and nobody else.
LEMMA WithoutPlace ==
  ASSUME Compiled, NEW v \in SsaValues(fn), ~Placed(v)
  PROVE  /\ fn.opt /\ DefSite(fn, v) \in Sites(fn) /\ At(fn, DefSite(fn, v)).res = v /\ v # NoValue
         /\ DirectCondition(fn, DefSite(fn, v))
         /\ \A t \in Sites(fn) : \A i \in DOMAIN At(fn, t).args :
              At(fn, t).args[i] = v => At(fn, t).op = "condbr"
<1>1. fn \in Functions
  BY ValuesAndNames
<1>2. v \in Results(fn) /\ fn.opt /\ DirectCondition(fn, DefSite(fn, v))
  BY DEF Placed, Slotted, SsaValues
<1>3. DefSite(fn, v) \in Sites(fn) /\ At(fn, DefSite(fn, v)).res = v /\ v # NoValue
  BY <1>1, <1>2, ResultsHaveSites
<1>4. \A u \in Uses(fn, v) : At(fn, u[1]).op = "condbr"
  BY <1>2, <1>3 DEF DirectCondition
<1>5. ASSUME NEW t \in Sites(fn), NEW i \in DOMAIN At(fn, t).args, At(fn, t).args[i] = v
      PROVE  At(fn, t).op = "condbr"
  <2>1. <<t, i>> \in Uses(fn, v)
    BY <1>1, <1>5, ReadersAreUses
  <2>2. QED
    BY <1>4, <2>1
<1>6. QED
  BY <1>2, <1>3, <1>5

\* What the code of an instruction reads are operands: of the instruction, or
\* of the comparison its branch makes.
LEMMA ReadsAreOperands ==
  ASSUME Compiled, NEW s \in Sites(fn), NEW v \in Reads(s)
  PROVE  /\ v \in SsaValues(fn) \cup Literals
         /\ \E t \in Sites(fn), i \in Nat :
              /\ i \in DOMAIN At(fn, t).args /\ At(fn, t).args[i] = v
              /\ At(fn, t).op = "set" => i = 2
              /\ \/ t = s /\ ~FusedCompare(s)
                 \/ FusedCompare(s) /\ LeftToBranch(t) /\ At(fn, t).res = At(fn, s).args[1]
<1>1. fn \in Functions
  BY ValuesAndNames
<1>2. \A t \in Sites(fn) : /\ At(fn, t).args \in Seq(SsaValues(fn) \cup Literals)
                           /\ DOMAIN At(fn, t).args \subseteq Nat
  <2>1. ASSUME NEW t \in Sites(fn)
        PROVE  At(fn, t).args \in Seq(SsaValues(fn) \cup Literals)
    BY <1>1, FunctionsWellFormed DEF Shaped
  <2>2. QED
    BY <2>1
<1>3. CASE FusedCompare(s)
  <2>1. PICK c \in Sites(fn) : LeftToBranch(c) /\ At(fn, c).res = At(fn, s).args[1]
    BY <1>3 DEF FusedCompare
  <2>2. At(fn, c).res # NoValue
    BY <2>1 DEF LeftToBranch, DirectCondition
  <2>3. DefSite(fn, At(fn, s).args[1]) = c
    BY <1>1, <2>1, <2>2, OneDefinition
  <2>4. v \in ToSet(At(fn, c).args)
    BY <1>3, <2>3 DEF Reads
  <2>5. PICK i \in DOMAIN At(fn, c).args : At(fn, c).args[i] = v
    BY <2>4 DEF ToSet
  <2>6. QED
    BY <1>1, <1>2, <1>3, <2>1, <2>5, OperandsAreNames DEF LeftToBranch
<1>4. CASE ~FusedCompare(s)
  <2>1. \E i \in DOMAIN At(fn, s).args :
          At(fn, s).args[i] = v /\ (At(fn, s).op = "set" => i = 2)
    <3>1. CASE At(fn, s).op = "set"
      <4>1. Len(At(fn, s).args) = 2
        BY <1>1, <3>1, FunctionsWellFormed DEF Shaped
      <4>2. 2 \in DOMAIN At(fn, s).args
        BY <1>2, <4>1
      <4>3. At(fn, s).op # "icmp" /\ At(fn, s).op # "phi"
        BY <3>1
      <4>4. v = At(fn, s).args[2]
        BY <1>4, <3>1, <4>3 DEF Reads, LeftToBranch
      <4>5. QED
        BY <4>2, <4>4
    <3>2. CASE At(fn, s).op # "set"
      <4>1. v \in ToSet(At(fn, s).args)
        BY <1>4, <3>2 DEF Reads
      <4>2. QED
        BY <3>2, <4>1 DEF ToSet
    <3>3. QED
      BY <3>1, <3>2
  <2>2. QED
    BY <1>1, <1>2, <1>4, <2>1, OperandsAreNames
<1>5. QED
  BY <1>3, <1>4

LEMMA FailsForConditions ==
  ASSUME Compiled, LoweringFails, fn.void \/ \A b \in Blocks(fn) : Terminated(fn, b)
  PROVE  fn.opt /\ \E s \in Sites(fn) : DirectCondition(fn, s) /\ At(fn, s).op # "icmp"
<1> DEFINE Odd == fn.opt /\ \E s \in Sites(fn) : DirectCondition(fn, s) /\ At(fn, s).op # "icmp"
<1>1. fn \in Functions
  BY ValuesAndNames
<1>2. ASSUME NEW s \in Sites(fn), NEW v \in Reads(s), ~Placed(v)
      PROVE  Odd
  <2>1. PICK t \in Sites(fn), i \in Nat :
          /\ i \in DOMAIN At(fn, t).args /\ At(fn, t).args[i] = v
          /\ \/ t = s /\ ~FusedCompare(s)
             \/ FusedCompare(s) /\ LeftToBranch(t) /\ At(fn, t).res = At(fn, s).args[1]
    BY ReadsAreOperands
  <2>2. v \in SsaValues(fn)
    BY <1>2, ReadsAreOperands DEF Placed
  <2> DEFINE d == DefSite(fn, v)
  <2>3. /\ fn.opt /\ d \in Sites(fn) /\ At(fn, d).res = v /\ DirectCondition(fn, d)
        /\ At(fn, t).op = "condbr"
    BY <1>2, <2>1, <2>2, WithoutPlace
  <2>4. t = s /\ ~FusedCompare(s)
    BY <2>1, <2>3 DEF LeftToBranch
  <2>5. At(fn, s).args[1] = v
    <3>1. Len(At(fn, s).args) = 1
      BY <1>1, <2>3, <2>4, FunctionsWellFormed DEF Shaped
    <3>2. At(fn, s).args \in Seq(SsaValues(fn) \cup Literals)
      BY <1>1, FunctionsWellFormed DEF Shaped
    <3>3. QED
      BY <2>1, <2>4, <3>1, <3>2
  <2>6. ~LeftToBranch(d)
    BY <2>3, <2>4, <2>5 DEF FusedCompare
  <2>7. QED
    BY <2>3, <2>6 DEF LeftToBranch
<1>3. ASSUME NEW s \in Sites(fn), At(fn, s).res # NoValue, ~LeftToBranch(s),
             ~Placed(At(fn, s).res)
      PROVE  Odd
  <2>1. At(fn, s).res \in SsaValues(fn) /\ DefSite(fn, At(fn, s).res) = s
    BY <1>1, <1>3, OneDefinition DEF SsaValues
  <2>2. fn.opt /\ DirectCondition(fn, s)
    BY <1>3, <2>1, WithoutPlace
  <2>3. QED
    BY <1>3, <2>2 DEF LeftToBranch
<1>4. ASSUME NEW b \in Blocks(fn), NEW v \in EdgeReads(b)
      PROVE  Placed(v)
  <2>1. PICK c \in Succs(fn, b) : \E phi \in Phis(fn, c) : HasIncoming(phi, b) /\ v = Incoming(phi, b)
    BY <1>4 DEF EdgeReads
  <2>2. c \in Blocks(fn)
    BY <1>1, TargetsAreBlocks
  <2>3. PICK k \in PhiSites(fn, c) :
          HasIncoming(fn.blocks[c][k], b) /\ v = Incoming(fn.blocks[c][k], b)
    BY <2>1 DEF Phis
  <2>4. PICK i \in DOMAIN fn.blocks[c][k].args : fn.blocks[c][k].args[i] = v
    BY <1>1, <2>2, <2>3, IncomingIsOperand
  <2>5. /\ <<c, k>> \in Sites(fn) /\ At(fn, <<c, k>>) = fn.blocks[c][k]
        /\ fn.blocks[c][k].op = "phi"
    BY <1>1, <2>2, PhiFacts
  <2>6. v \in SsaValues(fn) \cup Literals
    BY <1>1, <2>4, <2>5, OperandsAreNames
  <2>7. QED
    BY <2>4, <2>5, <2>6, WithoutPlace DEF Placed
<1>5. \A b \in Blocks(fn) : \A c \in Succs(fn, b) : \A phi \in Phis(fn, c) : HasIncoming(phi, b)
  BY <1>1, FunctionsWellFormed DEF Connected
<1>6. fn.void \/ \A b \in Blocks(fn) : Terminated(fn, b)
  OBVIOUS
<1> HIDE DEF Odd
<1>7. Odd
  BY <1>2, <1>3, <1>4, <1>5, <1>6 DEF LoweringFails
<1>8. QED
  BY <1>7 DEF Odd

\* The code generator has code for every function, but for one that returns a
\* value and has an open block (IR generation leaves one behind an endless loop
\* that returns) and for one that branches, with -opt, on the single use of a
\* value that is not a comparison.
THEOREM FailureExplained == Spec => []FailuresKnown
<1>1. Compiled /\ Course => FailuresKnown
  BY FailsForConditions DEF Course, FailuresKnown
<1>2. QED
  BY <1>1, CourseAlways, PTL

-----------------------------------------------------------------------------
(* When the code is right.  Each part says that a function does not meet one of
   the conditions under which the back end is known to go wrong. *)

\* No instruction between a comparison and its branch takes a register from the
\* operands of the comparison.
ComparisonsKept ==
  \A s \in Sites(fn) : LeftToBranch(s) =>
    \A i \in s[2] + 1 .. Len(fn.blocks[s[1]]) : \A v \in ToSet(At(fn, s).args) :
      Allocated(v) =>
        LET inst == At(fn, <<s[1], i>>)
        IN  inst.op # "call" /\ (inst.res # NoValue => regOf[inst.res] # regOf[v])

\* A parameter's register is no later parameter's, where it goes or comes from.
ParamsMoveApart ==
  \A i, j \in DOMAIN fn.params :
    i < j /\ Allocated(fn.params[i]) /\ Uses(fn, fn.params[j]) # {} =>
      /\ regOf[fn.params[j]] # regOf[fn.params[i]]
      /\ ~OnStack(j) => ARegs[j] # regOf[fn.params[i]]

OpenBlocksEnd == \A b \in Blocks(fn) : ~Terminated(fn, b) => Following(b) = 0

Unaffected ==
  LivenessCovers /\ NeighboursApart /\ ComparisonsKept /\ ParamsMoveApart /\ OpenBlocksEnd

\* The phis of a block have run when control comes to its first instruction.
LastPhi(b) == Max({0} \cup PhiSites(fn, b))
Behind(b, i) == IF i < LastPhi(b) THEN LastPhi(b) ELSE i

\* The operands of comparisons that are left to the branch of the block.
Held(b, i) ==
  UNION {ToSet(At(fn, s).args) :
           s \in {t \in Sites(fn) : t[1] = b /\ t[2] <= i /\ LeftToBranch(t)}}

\* The values that have to be in place behind instruction i of block b: in the
\* frame all there are, in a register those still read.
Wanted(b, i) ==
  {v \in SsaValues(fn) \ Deferred :
     /\ Uses(fn, v) # {}
     /\ Available(fn, v, b, Behind(b, i))
     /\ Allocated(v) => v \in LiveAfter(b, Behind(b, i)) \cup Held(b, i)}

LEMMA PhisFirst ==
  ASSUME fn \in Functions, NEW b \in Blocks(fn)
  PROVE  /\ LastPhi(b) \in Nat /\ LastPhi(b) <= Len(fn.blocks[b])
         /\ \A n \in DOMAIN fn.blocks[b] :
              /\ n <= LastPhi(b) => n \in PhiSites(fn, b) /\ fn.blocks[b][n].op = "phi"
              /\ fn.blocks[b][n].op = "phi" => n <= LastPhi(b)
         /\ PhiSites(fn, b) = {} => LastPhi(b) = 0
<1> DEFINE S == {0} \cup PhiSites(fn, b)
<1>1. /\ Len(fn.blocks[b]) \in Nat /\ DOMAIN fn.blocks[b] = 1 .. Len(fn.blocks[b])
      /\ PhiSites(fn, b) \subseteq 1 .. Len(fn.blocks[b])
  BY FunctionShape DEF PhiSites
<1>2. S \in SUBSET Nat /\ S # {}
  BY <1>1
<1>3. IsFiniteSet(S)
  <2>1. 0 \in Int /\ Len(fn.blocks[b]) \in Int
    BY <1>1
  <2>2. IsFiniteSet(0 .. Len(fn.blocks[b]))
    BY <2>1, FS_Interval
  <2>3. S \in SUBSET (0 .. Len(fn.blocks[b]))
    BY <1>1
  <2>4. QED
    BY <2>2, <2>3, FS_Subset
<1>4. LastPhi(b) \in S /\ \A n \in S : n <= LastPhi(b)
  BY <1>2, <1>3, MaxOfSet DEF LastPhi
<1>5. LastPhi(b) \in Nat /\ LastPhi(b) <= Len(fn.blocks[b])
  BY <1>1, <1>4
<1>6. ASSUME NEW n \in DOMAIN fn.blocks[b], n <= LastPhi(b)
      PROVE  n \in PhiSites(fn, b) /\ fn.blocks[b][n].op = "phi"
  <2>1. LastPhi(b) \in PhiSites(fn, b)
    BY <1>1, <1>4, <1>6
  <2>2. n \in 1 .. LastPhi(b) /\ \A j \in 1 .. n : j \in 1 .. LastPhi(b)
    BY <1>1, <1>5, <1>6
  <2>3. QED
    BY <2>1, <2>2 DEF PhiSites
<1>7. ASSUME NEW n \in DOMAIN fn.blocks[b], fn.blocks[b][n].op = "phi"
      PROVE  n <= LastPhi(b)
  <2>1. <<b, n>> \in Sites(fn) /\ At(fn, <<b, n>>).op = "phi"
    BY <1>7, FunctionShape DEF At
  <2>2. n \in PhiSites(fn, b)
    BY <2>1, FunctionsWellFormed DEF Shaped
  <2>3. QED
    BY <1>4, <2>2
<1>8. PhiSites(fn, b) = {} => LastPhi(b) = 0
  BY <1>4
<1>9. QED
  BY <1>5, <1>6, <1>7, <1>8

\* Instruction n of block b.
LEMMA InstructionFacts ==
  ASSUME Compiled, NEW b \in Blocks(fn), NEW n \in DOMAIN fn.blocks[b]
  PROVE  /\ fn \in Functions /\ <<b, n>> \in Sites(fn) /\ At(fn, <<b, n>>) = fn.blocks[b][n]
         /\ n \in Nat /\ n >= 1 /\ n - 1 \in Nat /\ n <= Len(fn.blocks[b])
         /\ fn.blocks[b][n].op # "phi" => Behind(b, n) = n /\ Behind(b, n - 1) = n - 1
         /\ fn.blocks[b][n].op = "phi" => Behind(b, n) = Behind(b, n - 1)
         /\ fn.blocks[b][n].op \in {"br", "condbr", "ret"} => n = Len(fn.blocks[b])
         /\ fn.blocks[b][n].op \in {"set", "store", "br", "condbr", "ret"} =>
              fn.blocks[b][n].res = NoValue
<1>1. /\ fn \in Functions /\ <<b, n>> \in Sites(fn) /\ At(fn, <<b, n>>) = fn.blocks[b][n]
      /\ n \in Nat /\ n >= 1 /\ n - 1 \in Nat /\ n <= Len(fn.blocks[b])
  BY ValuesAndNames, FunctionShape DEF At
<1>2. LastPhi(b) \in Nat /\ (n <= LastPhi(b) <=> fn.blocks[b][n].op = "phi")
  BY <1>1, PhisFirst
<1>3. /\ fn.blocks[b][n].op # "phi" => Behind(b, n) = n /\ Behind(b, n - 1) = n - 1
      /\ fn.blocks[b][n].op = "phi" => Behind(b, n) = Behind(b, n - 1)
  BY <1>1, <1>2 DEF Behind
<1>4. /\ fn.blocks[b][n].op \in {"br", "condbr", "ret"} => n = Len(fn.blocks[b])
      /\ fn.blocks[b][n].op \in {"set", "store", "br", "condbr", "ret"} =>
              fn.blocks[b][n].res = NoValue
  BY <1>1, FunctionsWellFormed DEF Shaped
<1>5. QED
  BY <1>1, <1>3, <1>4

\* A comparison left to the branch is read by the branch at the end of its block.
LEMMA DeferredUse ==
  ASSUME Compiled, NEW t \in Sites(fn), LeftToBranch(t),
         NEW s \in Sites(fn), NEW i \in DOMAIN At(fn, s).args, At(fn, s).args[i] = At(fn, t).res
  PROVE  /\ At(fn, s).op = "condbr" /\ s[1] = t[1] /\ FusedCompare(s)
         /\ s[2] = Len(fn.blocks[t[1]]) /\ t[2] \in Nat /\ t[2] < s[2] /\ s[2] \in Nat
<1>1. fn \in Functions /\ At(fn, t).op = "icmp"
  BY ValuesAndNames DEF LeftToBranch
<1>2. <<s, i>> \in Uses(fn, At(fn, t).res)
  BY <1>1, ReadersAreUses
<1>3. At(fn, s).op = "condbr" /\ s[1] = t[1]
  BY <1>2 DEF LeftToBranch, DirectCondition
<1>4. At(fn, s).args[1] = At(fn, t).res
  <2>1. At(fn, s).args \in Seq(SsaValues(fn) \cup Literals) /\ Len(At(fn, s).args) = 1
    BY <1>1, <1>3, FunctionsWellFormed DEF Shaped
  <2>2. QED
    BY <2>1
<1>5. FusedCompare(s)
  BY <1>3, <1>4 DEF FusedCompare
<1>6. s[2] = Len(fn.blocks[t[1]])
  BY <1>1, <1>3, FunctionsWellFormed DEF Shaped
<1>7. /\ t[1] \in Blocks(fn) /\ t[2] \in DOMAIN fn.blocks[t[1]] /\ t[2] \in Nat /\ s[2] \in Nat
      /\ DOMAIN fn.blocks[t[1]] = 1 .. Len(fn.blocks[t[1]])
  BY <1>1, FunctionShape
<1>8. t[2] # s[2]
  BY <1>1, <1>3 DEF At
<1>9. QED
  BY <1>3, <1>5, <1>6, <1>7, <1>8

LEMMA OptimisedWhenAllocated ==
  ASSUME Compiled, NEW v \in SsaValues(fn) \cup Literals, Allocated(v)
  PROVE  fn.opt
BY DEF Compiled, NothingUnasked, Allocated

\* The operands of an instruction have to be in place before it.
LEMMA ReadsWanted ==
  ASSUME Compiled, NEW b \in Blocks(fn), NEW n \in DOMAIN fn.blocks[b], NEW v \in Reads(<<b, n>>)
  PROVE  v \in Wanted(b, n - 1) \cup Literals
<1> DEFINE s == <<b, n>>
<1>1. /\ fn \in Functions /\ s \in Sites(fn) /\ At(fn, s) = fn.blocks[b][n] /\ s[1] = b /\ s[2] = n
      /\ n \in Nat /\ n >= 1 /\ n - 1 \in Nat /\ n <= Len(fn.blocks[b])
      /\ fn.blocks[b][n].op # "phi" => Behind(b, n - 1) = n - 1
  BY InstructionFacts
<1> HIDE DEF s
<1>2. v \in Reads(s)
  BY DEF s
<1>3. PICK t \in Sites(fn), i \in Nat :
        /\ i \in DOMAIN At(fn, t).args /\ At(fn, t).args[i] = v
        /\ At(fn, t).op = "set" => i = 2
        /\ \/ t = s /\ ~FusedCompare(s)
           \/ FusedCompare(s) /\ LeftToBranch(t) /\ At(fn, t).res = At(fn, s).args[1]
  BY <1>1, <1>2, ReadsAreOperands
<1>4. SUFFICES ASSUME v \notin Literals PROVE v \in Wanted(b, n - 1)
  OBVIOUS
<1>5. v \in SsaValues(fn) /\ Uses(fn, v) # {}
  BY <1>1, <1>2, <1>3, <1>4, ReadsAreOperands, ReadersAreUses
<1>6. At(fn, s).op # "phi"
  <2>1. At(fn, s).op = "phi" => ~FusedCompare(s)
    BY DEF FusedCompare
  <2>2. QED
    BY <1>2, <2>1 DEF Reads
<1>7. v \notin Deferred
  <2>1. SUFFICES ASSUME NEW d \in Sites(fn), LeftToBranch(d), At(fn, d).res = v PROVE FALSE
    BY DEF Deferred
  <2>2. At(fn, t).op = "condbr" /\ FusedCompare(t)
    BY <1>3, <2>1, DeferredUse
  <2>3. QED
    BY <1>3, <2>2 DEF LeftToBranch
<1>8. /\ At(fn, t).op # "phi" /\ t[1] = b /\ t[2] \in Nat /\ t[2] <= n
      /\ t # s => t[2] <= n - 1 /\ LeftToBranch(t)
  <2>1. CASE t = s
    BY <1>1, <1>6, <2>1
  <2>2. CASE t # s
    <3>1. FusedCompare(s) /\ LeftToBranch(t) /\ At(fn, t).res = At(fn, s).args[1]
      BY <1>3, <2>2
    <3>2. 1 \in DOMAIN At(fn, s).args
      <4>1. At(fn, s).op = "condbr"
        BY <3>1 DEF FusedCompare
      <4>2. At(fn, s).args \in Seq(SsaValues(fn) \cup Literals) /\ Len(At(fn, s).args) = 1
        BY <1>1, <4>1, FunctionsWellFormed DEF Shaped
      <4>3. QED
        BY <4>2
    <3>3. s[1] = t[1] /\ t[2] \in Nat /\ t[2] < s[2]
      BY <1>1, <3>1, <3>2, DeferredUse
    <3>4. QED
      BY <1>1, <3>1, <3>3 DEF LeftToBranch
  <2>3. QED
    BY <2>1, <2>2
<1>9. Available(fn, v, b, n - 1)
  <2>1. Available(fn, v, b, t[2] - 1)
    <3>1. DefinedBeforeRead(fn)
      BY <1>1, FunctionsWellFormed
    <3>2. ~(At(fn, t).op = "set" /\ i = 1) /\ At(fn, t).op # "phi" /\ t[1] = b
      BY <1>3, <1>8
    <3>3. Available(fn, At(fn, t).args[i], t[1], t[2] - 1)
      BY <1>3, <3>1, <3>2 DEF DefinedBeforeRead
    <3>4. QED
      BY <1>3, <3>2, <3>3
  <2>2. \A j \in 1 .. t[2] - 1 : j \in 1 .. n - 1
    <3>1. \A m \in Nat : m <= n => \A j \in 1 .. m - 1 : j \in 1 .. n - 1
      BY <1>1
    <3>2. QED
      BY <1>8, <3>1
  <2>3. QED
    BY <2>1, <2>2 DEF Available
<1>10. ASSUME Allocated(v) PROVE v \in LiveAfter(b, n - 1) \cup Held(b, n - 1)
  <2>1. CASE t = s
    <3>1. v \in Candidates(fn)
      BY <1>5, <1>10, ValuesAndNames
    <3>2. v \in ToSet(fn.blocks[b][n].args) /\ fn.blocks[b][n].op # "phi"
      BY <1>1, <1>3, <1>6, <2>1 DEF ToSet
    <3>3. n \in n - 1 + 1 .. Len(fn.blocks[b])
      BY <1>1
    <3>4. \A j \in n - 1 + 1 .. n - 1 : FALSE
      BY <1>1
    <3>5. v \in LiveAfter(b, n - 1)
      BY <3>1, <3>2, <3>3, <3>4 DEF LiveAfter
    <3>6. QED
      BY <3>5
  <2>2. CASE t # s
    <3>1. t[1] = b /\ t[2] <= n - 1 /\ LeftToBranch(t)
      BY <1>8, <2>2
    <3>2. v \in ToSet(At(fn, t).args)
      BY <1>3 DEF ToSet
    <3>3. QED
      BY <3>1, <3>2 DEF Held
  <2>3. QED
    BY <2>1, <2>2
<1>11. Behind(b, n - 1) = n - 1
  BY <1>1, <1>6
<1>12. QED
  BY <1>5, <1>7, <1>9, <1>10, <1>11 DEF Wanted

\* A value an instruction other than a comparison left to its branch reads.
LEMMA OperandNotDeferred ==
  ASSUME Compiled, NEW s \in Sites(fn), At(fn, s).op # "condbr", NEW v \in ToSet(At(fn, s).args)
  PROVE  v \notin Deferred /\ Uses(fn, v) # {} /\ v \in SsaValues(fn) \cup Literals
<1>1. fn \in Functions
  BY ValuesAndNames
<1>2. PICK i \in DOMAIN At(fn, s).args : At(fn, s).args[i] = v
  BY DEF ToSet
<1>3. v \notin Deferred
  BY <1>2, DeferredUse DEF Deferred
<1>4. QED
  BY <1>1, <1>2, <1>3, ReadersAreUses, OperandsAreNames

\* The instruction at the end of a block that goes on to another one.
LEMMA BranchFacts ==
  ASSUME Compiled, NEW b \in Blocks(fn), NEW c \in Succs(fn, b)
  PROVE  LET n == Len(fn.blocks[b])
         IN  /\ fn \in Functions /\ c \in Blocks(fn) /\ n \in DOMAIN fn.blocks[b]
             /\ fn.blocks[b][n].op \in {"br", "condbr"} /\ fn.blocks[b][n].res = NoValue
             /\ <<b, n>> \in Sites(fn) /\ At(fn, <<b, n>>) = fn.blocks[b][n]
             /\ n \in Nat /\ n >= 1 /\ n - 1 \in Nat /\ Behind(b, n - 1) = n - 1
<1> DEFINE n == Len(fn.blocks[b])
<1>1. fn \in Functions /\ c \in Blocks(fn)
  BY ValuesAndNames, TargetsAreBlocks
<1>2. Terminated(fn, b) /\ Last(fn.blocks[b]).op # "ret"
  BY DEF Succs
<1>3. fn.blocks[b] # << >> /\ fn.blocks[b][n].op \in {"br", "condbr"}
  BY <1>2 DEF Terminated, Last
<1>4. n \in DOMAIN fn.blocks[b]
  <2>1. n \in Nat /\ DOMAIN fn.blocks[b] = 1 .. n
    BY <1>1, FunctionShape
  <2>2. n # 0
    BY <1>3, <2>1
  <2>3. QED
    BY <2>1, <2>2
<1> HIDE DEF n
<1>5. QED
  BY <1>1, <1>3, <1>4, InstructionFacts DEF n

\* So have the values the phis take when control goes on.
LEMMA EdgeReadsWanted ==
  ASSUME Compiled, LivenessCovers, stage \in Running, NEW b \in Blocks(fn), NEW v \in EdgeReads(b)
  PROVE  v \in Wanted(b, Len(fn.blocks[b]) - 1) \cup Literals
<1> DEFINE n == Len(fn.blocks[b])
<1>1. PICK c \in Succs(fn, b) : \E phi \in Phis(fn, c) : HasIncoming(phi, b) /\ v = Incoming(phi, b)
  BY DEF EdgeReads
<1>2. PICK k \in PhiSites(fn, c) :
        HasIncoming(fn.blocks[c][k], b) /\ v = Incoming(fn.blocks[c][k], b)
  BY <1>1 DEF Phis
<1> DEFINE phi == fn.blocks[c][k]
<1>3. /\ fn \in Functions /\ c \in Blocks(fn) /\ n \in DOMAIN fn.blocks[b]
      /\ fn.blocks[b][n].op \in {"br", "condbr"} /\ fn.blocks[b][n].res = NoValue
      /\ <<b, n>> \in Sites(fn) /\ At(fn, <<b, n>>) = fn.blocks[b][n]
      /\ n \in Nat /\ n >= 1 /\ n - 1 \in Nat /\ Behind(b, n - 1) = n - 1
  BY BranchFacts
<1>4. /\ <<c, k>> \in Sites(fn) /\ At(fn, <<c, k>>) = phi /\ phi.op = "phi" /\ phi \in Phis(fn, c)
  BY <1>3, PhiFacts
<1> HIDE DEF n
<1>5. v \in ToSet(At(fn, <<c, k>>).args) /\ At(fn, <<c, k>>).op # "condbr"
  <2>1. PICK i \in DOMAIN phi.args : phi.args[i] = v
    BY <1>2, <1>3, IncomingIsOperand
  <2>2. QED
    BY <1>4, <2>1 DEF ToSet
<1>6. SUFFICES ASSUME v \notin Literals PROVE v \in Wanted(b, n - 1)
  BY DEF n
<1>7. v \in SsaValues(fn) /\ v # NoValue /\ v \notin Deferred /\ Uses(fn, v) # {}
  BY <1>4, <1>5, <1>6, OperandNotDeferred, ValuesAndNames
<1>8. Available(fn, v, b, n - 1)
  <2>1. Available(fn, v, b, n)
    BY <1>1, <1>2, <1>3, <1>4, FunctionsWellFormed DEF DefinedBeforeRead, n
  <2>2. ~Defines(fn, <<b, n>>, v)
    BY <1>3, <1>7 DEF Defines
  <2>3. \A j \in 1 .. n : Defines(fn, <<b, j>>, v) => j \in 1 .. n - 1
    BY <1>3, <2>2
  <2>4. QED
    BY <2>1, <2>3 DEF Available
<1>9. ASSUME Allocated(v) PROVE v \in LiveAfter(b, n - 1)
  <2>1. v \in Candidates(fn) /\ Analysed
    BY <1>7, <1>9, ValuesAndNames, OptimisedWhenAllocated DEF Analysed, Running, InBody
  <2>2. v \in NeededOnEdge(fn, b, c, liveIn[c])
    BY <1>2, <1>4, <2>1 DEF NeededOnEdge
  <2>3. v \in liveOut[b]
    BY <1>1, <2>1, <2>2 DEF LivenessCovers
  <2>4. \A j \in n - 1 + 1 .. n : fn.blocks[b][j].res # v
    BY <1>3, <1>7
  <2>5. QED
    BY <2>1, <2>3, <2>4 DEF LiveAfter, n
<1>10. QED
  BY <1>3, <1>7, <1>8, <1>9 DEF Wanted

\* What is wanted behind an instruction that does not define it is wanted before.
LEMMA WantedBefore ==
  ASSUME Compiled, NEW b \in Blocks(fn), NEW n \in DOMAIN fn.blocks[b], NEW v \in Wanted(b, n),
         fn.blocks[b][n].op # "phi" => ~Defines(fn, <<b, n>>, v)
  PROVE  v \in Wanted(b, n - 1)
<1>1. /\ fn \in Functions /\ <<b, n>> \in Sites(fn) /\ At(fn, <<b, n>>) = fn.blocks[b][n]
      /\ n \in Nat /\ n >= 1 /\ n - 1 \in Nat /\ n <= Len(fn.blocks[b])
      /\ fn.blocks[b][n].op # "phi" => Behind(b, n) = n /\ Behind(b, n - 1) = n - 1
      /\ fn.blocks[b][n].op = "phi" => Behind(b, n) = Behind(b, n - 1)
  BY InstructionFacts
<1>2. /\ v \in SsaValues(fn) /\ v \notin Deferred /\ Uses(fn, v) # {} /\ v # NoValue
      /\ Available(fn, v, b, Behind(b, n))
      /\ Allocated(v) => v \in LiveAfter(b, Behind(b, n)) \cup Held(b, n)
  BY ValuesAndNames DEF Wanted
<1>3. \* a comparison left to the branch holds its operands from here on
      v \in Held(b, n) => \/ v \in Held(b, n - 1)
                          \/ fn.blocks[b][n].op = "icmp" /\ v \in ToSet(fn.blocks[b][n].args)
  <2>1. SUFFICES ASSUME NEW t \in Sites(fn), t[1] = b, t[2] <= n, LeftToBranch(t),
                        v \in ToSet(At(fn, t).args)
                 PROVE  \/ v \in Held(b, n - 1)
                        \/ fn.blocks[b][n].op = "icmp" /\ v \in ToSet(fn.blocks[b][n].args)
    BY DEF Held
  <2>2. t[2] \in Nat
    BY <1>1, FunctionShape
  <2>3. CASE t[2] = n
    BY <2>1, <2>3 DEF LeftToBranch, At
  <2>4. CASE t[2] # n
    <3>1. t[2] <= n - 1
      BY <1>1, <2>1, <2>2, <2>4
    <3>2. QED
      BY <2>1, <3>1 DEF Held
  <2>5. QED
    BY <2>3, <2>4
<1>4. CASE fn.blocks[b][n].op = "phi"
  BY <1>1, <1>2, <1>3, <1>4 DEF Wanted
<1>5. CASE fn.blocks[b][n].op # "phi"
  <2>1. Available(fn, v, b, n - 1)
    <3>1. \A j \in 1 .. n : Defines(fn, <<b, j>>, v) => j \in 1 .. n - 1
      BY <1>1, <1>5
    <3>2. QED
      BY <1>1, <1>2, <1>5, <3>1 DEF Available
  <2>2. ASSUME Allocated(v), v \in LiveAfter(b, n)
        PROVE  v \in LiveAfter(b, n - 1)
    <3>1. v \in Candidates(fn)
      BY <2>2 DEF LiveAfter
    <3>2. fn.blocks[b][n].res # v
      <4>1. SUFFICES ASSUME fn.blocks[b][n].res = v PROVE FALSE
        OBVIOUS
      <4>2. fn.blocks[b][n].op \in {"set", "alloca"}
        BY <1>1, <1>5, <4>1 DEF Defines
      <4>3. fn.blocks[b][n].op = "alloca"
        BY <1>2, <4>1, <4>2, InstructionFacts
      <4>4. DefSite(fn, v) = <<b, n>> /\ v \notin Params(fn)
        BY <1>1, <1>2, <4>1, OneDefinition
      <4>5. QED
        BY <1>1, <3>1, <4>3, <4>4 DEF Candidates
    <3>3. ASSUME NEW k \in Nat, \A j \in n + 1 .. k : fn.blocks[b][j].res # v
          PROVE  \A j \in n - 1 + 1 .. k : fn.blocks[b][j].res # v
      <4>1. \A j \in n - 1 + 1 .. k : j = n \/ j \in n + 1 .. k
        BY <1>1
      <4>2. QED
        BY <3>2, <3>3, <4>1
    <3>4. CASE v \in liveOut[b] /\ \A j \in n + 1 .. Len(fn.blocks[b]) : fn.blocks[b][j].res # v
      <4>1. Len(fn.blocks[b]) \in Nat
        BY <1>1, FunctionShape
      <4>2. QED
        BY <3>1, <3>3, <3>4, <4>1 DEF LiveAfter
    <3>5. ASSUME NEW k \in n + 1 .. Len(fn.blocks[b]),
                 fn.blocks[b][k].op # "phi", v \in ToSet(fn.blocks[b][k].args),
                 \A j \in n + 1 .. k - 1 : fn.blocks[b][j].res # v
          PROVE  v \in LiveAfter(b, n - 1)
      <4>1. k \in n - 1 + 1 .. Len(fn.blocks[b]) /\ k - 1 \in Nat
        BY <1>1
      <4>2. \A j \in n - 1 + 1 .. k - 1 : fn.blocks[b][j].res # v
        BY <3>3, <3>5, <4>1
      <4>3. QED
        BY <3>1, <3>5, <4>1, <4>2 DEF LiveAfter
    <3>6. QED
      BY <2>2, <3>4, <3>5 DEF LiveAfter
  <2>3. ASSUME Allocated(v), v \in ToSet(fn.blocks[b][n].args)
        PROVE  v \in LiveAfter(b, n - 1)
    <3>1. v \in Candidates(fn)
      BY <1>2, <2>3, ValuesAndNames
    <3>2. n \in n - 1 + 1 .. Len(fn.blocks[b]) /\ \A j \in n - 1 + 1 .. n - 1 : FALSE
      BY <1>1
    <3>3. QED
      BY <1>5, <2>3, <3>1, <3>2 DEF LiveAfter
  <2>4. Behind(b, n) = n /\ Behind(b, n - 1) = n - 1
    BY <1>1, <1>5
  <2>5. Allocated(v) => v \in LiveAfter(b, n - 1) \cup Held(b, n - 1)
    BY <1>2, <1>3, <2>2, <2>3, <2>4
  <2>6. QED
    BY <1>2, <2>1, <2>4, <2>5 DEF Wanted
<1>6. QED
  BY <1>4, <1>5

\* What is wanted at the start of a block is wanted at the end of a block before
\* it, or a phi of the edge brings it.
LEMMA WantedAcrossEdge ==
  ASSUME Compiled, LivenessCovers, stage \in Running, NEW b \in Blocks(fn), NEW c \in Succs(fn, b),
         NEW v \in Wanted(c, 0), v \notin PhiResults(c)
  PROVE  v \in Wanted(b, Len(fn.blocks[b]) - 1)
<1> DEFINE n == Len(fn.blocks[b])
           m == Len(fn.blocks[c])
<1>1. /\ fn \in Functions /\ c \in Blocks(fn) /\ n \in DOMAIN fn.blocks[b]
      /\ fn.blocks[b][n].op \in {"br", "condbr"} /\ fn.blocks[b][n].res = NoValue
      /\ <<b, n>> \in Sites(fn) /\ At(fn, <<b, n>>) = fn.blocks[b][n]
      /\ n \in Nat /\ n >= 1 /\ n - 1 \in Nat /\ Behind(b, n - 1) = n - 1
  BY BranchFacts
<1>2. /\ LastPhi(c) \in Nat /\ m \in Nat /\ LastPhi(c) <= m /\ DOMAIN fn.blocks[c] = 1 .. m
      /\ \A j \in DOMAIN fn.blocks[c] :
           /\ j <= LastPhi(c) => j \in PhiSites(fn, c) /\ fn.blocks[c][j].op = "phi"
           /\ fn.blocks[c][j].op = "phi" => j <= LastPhi(c)
  BY <1>1, PhisFirst, FunctionShape
<1>3. DOMAIN fn.blocks[b] = 1 .. n
  BY <1>1, FunctionShape
<1>4. Behind(c, 0) = LastPhi(c)
  BY <1>2 DEF Behind
<1>5. /\ v \in SsaValues(fn) /\ v \notin Deferred /\ Uses(fn, v) # {} /\ v # NoValue
      /\ v \notin Literals
      /\ Available(fn, v, c, LastPhi(c))
      /\ Allocated(v) => v \in LiveAfter(c, LastPhi(c)) \cup Held(c, 0)
  BY <1>4, ValuesAndNames DEF Wanted
<1>6. ASSUME NEW j \in 1 .. LastPhi(c)
      PROVE  /\ j \in DOMAIN fn.blocks[c] /\ fn.blocks[c][j].res # v
             /\ fn.blocks[c][j].op = "phi" /\ ~Defines(fn, <<c, j>>, v)
  <2>1. j \in DOMAIN fn.blocks[c] /\ j <= LastPhi(c)
    BY <1>2
  <2>2. j \in PhiSites(fn, c) /\ fn.blocks[c][j].op = "phi"
    BY <1>2, <2>1
  <2>3. fn.blocks[c][j] \in Phis(fn, c) /\ At(fn, <<c, j>>) = fn.blocks[c][j]
    BY <1>1, <2>2, PhiFacts
  <2>4. fn.blocks[c][j].res # v
    BY <2>3 DEF PhiResults
  <2>5. QED
    BY <2>1, <2>2, <2>3, <2>4 DEF Defines
<1>7. Held(c, 0) = {}
  <2>1. \A t \in Sites(fn) : ~(t[2] <= 0)
    BY <1>1, FunctionShape
  <2>2. QED
    BY <2>1 DEF Held
<1> HIDE DEF n, m
<1>8. Available(fn, v, b, n - 1)
  <2>1. v \in Params(fn) \/ c \notin EnteredWithout(fn, v)
    BY <1>5, <1>6 DEF Available
  <2>2. SUFFICES ASSUME c \notin EnteredWithout(fn, v), b \in EnteredWithout(fn, v)
                 PROVE  \E j \in 1 .. n - 1 : Defines(fn, <<b, j>>, v)
    BY <2>1 DEF Available
  <2>3. \E j \in DOMAIN fn.blocks[b] : Defines(fn, <<b, j>>, v)
    BY <1>1, <2>2 DEF EnteredWithout
  <2>4. ~Defines(fn, <<b, n>>, v)
    BY <1>1, <1>5 DEF Defines
  <2>5. QED
    BY <1>1, <1>3, <2>3, <2>4
<1>9. ASSUME Allocated(v) PROVE v \in LiveAfter(b, n - 1)
  <2>1. v \in Candidates(fn) /\ Analysed /\ v \in LiveAfter(c, LastPhi(c))
    BY <1>5, <1>7, <1>9, ValuesAndNames, OptimisedWhenAllocated DEF Analysed, Running, InBody
  <2>2. ASSUME NEW k \in Nat, k <= m, \A j \in LastPhi(c) + 1 .. k : fn.blocks[c][j].res # v
        PROVE  \A j \in 1 .. k : fn.blocks[c][j].res # v
    <3>1. \A j \in 1 .. k : j \in 1 .. LastPhi(c) \/ j \in LastPhi(c) + 1 .. k
      BY <1>2
    <3>2. QED
      BY <1>6, <2>2, <3>1
  <2>3. v \in liveIn[c]
    <3>1. CASE v \in liveOut[c] /\ \A j \in LastPhi(c) + 1 .. m : fn.blocks[c][j].res # v
      <4>1. v \notin BlockDef(fn, c)
        BY <1>2, <2>2, <3>1 DEF BlockDef
      <4>2. QED
        BY <1>1, <2>1, <3>1, <4>1 DEF LivenessCovers
    <3>2. ASSUME NEW k \in LastPhi(c) + 1 .. m, fn.blocks[c][k].op # "phi",
                 v \in ToSet(fn.blocks[c][k].args),
                 \A j \in LastPhi(c) + 1 .. k - 1 : fn.blocks[c][j].res # v
          PROVE  v \in liveIn[c]
      <4>1. k \in DOMAIN fn.blocks[c] /\ k - 1 \in Nat /\ k - 1 <= m
        BY <1>2
      <4>2. \A j \in 1 .. k - 1 : fn.blocks[c][j].res # v
        BY <2>2, <3>2, <4>1
      <4>3. v \in BlockUse(fn, c)
        BY <2>1, <3>2, <4>1, <4>2 DEF BlockUse
      <4>4. QED
        BY <1>1, <2>1, <4>3 DEF LivenessCovers
    <3>3. QED
      BY <2>1, <3>1, <3>2 DEF LiveAfter, m
  <2>4. v \in liveOut[b]
    BY <2>1, <2>3 DEF LivenessCovers, NeededOnEdge, PhiResults
  <2>5. \A j \in n - 1 + 1 .. n : fn.blocks[b][j].res # v
    BY <1>1, <1>5
  <2>6. QED
    BY <2>1, <2>4, <2>5 DEF LiveAfter, n
<1>10. v \in Wanted(b, n - 1)
  BY <1>1, <1>5, <1>8, <1>9 DEF Wanted
<1>11. QED
  BY <1>10 DEF n

\* Where an instruction defines a value, the values live behind it have other
\* registers.
LEMMA DefinitionApart ==
  ASSUME Compiled, NeighboursApart, stage \in Running,
         NEW b \in Blocks(fn), NEW n \in DOMAIN fn.blocks[b],
         NEW v \in LiveAfter(b, n), Allocated(v),
         fn.blocks[b][n].res # NoValue, fn.blocks[b][n].res # v, Allocated(fn.blocks[b][n].res)
  PROVE  regOf[fn.blocks[b][n].res] # regOf[v]
<1> DEFINE w == fn.blocks[b][n].res
           clique == LiveAfter(b, n) \cup ({w} \cap Candidates(fn))
<1>1. fn \in Functions /\ <<b, n>> \in Sites(fn) /\ At(fn, <<b, n>>) = fn.blocks[b][n]
  BY InstructionFacts
<1>2. w \in SsaValues(fn) /\ v \in Candidates(fn)
  BY <1>1, ResultsAreNames DEF LiveAfter
<1>3. w \in Candidates(fn) /\ fn.opt
  BY <1>2, ValuesAndNames, OptimisedWhenAllocated
<1>4. clique \in Cliques
  BY <1>1 DEF Cliques
<1>5. graph[v] = (UNION {c \in Cliques : v \in c}) \ {v}
  BY <1>2, <1>3 DEF Compiled, GraphBuilt, AfterBuild, Running, InBody
<1>6. w \in graph[v]
  BY <1>3, <1>4, <1>5
<1>7. QED
  BY <1>2, <1>6 DEF NeighboursApart, Allocated

\* The same for a value the branch is still going to compare.
LEMMA WantedApart ==
  ASSUME Compiled, NeighboursApart, ComparisonsKept, stage \in Running,
         NEW b \in Blocks(fn), NEW n \in DOMAIN fn.blocks[b], fn.blocks[b][n].op # "phi",
         NEW v \in Wanted(b, n), Allocated(v),
         ~LeftToBranch(<<b, n>>)
  PROVE  /\ fn.blocks[b][n].res # NoValue /\ fn.blocks[b][n].res # v
              /\ Allocated(fn.blocks[b][n].res) => regOf[fn.blocks[b][n].res] # regOf[v]
         /\ fn.blocks[b][n].op = "call" /\ fn.blocks[b][n].res # v => regOf[v] \in ToSet(SRegs)
<1>1. /\ fn \in Functions /\ <<b, n>> \in Sites(fn) /\ At(fn, <<b, n>>) = fn.blocks[b][n]
      /\ n \in Nat /\ n <= Len(fn.blocks[b]) /\ Behind(b, n) = n
  BY InstructionFacts
<1>2. v \in SsaValues(fn) /\ v \in LiveAfter(b, n) \cup Held(b, n)
  BY <1>1 DEF Wanted
<1>3. CASE v \in LiveAfter(b, n)
  <2>1. fn.blocks[b][n].op = "call" /\ fn.blocks[b][n].res # v => v \in crossing
    <3>1. fn.opt
      BY <1>2, OptimisedWhenAllocated
    <3>2. crossing = LiveAcrossCalls
      BY <3>1 DEF Compiled, GraphBuilt, AfterBuild, Running, InBody
    <3>3. fn.blocks[b][n].op = "call" /\ fn.blocks[b][n].res # v =>
            v \in LiveAfter(b, n) \ {At(fn, <<b, n>>).res}
      BY <1>1, <1>3
    <3>4. QED
      BY <1>1, <3>2, <3>3 DEF LiveAcrossCalls
  <2>2. v \in crossing => regOf[v] \in ToSet(SRegs)
    BY DEF Compiled, CrossingSaved, Allocated
  <2>3. QED
    BY <1>3, <2>1, <2>2, DefinitionApart
<1>4. CASE v \in Held(b, n)
  <2>1. PICK t \in Sites(fn) : t[1] = b /\ t[2] <= n /\ LeftToBranch(t) /\ v \in ToSet(At(fn, t).args)
    BY <1>4 DEF Held
  <2>2. t = <<t[1], t[2]>> /\ t[2] \in Nat
    BY <1>1, FunctionShape
  <2>3. t[2] # n
    BY <2>1, <2>2
  <2>4. n \in t[2] + 1 .. Len(fn.blocks[t[1]])
    BY <1>1, <2>1, <2>2, <2>3, FunctionShape
  <2>5. QED
    BY <1>1, <2>1, <2>4 DEF ComparisonsKept
<1>5. QED
  BY <1>2, <1>3, <1>4

-----------------------------------------------------------------------------
(* What has to be in place, from the entry of the function to its return. *)

InPlace(values) == \A v \in values : v \in Contents(v)

\* Parameter i, before and after the prologue has moved it.
Delivered(i) ==
  LET v == fn.params[i]
  IN  IF i <= moved THEN v \in Contents(v)
      ELSE IF OnStack(i) THEN v \in mem[StackParamOffset(i)]
      ELSE v \in reg[ARegs[i]]

StackArgumentsPlaced ==
  \A i \in DOMAIN At(fn, pc).args : OnStack(i) => At(fn, pc).args[i] \in mem[i - Len(ARegs) - 1]

\* Before the next instruction: the values some instruction still reads.
Ready ==
  \A b \in Blocks(fn) : \A n \in 0 .. Len(fn.blocks[b]) :
    pc = <<b, n + 1>> => InPlace(Wanted(b, n) \cup Literals)

\* During a call: those some instruction behind it still reads.
ReadyBehind ==
  \A b \in Blocks(fn) : \A n \in DOMAIN fn.blocks[b] :
    pc = <<b, n>> => InPlace((Wanted(b, n) \ {At(fn, pc).res}) \cup Literals)

ParamsOnTheWay ==
  stage = "prologue" => \A i \in DOMAIN fn.params : Uses(fn, fn.params[i]) # {} => Delivered(i)

Placement ==
  /\ ParamsOnTheWay
  /\ stage \in {"running", "stacked"} => Ready
  /\ stage = "stacked" => StackArgumentsPlaced
  /\ stage = "called" => ReadyBehind /\ CalleeSeesArguments
  /\ stage = "returned" /\ pc[2] \in DOMAIN fn.blocks[pc[1]] =>
       \A v \in ToSet(At(fn, pc).args) : v \in reg[ARegs[1]]

LEMMA PlacesStay ==
  ASSUME MachineNext \/ UNCHANGED vars
  PROVE  /\ \A b, i : Wanted(b, i)' = Wanted(b, i)
         /\ Unaffected' = Unaffected /\ ParamsMoveApart' = ParamsMoveApart
<1>1. /\ fn' = fn /\ regOf' = regOf /\ liveOut' = liveOut /\ liveIn' = liveIn /\ graph' = graph
      /\ stage = "liveness" <=> stage' = "liveness"
  <2>1. CASE MachineNext
    BY <2>1, MachineMovesOn DEF allocVars, Emitted
  <2>2. CASE UNCHANGED vars
    BY <2>2 DEF vars, compiler, livenessVars, allocVars
  <2>3. QED
    BY <2>1, <2>2
<1>2. \A s : LeftToBranch(s)' = LeftToBranch(s)
  BY <1>1, CodeStays
<1>3. \A v : Allocated(v)' = Allocated(v)
  BY <1>1, FrameStays
<1>4. Deferred' = Deferred
  BY <1>1, <1>2 DEF Deferred
<1>5. ASSUME NEW b, NEW i PROVE Wanted(b, i)' = Wanted(b, i)
  <2>1. Behind(b, i)' = Behind(b, i)
    BY <1>1 DEF Behind, LastPhi
  <2>2. Held(b, i)' = Held(b, i)
    BY <1>1, <1>2 DEF Held
  <2>3. LiveAfter(b, Behind(b, i))' = LiveAfter(b, Behind(b, i))
    BY <1>1, <2>1 DEF LiveAfter
  <2>4. QED
    BY <1>1, <1>3, <1>4, <2>1, <2>2, <2>3 DEF Wanted
<1>6. LivenessCovers' = LivenessCovers
  BY <1>1 DEF LivenessCovers, Analysed
<1>7. NeighboursApart' = NeighboursApart
  BY <1>1 DEF NeighboursApart
<1>8. ComparisonsKept' = ComparisonsKept
  BY <1>1, <1>2, <1>3 DEF ComparisonsKept
<1>9. ParamsMoveApart' = ParamsMoveApart
  BY <1>1, <1>3 DEF ParamsMoveApart
<1>10. OpenBlocksEnd' = OpenBlocksEnd
  BY <1>1 DEF OpenBlocksEnd, Following
<1>11. QED
  BY <1>5, <1>6, <1>7, <1>8, <1>9, <1>10 DEF Unaffected

\* Contents depend on the function, the allocation and the machine only.
LEMMA ContentsNext ==
  ASSUME fn' = fn, regOf' = regOf, NEW v
  PROVE  Contents(v)' = IF Allocated(v) THEN reg'[regOf[v]]
                        ELSE IF v \in Literals THEN {v} ELSE mem'[Word(v)]
<1>1. /\ Allocated(v)' = Allocated(v) /\ ParamIndex(v)' = ParamIndex(v)
      /\ ParamOffset(v)' = ParamOffset(v) /\ SlotOffset(v)' = SlotOffset(v)
      /\ FrameSize' = FrameSize
  BY FrameStays
<1>2. QED
  BY <1>1 DEF Contents, Word, StackParamOffset, OnStack

\* A value survives a step that leaves its name and its place alone.
LEMMA Survives ==
  ASSUME Compiled, Course, Stored, stage \in Running, fn' = fn, regOf' = regOf,
         NEW v \in SsaValues(fn) \cup Literals, v \in Contents(v),
         Allocated(v) \/ v \in Literals \/ InFrame(v),
         NEW rs, NEW ws, NEW ns, Writes(rs, ws, ns), v \notin ns,
         Allocated(v) => regOf[v] \notin rs,
         InFrame(v) => Word(v) \notin ws
  PROVE  v \in Contents(v)'
<1>1. CASE Allocated(v)
  <2>1. regOf[v] \in DOMAIN reg
    BY <1>1, ValuesAndNames DEF Stored
  <2>2. v \in reg[regOf[v]]
    BY <1>1, ContentsWhere
  <2>3. QED
    BY <1>1, <2>1, <2>2, ContentsNext DEF Writes
<1>2. CASE ~Allocated(v) /\ v \in Literals
  BY <1>2, ContentsNext
<1>3. CASE ~Allocated(v) /\ v \notin Literals
  <2>1. InFrame(v)
    BY <1>3
  <2>2. Word(v) \in DOMAIN mem
    BY <2>1, WordsApart, ValuesAndNames DEF Course
  <2>3. v \in mem[Word(v)]
    BY <1>3, ContentsWhere
  <2>4. QED
    BY <1>3, <2>1, <2>2, <2>3, ContentsNext DEF Writes
<1>4. QED
  BY <1>1, <1>2, <1>3

\* A cached constant is where no value is.
LEMMA LiteralApart ==
  ASSUME Compiled, NEW c \in Literals
  PROVE  /\ Allocated(c) => \A v \in SsaValues(fn) \cup Literals : v # c => regOf[v] # regOf[c]
         /\ Allocated(c) => ~HasCall
         /\ c \notin SsaValues(fn) /\ ~InFrame(c)
<1>1. regOf \in [SsaValues(fn) \cup Literals -> Registers \cup {NoReg}]
  BY DEF Compiled, Inv, Typed
<1>2. Allocated(c) => \A v \in SsaValues(fn) \cup Literals : v # c => regOf[v] # regOf[c]
  BY <1>1 DEF Compiled, Inv, CachedLiteralsAlone, Allocated
<1>3. Allocated(c) => ~HasCall
  BY DEF Compiled, CachedInLeaves, Allocated, HasCall
<1>4. QED
  BY <1>2, <1>3, ValuesAndNames DEF InFrame

\* A cached constant survives in the body, whatever is computed there.
LEMMA LiteralsSurvive ==
  ASSUME Compiled, Course, Stored, stage \in Running, fn' = fn, regOf' = regOf,
         InPlace(Literals), NEW rs, NEW ws, NEW ns, Writes(rs, ws, ns), ns \subseteq SsaValues(fn),
         \A r \in rs : HasCall \/ \E v \in SsaValues(fn) : r = regOf[v]
  PROVE  \A c \in Literals : c \in Contents(c)'
<1> SUFFICES ASSUME NEW c \in Literals PROVE c \in Contents(c)'
  OBVIOUS
<1>1. c \in Contents(c) /\ c \notin ns /\ ~InFrame(c)
  BY LiteralApart DEF InPlace
<1>2. Allocated(c) => regOf[c] \notin rs
  BY LiteralApart
<1>3. QED
  BY <1>1, <1>2, Survives

LEMMA RunningPlaced ==
  ASSUME MachineNext, stage' = "running", NEW b, NEW n, pc' = <<b, n + 1>>, n \in Nat,
         \A v \in Wanted(b, n) \cup Literals : v \in Contents(v)'
  PROVE  Placement'
<1>1. Ready'
  <2>1. SUFFICES ASSUME NEW c \in Blocks(fn)', NEW m \in (0 .. Len(fn.blocks[c]))', pc' = <<c, m + 1>>
                 PROVE  InPlace(Wanted(c, m) \cup Literals)'
    BY DEF Ready
  <2>2. c = b /\ m = n
    <3>1. m \in Int
      OBVIOUS
    <3>2. QED
      BY <2>1, <3>1
  <2>3. Wanted(c, m)' = Wanted(b, n)
    BY <2>2, PlacesStay
  <2>4. QED
    BY <2>3 DEF InPlace
<1>2. QED
  BY <1>1 DEF Placement, ParamsOnTheWay

LEMMA ReadyHere ==
  ASSUME Compiled, Course, Ready
  PROVE  InPlace(Wanted(pc[1], pc[2] - 1) \cup Literals)
<1>1. pc[1] \in Blocks(fn) /\ pc[2] \in 1 .. Len(fn.blocks[pc[1]]) + 1 /\ pc = <<pc[1], pc[2]>>
  BY DEF Course
<1>2. Len(fn.blocks[pc[1]]) \in Nat
  BY <1>1, FunctionShape, ValuesAndNames
<1>3. pc[2] - 1 \in 0 .. Len(fn.blocks[pc[1]]) /\ pc = <<pc[1], pc[2] - 1 + 1>>
  BY <1>1, <1>2
<1>4. QED
  BY <1>1, <1>3 DEF Ready

\* In place, or no value of the function at all.
LEMMA WantedPlace ==
  ASSUME Compiled, Course, stage \in Running, NEW b, NEW i, NEW v \in Wanted(b, i)
  PROVE  v \in SsaValues(fn) /\ v # NoValue /\ (Allocated(v) \/ InFrame(v))
BY ValuesPlaced, ValuesAndNames DEF Wanted, Course

\* Where the caller has put a parameter.
LEMMA StackParamWord ==
  ASSUME fn \in Functions, NEW i \in DOMAIN fn.params, OnStack(i)
  PROVE  StackParamOffset(i) \in Words /\ FrameSize <= StackParamOffset(i)
<1>1. i \in 1 .. Len(fn.params) /\ Len(fn.params) \in Nat /\ Len(ARegs) \in Nat /\ FrameSize \in Nat
  BY ParamsNumbered, RegisterFacts, BasesInOrder
<1>2. i > Len(ARegs) /\ WordsOnStack(Len(fn.params)) = Len(fn.params) - Len(ARegs)
  BY <1>1 DEF OnStack, WordsOnStack
<1>3. StackParamOffset(i) = FrameSize + (i - Len(ARegs) - 1)
  BY DEF StackParamOffset
<1> DEFINE n == Len(ARegs)
           k == StackParamOffset(i)
           size == FrameSize
<1>4. /\ i \in Nat /\ n \in Nat /\ size \in Nat /\ i > n /\ i <= Len(fn.params)
      /\ k = size + (i - n - 1) /\ Len(fn.params) \in Nat
  BY <1>1, <1>2, <1>3
<1> HIDE DEF n, k, size
<1>5. k \in 0 .. size + (Len(fn.params) - n) - 1 /\ size <= k
  BY <1>4
<1>6. QED
  BY <1>2, <1>5 DEF Words, n, k, size

LEMMA EnterPlaces ==
  ASSUME Compiled, Course, Enter
  PROVE  Placement'
<1>1. fn \in Functions /\ fn' = fn /\ regOf' = regOf /\ stage' = "prologue" /\ moved' = 0
  BY ValuesAndNames DEF Enter, allocVars, Course, Running, InBody
<1>2. FrameSize' = FrameSize /\ \A i : StackParamOffset(i)' = StackParamOffset(i)
  BY <1>1, FrameStays
<1>3. ASSUME NEW i \in DOMAIN fn.params PROVE Delivered(i)'
  <2>1. ~(i <= 0)
    BY <1>1, ParamsNumbered
  <2>2. CASE OnStack(i)
    <3>1. StackParamOffset(i) \in 0 .. FrameSize + WordsOnStack(Len(fn.params)) - 1
      BY <1>1, <2>2, StackParamWord DEF Words
    <3>2. fn.params[i] \in mem'[StackParamOffset(i)]
      BY <2>2, <3>1 DEF Enter
    <3>3. QED
      BY <1>1, <1>2, <2>1, <2>2, <3>2 DEF Delivered
  <2>3. CASE ~OnStack(i)
    <3>1. ARegs[i] \in Registers
      BY <1>1, <2>3, ParamsNumbered, RegisterFacts DEF OnStack
    <3>2. fn.params[i] \in reg'[ARegs[i]]
      BY <2>3, <3>1 DEF Enter
    <3>3. QED
      BY <1>1, <2>1, <2>3, <3>2 DEF Delivered
  <2>4. QED
    BY <2>2, <2>3
<1>4. QED
  BY <1>1, <1>3 DEF Placement, ParamsOnTheWay

LEMMA MovePlaces ==
  ASSUME Compiled, Course, Stored, ParamsMoveApart, ParamsOnTheWay, NEW i \in 1 .. Len(fn.params),
         MoveParamToRegister(i) \/ MoveParamHome(i) \/ LeaveParam(i)
  PROVE  Placement'
<1>1. /\ fn \in Functions /\ fn' = fn /\ regOf' = regOf /\ stage = "prologue" /\ stage' = "prologue"
      /\ moved' = i /\ i = moved + 1 /\ moved \in Nat /\ stage \in Running
      /\ DOMAIN reg = Registers \cup {Ra} /\ DOMAIN mem = Words
  <2>1. /\ fn' = fn /\ regOf' = regOf /\ stage = "prologue" /\ stage' = "prologue"
        /\ moved' = i /\ i = moved + 1
    BY DEF MoveParamToRegister, MoveParamHome, LeaveParam, Moving, compiler, livenessVars, allocVars
  <2>2. QED
    BY <2>1, ValuesAndNames, ParamsNumbered DEF Course, Stored, Running
<1>2. DOMAIN fn.params = 1 .. Len(fn.params) /\ Len(fn.params) \in Nat
      /\ \A j \in DOMAIN fn.params : fn.params[j] \in Params(fn) /\ ParamIndex(fn.params[j]) = j
  BY <1>1, ParamsNumbered DEF ParamIndex
<1>3. \A j \in DOMAIN fn.params : fn.params[j] \in SsaValues(fn) /\ fn.params[j] \notin Literals
  BY <1>2, ValuesAndNames DEF SsaValues
<1>4. /\ FrameSize' = FrameSize /\ \A j : StackParamOffset(j)' = StackParamOffset(j)
      /\ \A j : ParamOffset(j)' = ParamOffset(j)
  BY <1>1, FrameStays
<1>5. \A v : Uses(fn, v) # {} /\ v \in Params(fn) => Allocated(v) \/ InFrame(v)
  BY <1>1, ValuesAndNames DEF InFrame, SsaValues
<1>6. \A j \in DOMAIN fn.params : Allocated(fn.params[j]) => Uses(fn, fn.params[j]) # {}
  <2>1. ASSUME NEW j \in DOMAIN fn.params, Allocated(fn.params[j])
        PROVE  Uses(fn, fn.params[j]) # {}
    <3>1. fn.params[j] \in Candidates(fn)
      BY <1>3, <2>1, ValuesAndNames
    <3>2. QED
      BY <3>1 DEF Candidates
  <2>2. QED
    BY <2>1
<1>7. \A j \in DOMAIN fn.params : Uses(fn, fn.params[j]) # {} => Delivered(j)
  BY <1>1 DEF ParamsOnTheWay
<1>14. i \in DOMAIN fn.params /\ ~(i <= moved)
  BY <1>1, <1>2
<1>15. ASSUME NEW j \in DOMAIN fn.params PROVE j < i => j <= moved
  BY <1>1, <1>2
<1>16. ASSUME NEW j \in DOMAIN fn.params PROVE j > i => ~(j <= moved)
  BY <1>1, <1>2
<1>8. \* the place the parameter moves to, and its contents
      SUFFICES \A j \in DOMAIN fn.params : Uses(fn, fn.params[j]) # {} =>
                 IF j <= i THEN fn.params[j] \in Contents(fn.params[j])'
                 ELSE IF OnStack(j) THEN fn.params[j] \in mem'[StackParamOffset(j)]
                 ELSE fn.params[j] \in reg'[ARegs[j]]
  BY <1>1, <1>4 DEF Placement, ParamsOnTheWay, Delivered
<1>9. \A j \in DOMAIN fn.params : ~OnStack(j) => ARegs[j] \in Registers
  BY <1>2, RegisterFacts DEF OnStack
<1>10. CASE MoveParamToRegister(i)
  <2> DEFINE v == fn.params[i]
  <2>1. /\ Allocated(v) /\ mem' = mem /\ v \in SsaValues(fn) /\ regOf[v] \in Registers
        /\ reg' = [reg EXCEPT ![regOf[v]] = IF OnStack(i) THEN mem[StackParamOffset(i)]
                                            ELSE reg[ARegs[i]]]
    BY <1>2, <1>3, <1>10, ValuesAndNames DEF MoveParamToRegister
  <2>2. v \in reg'[regOf[v]]
    <3>1. Delivered(i)
      BY <1>6, <1>7, <1>14, <2>1
    <3>2. v \in IF OnStack(i) THEN mem[StackParamOffset(i)] ELSE reg[ARegs[i]]
      BY <1>14, <3>1 DEF Delivered
    <3>3. regOf[v] \in DOMAIN reg
      BY <1>1, <2>1
    <3> HIDE DEF v
    <3>4. QED
      BY <2>1, <3>2, <3>3
  <2>3. ASSUME NEW j \in DOMAIN fn.params, Uses(fn, fn.params[j]) # {}, j < i
        PROVE  fn.params[j] \in Contents(fn.params[j])'
    <3>1. fn.params[j] \in Contents(fn.params[j])
      <4>1. j <= moved
        BY <1>1, <1>2, <2>3
      <4>2. QED
        BY <1>7, <2>3, <4>1 DEF Delivered
    <3>2. Allocated(fn.params[j]) => regOf[fn.params[j]] # regOf[v]
      BY <1>2, <1>6, <2>1, <2>3 DEF ParamsMoveApart
    <3>3. Writes({regOf[v]}, {}, {})
      BY <1>10, PrologueWrites
    <3>4. QED
      BY <1>1, <1>2, <1>3, <1>5, <2>3, <3>1, <3>2, <3>3, Survives
  <2>4. ASSUME NEW j \in DOMAIN fn.params, Uses(fn, fn.params[j]) # {}, j > i
        PROVE  IF OnStack(j) THEN fn.params[j] \in mem'[StackParamOffset(j)]
               ELSE fn.params[j] \in reg'[ARegs[j]]
    <3>1. ~(j <= moved) /\ Delivered(j)
      <4>1. ~(j <= moved)
        BY <1>16, <2>4
      <4>2. Delivered(j)
        BY <1>7, <2>4
      <4>3. QED
        BY <4>1, <4>2
    <3>2. ~OnStack(j) => ARegs[j] # regOf[v]
      BY <1>2, <2>1, <2>4 DEF ParamsMoveApart
    <3>3. QED
      BY <1>1, <1>9, <2>1, <3>1, <3>2 DEF Delivered
  <2>5. v \in Contents(v)'
    BY <1>1, <2>1, <2>2, ContentsNext
  <2>6. ASSUME NEW j \in DOMAIN fn.params PROVE j < i \/ j = i \/ j > i
    BY <1>2
  <2>7. ASSUME NEW j \in DOMAIN fn.params PROVE (j < i \/ j = i <=> j <= i) /\ (j > i <=> ~(j <= i))
    BY <1>2
  <2> HIDE DEF v
  <2>8. QED
    BY <2>3, <2>4, <2>5, <2>6, <2>7 DEF v
<1>11. CASE MoveParamHome(i)
  <2> DEFINE v == fn.params[i]
  <2>1. v \in HomeParams /\ reg' = reg /\ mem' = [mem EXCEPT ![ParamOffset(v)] = reg[ARegs[i]]]
    BY <1>11 DEF MoveParamHome
  <2>2. /\ InFrame(v) /\ Word(v) = ParamOffset(v) /\ Word(v) \in Words /\ ~Allocated(v)
        /\ v \notin Literals /\ ~OnStack(i)
    <3>1. ~OnStack(i) /\ ~Allocated(v) /\ v \in Params(fn) /\ v \notin Literals
      BY <1>2, <1>3, <2>1 DEF HomeParams
    <3>2. InFrame(v) /\ Word(v) = ParamOffset(v)
      BY <1>2, <3>1 DEF InFrame, Word
    <3>3. QED
      BY <1>1, <3>1, <3>2, WordsApart
  <2>3. ASSUME Uses(fn, v) # {} PROVE v \in Contents(v)'
    <3>1. v \in reg[ARegs[i]]
      <4>1. Delivered(i)
        BY <1>7, <1>14, <2>3
      <4>2. QED
        BY <1>14, <2>2, <4>1 DEF Delivered
    <3>2. QED
      BY <1>1, <2>1, <2>2, <3>1, ContentsNext
  <2>4. ASSUME NEW j \in DOMAIN fn.params, Uses(fn, fn.params[j]) # {}, j < i
        PROVE  fn.params[j] \in Contents(fn.params[j])'
    <3>1. fn.params[j] \in Contents(fn.params[j])
      <4>1. j <= moved
        BY <1>1, <1>2, <2>4
      <4>2. QED
        BY <1>7, <2>4, <4>1 DEF Delivered
    <3>2. InFrame(fn.params[j]) => Word(fn.params[j]) # ParamOffset(v)
      <4>1. fn.params[j] # v
        BY <1>2, <2>4
      <4>2. QED
        BY <1>1, <2>2, <4>1, WordsApart
    <3>3. Writes({}, {ParamOffset(v)}, {})
      BY <1>11, PrologueWrites
    <3>4. QED
      BY <1>1, <1>2, <1>3, <1>5, <2>4, <3>1, <3>2, <3>3, Survives
  <2>5. ASSUME NEW j \in DOMAIN fn.params, Uses(fn, fn.params[j]) # {}, j > i
        PROVE  IF OnStack(j) THEN fn.params[j] \in mem'[StackParamOffset(j)]
               ELSE fn.params[j] \in reg'[ARegs[j]]
    <3>1. ~(j <= moved) /\ Delivered(j)
      <4>1. ~(j <= moved)
        BY <1>16, <2>5
      <4>2. Delivered(j)
        BY <1>7, <2>5
      <4>3. QED
        BY <4>1, <4>2
    <3>2. OnStack(j) => StackParamOffset(j) # ParamOffset(v)
      <4>1. ParamOffset(v) < SlotBase /\ ParamOffset(v) \in Nat
        BY <1>1, <2>1, <2>2, LayoutApart DEF AreasApart, Words
      <4>2. OnStack(j) => FrameSize <= StackParamOffset(j) /\ StackParamOffset(j) \in Nat
        BY <1>1, StackParamWord DEF Words
      <4>3. QED
        BY <1>1, <4>1, <4>2, BasesInOrder
    <3>3. QED
      BY <2>1, <3>1, <3>2 DEF Delivered
  <2>6. ASSUME NEW j \in DOMAIN fn.params PROVE j < i \/ j = i \/ j > i
    BY <1>2
  <2>7. ASSUME NEW j \in DOMAIN fn.params PROVE (j < i \/ j = i <=> j <= i) /\ (j > i <=> ~(j <= i))
    BY <1>2
  <2> HIDE DEF v
  <2>8. QED
    BY <2>3, <2>4, <2>5, <2>6, <2>7 DEF v
<1>12. CASE LeaveParam(i)
  <2> DEFINE v == fn.params[i]
  <2>1. /\ OnStack(i) /\ ~Allocated(v) /\ reg' = reg /\ mem' = mem
        /\ v \notin Literals /\ v \in Params(fn) /\ Word(v) = StackParamOffset(i)
    BY <1>2, <1>3, <1>12 DEF LeaveParam, Word
  <2>2. \A j \in DOMAIN fn.params : Contents(fn.params[j])' = Contents(fn.params[j])
    BY <1>1, <1>3, <2>1, ContentsNext, ContentsWhere
  <2>3. ASSUME Uses(fn, v) # {} PROVE v \in Contents(v)
    <3>1. Delivered(i)
      BY <1>7, <1>14, <2>3
    <3>2. v \in mem[Word(v)]
      BY <1>14, <2>1, <3>1 DEF Delivered
    <3>3. QED
      BY <1>2, <1>3, <2>1, <3>2, ContentsWhere
  <2>4. ASSUME NEW j \in DOMAIN fn.params PROVE j <= moved \/ j = i <=> j <= i
    BY <1>1, <1>2
  <2> HIDE DEF v
  <2>5. QED
    BY <1>7, <2>1, <2>2, <2>3, <2>4 DEF Delivered, v
<1>13. QED
  BY <1>10, <1>11, <1>12

LEMMA EnterBodyPlaces ==
  ASSUME Compiled, Course, Stored, Unaffected, Placement, EnterBody
  PROVE  Placement'
<1>1. /\ fn \in Functions /\ fn' = fn /\ regOf' = regOf /\ stage = "prologue" /\ stage' = "running"
      /\ pc' = <<Entry, 0 + 1>> /\ moved = Len(fn.params) /\ stage \in Running
      /\ DOMAIN reg = Registers \cup {Ra}
  <2>1. /\ fn' = fn /\ regOf' = regOf /\ stage = "prologue" /\ stage' = "running"
        /\ pc' = pc /\ moved = Len(fn.params)
    BY DEF EnterBody, allocVars
  <2>2. QED
    BY <2>1, ValuesAndNames DEF Course, Stored, Running, InBody
<1>2. Entry \in Blocks(fn) /\ PhiSites(fn, Entry) = {}
  BY <1>1, FunctionsWellFormed DEF Connected
<1>3. Behind(Entry, 0) = 0
  BY <1>1, <1>2, PhisFirst DEF Behind
<1>5. ASSUME NEW v \in Wanted(Entry, 0)
      PROVE  v \in Params(fn) /\ v \in SsaValues(fn) /\ Uses(fn, v) # {}
  <2>1. v \in SsaValues(fn) /\ Uses(fn, v) # {} /\ Available(fn, v, Entry, 0)
    BY <1>3 DEF Wanted
  <2>2. Entry \in EnteredWithout(fn, v)
    BY <1>2 DEF EnteredWithout
  <2>3. v \notin Literals
    BY <2>1, ValuesAndNames
  <2>4. QED
    BY <2>1, <2>2, <2>3 DEF Available
<1>6. ASSUME NEW v \in Wanted(Entry, 0) PROVE v \in Contents(v)
  <2> DEFINE i == ParamIndex(v)
  <2>1. i \in DOMAIN fn.params /\ fn.params[i] = v
    BY <1>1, <1>5, ParamsNumbered DEF ParamIndex
  <2>2. i <= moved
    BY <1>1, <2>1, ParamsNumbered
  <2>3. Uses(fn, fn.params[i]) # {} => Delivered(i)
    BY <1>1, <2>1 DEF Placement, ParamsOnTheWay
  <2> HIDE DEF i
  <2>4. QED
    BY <1>5, <2>1, <2>2, <2>3 DEF Delivered
<1>7. Writes({regOf[c] : c \in Literals}, {}, {})
  BY PrologueWrites
<1>8. ASSUME NEW v \in Wanted(Entry, 0) PROVE v \in Contents(v)'
  <2>1. v \in SsaValues(fn) /\ (Allocated(v) \/ InFrame(v))
    BY <1>1, WantedPlace
  <2>2. Allocated(v) => regOf[v] \notin {regOf[c] : c \in Literals}
    <3>1. SUFFICES ASSUME Allocated(v), NEW c \in Literals, regOf[c] = regOf[v] PROVE FALSE
      OBVIOUS
    <3>2. Allocated(c)
      BY <3>1 DEF Allocated
    <3>3. v # c
      BY <2>1, ValuesAndNames
    <3>4. QED
      BY <2>1, <3>1, <3>2, <3>3, LiteralApart
  <2>3. QED
    BY <1>1, <1>6, <1>7, <2>1, <2>2, Survives
<1>9. ASSUME NEW c \in Literals PROVE c \in Contents(c)'
  <2>1. CASE Allocated(c)
    <3>1. regOf[c] \in DOMAIN reg
      BY <1>1, <2>1, ValuesAndNames
    <3>2. reg'[regOf[c]] = {d \in Literals : regOf[d] = regOf[c]}
      BY <3>1 DEF EnterBody
    <3>3. QED
      BY <1>1, <2>1, <3>2, ContentsNext
  <2>2. CASE ~Allocated(c)
    BY <1>1, <2>2, ContentsNext
  <2>3. QED
    BY <2>1, <2>2
<1>10. MachineNext
  BY DEF MachineNext
<1>11. QED
  BY <1>1, <1>8, <1>9, <1>10, RunningPlaced

-----------------------------------------------------------------------------
(* One instruction. *)

\* The instruction at pc gives v its value; a phi does so on the edge already.
DefinedHere(v) == At(fn, pc).op # "phi" /\ Defines(fn, pc, v)

LEMMA HeldBefore ==
  ASSUME Compiled, Course, Ready, pc[2] \in DOMAIN fn.blocks[pc[1]]
  PROVE  /\ InPlace(Literals)
         /\ \A v \in Wanted(pc[1], pc[2]) : ~DefinedHere(v) => v \in Contents(v)
<1>1. pc[1] \in Blocks(fn) /\ pc = <<pc[1], pc[2]>> /\ At(fn, pc) = fn.blocks[pc[1]][pc[2]]
  BY HereIsSite
<1>2. InPlace(Wanted(pc[1], pc[2] - 1) \cup Literals)
  BY ReadyHere
<1>3. ASSUME NEW v \in Wanted(pc[1], pc[2]), ~DefinedHere(v) PROVE v \in Contents(v)
  <2>1. fn.blocks[pc[1]][pc[2]].op # "phi" => ~Defines(fn, <<pc[1], pc[2]>>, v)
    BY <1>1, <1>3 DEF DefinedHere
  <2>2. v \in Wanted(pc[1], pc[2] - 1)
    BY <1>1, <2>1, WantedBefore
  <2>3. QED
    BY <1>2, <2>2 DEF InPlace
<1>4. QED
  BY <1>2, <1>3 DEF InPlace

\* A step behind an instruction: what it defines is in its place, and what it
\* does not define is where it was.
LEMMA StepPlaces ==
  ASSUME Compiled, Course, Stored, MachineNext, stage \in Running, stage' = "running",
         pc[2] \in DOMAIN fn.blocks[pc[1]], pc' = NextPc, InPlace(Literals),
         NEW rs, NEW ws, NEW ns, Writes(rs, ws, ns), ns \subseteq SsaValues(fn),
         \A r \in rs : HasCall \/ \E v \in SsaValues(fn) : r = regOf[v],
         \A v \in Wanted(pc[1], pc[2]) :
           IF DefinedHere(v) THEN v \in Contents(v)'
           ELSE /\ v \in Contents(v) /\ v \notin ns
                /\ Allocated(v) => regOf[v] \notin rs
                /\ InFrame(v) => Word(v) \notin ws
  PROVE  Placement'
<1>1. fn' = fn /\ regOf' = regOf
  BY FunctionStays
<1>2. pc' = <<pc[1], pc[2] + 1>> /\ pc[2] \in Nat
  BY HereIsSite DEF NextPc
<1>3. ASSUME NEW v \in Wanted(pc[1], pc[2]) PROVE v \in Contents(v)'
  <2>1. v \in SsaValues(fn) /\ (Allocated(v) \/ InFrame(v))
    BY WantedPlace
  <2>2. CASE DefinedHere(v)
    BY <1>3, <2>2
  <2>3. CASE ~DefinedHere(v)
    BY <1>1, <1>3, <2>1, <2>3, Survives
  <2>4. QED
    BY <2>2, <2>3
<1>4. \A c \in Literals : c \in Contents(c)'
  BY <1>1, LiteralsSurvive
<1>5. QED
  BY <1>2, <1>3, <1>4, RunningPlaced

LEMMA QuietPlaces ==
  ASSUME Compiled, Course, Stored, Placement, Defer \/ Pass
  PROVE  Placement'
<1>1. /\ stage = "running" /\ stage' = "running" /\ stage \in Running /\ MachineNext
      /\ pc[2] \in DOMAIN fn.blocks[pc[1]] /\ pc' = NextPc
      /\ At(fn, pc).op \in {"icmp", "alloca", "phi", "store"}
      /\ Defer => LeftToBranch(pc)
      /\ ~Defer => At(fn, pc).op # "icmp"
  BY DEF Defer, Pass, AtInst, compiler, livenessVars, Running, InBody, MachineNext
<1>2. InPlace(Literals) /\ \A v \in Wanted(pc[1], pc[2]) : ~DefinedHere(v) => v \in Contents(v)
  BY <1>1, HeldBefore DEF Placement
<1> DEFINE ns == IF Defer THEN {At(fn, pc).res} ELSE {}
<1>3. Writes({}, {}, ns)
  BY QuietWrites
<1>4. pc \in Sites(fn) /\ fn \in Functions /\ At(fn, pc) = fn.blocks[pc[1]][pc[2]] /\ pc[1] \in Blocks(fn)
  BY <1>1, HereIsSite
<1>5. ns \subseteq SsaValues(fn) /\ ns \subseteq Deferred
  <2>1. Defer => At(fn, pc).res # NoValue
    BY <1>1, <1>4, FunctionsWellFormed DEF Shaped, LeftToBranch
  <2>2. QED
    BY <1>1, <1>4, <2>1, ResultsAreNames DEF Deferred
<1>6. \A v \in Wanted(pc[1], pc[2]) : v \notin Deferred /\ v # NoValue /\ v \in SsaValues(fn)
  BY <1>4, ValuesAndNames DEF Wanted
<1>7. ASSUME NEW v \in Wanted(pc[1], pc[2]) PROVE ~DefinedHere(v)
  <2>1. SUFFICES ASSUME DefinedHere(v) PROVE FALSE
    OBVIOUS
  <2>2. v = At(fn, pc).res /\ At(fn, pc).op \in {"icmp", "store"}
    BY <1>1, <2>1 DEF DefinedHere, Defines
  <2>3. CASE At(fn, pc).op = "icmp"
    BY <1>1, <1>4, <1>6, <2>2, <2>3 DEF Deferred
  <2>4. CASE At(fn, pc).op = "store"
    <3>1. At(fn, pc).res = NoValue
      BY <1>4, <2>4, FunctionsWellFormed DEF Shaped
    <3>2. QED
      BY <1>6, <2>2, <3>1
  <2>5. QED
    BY <2>2, <2>3, <2>4
<1> HIDE DEF ns
<1>8. QED
  BY <1>1, <1>2, <1>3, <1>5, <1>6, <1>7, StepPlaces

LEMMA PutPlaces ==
  ASSUME Compiled, Stored, fn' = fn, regOf' = regOf, NEW v \in SsaValues(fn),
         ~Allocated(v) => SlotOffset(v) = Word(v) /\ Word(v) \in DOMAIN mem,
         NEW contents, reg' = PutInReg(v, contents), mem' = PutInMem(v, contents)
  PROVE  v \in Contents(v)'
<1>1. CASE Allocated(v)
  <2>1. regOf[v] \in DOMAIN reg
    BY <1>1, ValuesAndNames DEF Stored
  <2>2. v \in reg'[regOf[v]]
    BY <1>1, <2>1 DEF PutInReg, Forget
  <2>3. QED
    BY <1>1, <2>2, ContentsNext
<1>2. CASE ~Allocated(v)
  <2>1. v \in mem'[Word(v)]
    BY <1>2 DEF PutInMem, Forget
  <2>2. v \notin Literals
    BY ValuesAndNames
  <2>3. QED
    BY <1>2, <2>1, <2>2, ContentsNext
<1>3. QED
  BY <1>1, <1>2

LEMMA ComputePlaces ==
  ASSUME Compiled, Course, Stored, Unaffected, Placement, Compute \/ LoadLocal \/ SetLocal
  PROVE  Placement'
<1>1. /\ stage = "running" /\ stage' = "running" /\ stage \in Running /\ MachineNext
      /\ pc[2] \in DOMAIN fn.blocks[pc[1]] /\ pc' = NextPc /\ fn' = fn /\ regOf' = regOf
      /\ At(fn, pc).op \in {"arith", "and", "icmp", "load", "set"} /\ ~LeftToBranch(pc)
      /\ \E contents : reg' = PutInReg(Target, contents) /\ mem' = PutInMem(Target, contents)
  <2>1. CASE Compute
    BY <2>1 DEF Compute, AtInst, compiler, livenessVars, allocVars, Running, InBody, MachineNext, Target
  <2>2. CASE LoadLocal
    BY <2>2 DEF LoadLocal, AtInst, compiler, livenessVars, allocVars, Running, InBody, MachineNext,
                Target, LeftToBranch
  <2>3. CASE SetLocal
    BY <2>3 DEF SetLocal, AtInst, compiler, livenessVars, allocVars, Running, InBody, MachineNext,
                Target, LeftToBranch
  <2>4. QED
    BY <2>1, <2>2, <2>3
<1>2. InPlace(Literals) /\ \A v \in Wanted(pc[1], pc[2]) : ~DefinedHere(v) => v \in Contents(v)
  BY <1>1, HeldBefore DEF Placement
<1>3. /\ Target \in SsaValues(fn) \ Deferred
      /\ ~Allocated(Target) => /\ InFrame(Target) /\ SlotOffset(Target) = Word(Target)
                               /\ Word(Target) \in Words
  BY TargetKept
<1>4. /\ pc \in Sites(fn) /\ fn \in Functions /\ At(fn, pc) = fn.blocks[pc[1]][pc[2]]
      /\ pc[1] \in Blocks(fn) /\ pc = <<pc[1], pc[2]>>
  BY <1>1, HereIsSite
<1>5. ASSUME NEW v, v = Target PROVE v \in Contents(v)'
  <2>1. v \in SsaValues(fn) /\ (~Allocated(v) => SlotOffset(v) = Word(v) /\ Word(v) \in DOMAIN mem)
    BY <1>1, <1>3, <1>5 DEF Course
  <2>2. PICK contents : reg' = PutInReg(v, contents) /\ mem' = PutInMem(v, contents)
    BY <1>1, <1>5
  <2>3. QED
    BY <1>1, <2>1, <2>2, PutPlaces
<1>6. \A v : DefinedHere(v) <=> v = Target
  BY <1>1 DEF DefinedHere, Defines, Target
<1>7. ASSUME At(fn, pc).op = "set" PROVE ~Allocated(Target)
  <2>1. Target \in Variables(fn)
    BY <1>4, <1>7, FunctionsWellFormed DEF Shaped, Target
  <2>2. PICK s \in Sites(fn) : At(fn, s).op = "alloca" /\ At(fn, s).res = Target
    BY <2>1 DEF Variables
  <2>3. DefSite(fn, Target) = s /\ Target \notin Params(fn)
    BY <1>3, <1>4, <2>2, OneDefinition, ValuesAndNames
  <2>4. QED
    BY <1>3, <2>2, <2>3, ValuesAndNames DEF Candidates
<1>8. ASSUME NEW v \in Wanted(pc[1], pc[2]), v # Target, Allocated(v)
      PROVE  regOf[v] \notin RegsOf(Target)
  <2>1. SUFFICES ASSUME Allocated(Target) PROVE regOf[v] # regOf[Target]
    BY DEF RegsOf
  <2>2. Target = fn.blocks[pc[1]][pc[2]].res /\ fn.blocks[pc[1]][pc[2]].op # "phi" /\ Target # NoValue
    BY <1>1, <1>3, <1>4, <1>7, <2>1, ValuesAndNames DEF Target
  <2>3. ~LeftToBranch(<<pc[1], pc[2]>>)
    BY <1>1, <1>4
  <2>4. QED
    BY <1>1, <1>4, <1>8, <2>1, <2>2, <2>3, WantedApart DEF Unaffected
<1>9. ASSUME NEW v, v # Target, InFrame(v) PROVE Word(v) \notin WordsOf(Target)
  <2>1. SUFFICES ASSUME ~Allocated(Target) PROVE Word(v) # Word(Target)
    BY <1>3 DEF WordsOf
  <2>2. QED
    BY <1>3, <1>4, <1>9, <2>1, WordsApart
<1>10. Writes(RegsOf(Target), WordsOf(Target), {Target})
  BY ComputeWrites
<1>11. \A r \in RegsOf(Target) : \E v \in SsaValues(fn) : r = regOf[v]
  BY <1>3 DEF RegsOf
<1> HIDE DEF Target
<1>12. QED
  BY <1>1, <1>2, <1>3, <1>5, <1>6, <1>8, <1>9, <1>10, <1>11, StepPlaces

LEMMA StackArgumentsPlaces ==
  ASSUME Compiled, Course, Stored, Unaffected, Placement, StackArguments
  PROVE  Placement'
<1>1. /\ stage = "running" /\ stage' = "stacked" /\ stage \in Running /\ MachineNext /\ AtCall
      /\ fn' = fn /\ regOf' = regOf /\ pc' = pc /\ Ready
  BY DEF StackArguments, AtInst, AtCall, allocVars, Running, InBody, MachineNext, Placement
<1>2. /\ fn \in Functions /\ pc \in Sites(fn) /\ HasCall
      /\ Len(At(fn, pc).args) \in Nat /\ DOMAIN At(fn, pc).args = 1 .. Len(At(fn, pc).args)
      /\ \A j \in DOMAIN At(fn, pc).args : /\ At(fn, pc).args[j] \in SsaValues(fn) \cup Literals
                                           /\ At(fn, pc).args[j] \in Reads(pc)
  BY <1>1, CallArguments
<1>3. /\ pc[1] \in Blocks(fn) /\ pc = <<pc[1], pc[2]>> /\ pc[2] \in DOMAIN fn.blocks[pc[1]]
      /\ pc = <<pc[1], pc[2] - 1 + 1>> /\ pc[2] - 1 \in 0 .. Len(fn.blocks[pc[1]])
  <2>1. /\ pc[1] \in Blocks(fn) /\ pc = <<pc[1], pc[2]>> /\ pc[2] \in DOMAIN fn.blocks[pc[1]]
        /\ pc[2] \in Nat /\ DOMAIN fn.blocks[pc[1]] = 1 .. Len(fn.blocks[pc[1]])
        /\ Len(fn.blocks[pc[1]]) \in Nat
    BY <1>1, HereIsSite DEF AtCall
  <2>2. pc[2] - 1 + 1 = pc[2] /\ pc[2] - 1 \in 0 .. Len(fn.blocks[pc[1]])
    BY <2>1
  <2>3. QED
    BY <2>1, <2>2
<1>4. InPlace(Wanted(pc[1], pc[2] - 1) \cup Literals)
  BY <1>1, ReadyHere
<1>5. Writes({}, StackArgumentWords, {})
  BY StackArgumentsWrites
<1>6. ASSUME NEW v \in Wanted(pc[1], pc[2] - 1) \cup Literals PROVE v \in Contents(v)'
  <2>1. v \in SsaValues(fn) \cup Literals /\ (Allocated(v) \/ v \in Literals \/ InFrame(v))
    BY <1>1, WantedPlace
  <2>2. InFrame(v) => Word(v) \notin StackArgumentWords
    <3>1. SUFFICES ASSUME InFrame(v), Word(v) \in StackArgumentWords PROVE FALSE
      OBVIOUS
    <3>2. ParamBase <= Word(v) /\ Word(v) \in Nat
      BY <1>2, <3>1, WordsApart DEF Words
    <3>3. Word(v) < OutgoingWords
      BY <1>1, <3>1, StackArgumentsBelow
    <3>4. QED
      BY <1>2, <3>2, <3>3, BasesInOrder
  <2>3. v \in Contents(v)
    BY <1>4 DEF InPlace
  <2>4. QED
    BY <1>1, <1>5, <2>1, <2>2, <2>3, Survives
<1>7. Ready'
  <2>1. SUFFICES ASSUME NEW b \in Blocks(fn)', NEW n \in (0 .. Len(fn.blocks[b]))', pc' = <<b, n + 1>>
                 PROVE  InPlace(Wanted(b, n) \cup Literals)'
    BY DEF Ready
  <2>2. b = pc[1] /\ n = pc[2] - 1
    <3>1. n \in Int /\ pc = <<b, n + 1>>
      BY <1>1, <2>1
    <3>2. QED
      BY <1>3, <3>1
  <2>3. Wanted(b, n)' = Wanted(pc[1], pc[2] - 1)
    BY <1>1, <2>2, PlacesStay
  <2>4. QED
    BY <1>6, <2>3 DEF InPlace
<1>8. ASSUME NEW i \in DOMAIN At(fn, pc).args, OnStack(i)
      PROVE  At(fn, pc).args[i] \in mem'[i - Len(ARegs) - 1]
  <2> DEFINE a == At(fn, pc).args[i]
             w == i - Len(ARegs) - 1
  <2>1. a \in Contents(a)
    <3>1. a \in Wanted(pc[1], pc[2] - 1) \cup Literals
      BY <1>2, <1>3, ReadsWanted
    <3>2. QED
      BY <1>4, <3>1 DEF InPlace
  <2>2. w + Len(ARegs) + 1 = i /\ w \in Nat /\ w < WordsOnStack(Len(At(fn, pc).args))
    <3>1. Len(ARegs) \in Nat /\ i \in Nat /\ i > Len(ARegs) /\ i <= Len(At(fn, pc).args)
      BY <1>2, <1>8, RegisterFacts DEF OnStack
    <3>2. QED
      BY <1>2, <3>1 DEF WordsOnStack
  <2>3. w \in DOMAIN mem
    <3>1. /\ WordsOnStack(Len(At(fn, pc).args)) <= OutgoingWords
      BY <1>1, <1>2, LayoutApart DEF AreasApart, AtCall, RaOffset
    <3>2. DOMAIN mem = Words
      BY <1>1 DEF Course
    <3>3. WordsOnStack(Len(At(fn, pc).args)) \in Nat
      BY <1>2, RegisterFacts DEF WordsOnStack
    <3> HIDE DEF w
    <3>4. w < FrameSize
      BY <1>2, <2>2, <3>1, <3>3, BasesInOrder
    <3>5. w \in 0 .. FrameSize + WordsOnStack(Len(fn.params)) - 1
      BY <1>2, <2>2, <3>4, BasesInOrder
    <3>6. QED
      BY <3>2, <3>5 DEF Words
  <2>4. w + Len(ARegs) + 1 \in DOMAIN At(fn, pc).args /\ At(fn, pc).args[w + Len(ARegs) + 1] = a
    BY <1>8, <2>2
  <2>5. mem'[w] = Contents(a)
    <3> HIDE DEF a, w
    <3>1. QED
      BY <2>3, <2>4 DEF StackArguments
  <2>6. QED
    BY <2>1, <2>5
<1>9. StackArgumentsPlaced'
  BY <1>1, <1>8 DEF StackArgumentsPlaced
<1>10. QED
  BY <1>1, <1>7, <1>9 DEF Placement, ParamsOnTheWay

LEMMA RegisterArgumentsPlaces ==
  ASSUME Compiled, Course, Stored, Unaffected, Placement, RegisterArguments
  PROVE  Placement'
<1>1. /\ stage = "stacked" /\ stage' = "called" /\ stage \in Running /\ MachineNext /\ AtCall
      /\ fn' = fn /\ regOf' = regOf /\ pc' = pc /\ mem' = mem /\ Ready /\ StackArgumentsPlaced
      /\ DOMAIN reg = Registers \cup {Ra}
  BY DEF RegisterArguments, allocVars, Running, InBody, MachineNext, Placement, Course, Stored
<1>2. /\ fn \in Functions /\ pc \in Sites(fn) /\ HasCall /\ At(fn, pc).op = "call"
      /\ Len(At(fn, pc).args) \in Nat /\ DOMAIN At(fn, pc).args = 1 .. Len(At(fn, pc).args)
      /\ \A j \in DOMAIN At(fn, pc).args : /\ At(fn, pc).args[j] \in SsaValues(fn) \cup Literals
                                           /\ At(fn, pc).args[j] \in Reads(pc)
                                           /\ ~OnStack(j) => j \in DOMAIN ARegs
  BY <1>1, CallArguments
<1>3. /\ pc[1] \in Blocks(fn) /\ pc = <<pc[1], pc[2]>> /\ pc[2] \in DOMAIN fn.blocks[pc[1]]
      /\ At(fn, pc) = fn.blocks[pc[1]][pc[2]]
  BY <1>1, HereIsSite DEF AtCall
<1>4. InPlace(Literals) /\ \A v \in Wanted(pc[1], pc[2]) : ~DefinedHere(v) => v \in Contents(v)
  BY <1>1, <1>3, HeldBefore
<1>5. Writes(ToSet(ARegs), {}, {})
  BY RegisterArgumentsWrites
<1>6. ASSUME NEW v \in Wanted(pc[1], pc[2]), v # At(fn, pc).res PROVE v \in Contents(v)'
  <2>1. v \in SsaValues(fn) /\ (Allocated(v) \/ InFrame(v))
    BY <1>1, WantedPlace
  <2>2. v \in Contents(v)
    BY <1>2, <1>4, <1>6 DEF DefinedHere, Defines
  <2>3. ASSUME Allocated(v) PROVE regOf[v] \notin ToSet(ARegs)
    <3>1. ~LeftToBranch(<<pc[1], pc[2]>>)
      BY <1>2, <1>3 DEF LeftToBranch
    <3>2. regOf[v] \in ToSet(SRegs)
      BY <1>1, <1>2, <1>3, <1>6, <2>3, <3>1, WantedApart DEF Unaffected
    <3>3. QED
      BY <3>2, RegisterFacts DEF ToSet
  <2>4. QED
    BY <1>1, <1>5, <2>1, <2>2, <2>3, Survives
<1>7. \A c \in Literals : c \in Contents(c)'
  BY <1>1, <1>2, <1>4, <1>5, LiteralsSurvive
<1>8. ReadyBehind'
  <2>1. SUFFICES ASSUME NEW b \in Blocks(fn)', NEW n \in (DOMAIN fn.blocks[b])', pc' = <<b, n>>
                 PROVE  InPlace((Wanted(b, n) \ {At(fn, pc).res}) \cup Literals)'
    BY DEF ReadyBehind
  <2>2. b = pc[1] /\ n = pc[2]
    BY <1>1, <2>1
  <2>3. Wanted(b, n)' = Wanted(pc[1], pc[2])
    BY <1>1, <2>2, PlacesStay
  <2>4. At(fn, pc)' = At(fn, pc)
    BY <1>1
  <2>5. QED
    BY <1>6, <1>7, <2>3, <2>4 DEF InPlace
<1>9. ASSUME NEW i \in DOMAIN At(fn, pc).args
      PROVE  At(fn, pc).args[i] \in IF OnStack(i) THEN mem[i - Len(ARegs) - 1] ELSE reg'[ARegs[i]]
  <2>1. CASE OnStack(i)
    BY <1>1, <2>1 DEF StackArgumentsPlaced
  <2>2. CASE ~OnStack(i)
    <3> DEFINE a == At(fn, pc).args[i]
               here(r) == {j \in DOMAIN At(fn, pc).args : ~OnStack(j) /\ ARegs[j] = r}
    <3>1. a \in Contents(a)
      <4>1. a \in Wanted(pc[1], pc[2] - 1) \cup Literals
        BY <1>2, <1>3, ReadsWanted
      <4>2. QED
        BY <1>1, <4>1, ReadyHere DEF InPlace
    <3>2. here(ARegs[i]) = {i}
      BY <1>2, <2>2, RegisterFacts
    <3>3. Min(here(ARegs[i])) = i
      <4>1. i \in Int
        BY <1>2
      <4>2. QED
        BY <3>2, <4>1 DEF Min
    <3>4. ARegs[i] \in DOMAIN reg
      BY <1>1, <1>2, <2>2, RegisterFacts
    <3>5. reg'[ARegs[i]] = Contents(At(fn, pc).args[Min(here(ARegs[i]))])
      <4>1. reg' = [r \in DOMAIN reg |-> IF here(r) = {} THEN reg[r]
                                         ELSE Contents(At(fn, pc).args[Min(here(r))])]
        BY DEF RegisterArguments
      <4> HIDE DEF here
      <4>2. QED
        BY <3>2, <3>4, <4>1
    <3>6. QED
      BY <2>2, <3>1, <3>3, <3>5
  <2>3. QED
    BY <2>1, <2>2
<1>10. CalleeSeesArguments'
  BY <1>1, <1>9 DEF CalleeSeesArguments
<1>11. QED
  BY <1>1, <1>8, <1>10 DEF Placement, ParamsOnTheWay

LEMMA CalleeReturnsPlaces ==
  ASSUME Compiled, Course, Stored, Unaffected, Placement, CalleeReturns
  PROVE  Placement'
<1>1. /\ stage = "called" /\ stage' = "running" /\ stage \in Running /\ MachineNext /\ AtCall
      /\ fn' = fn /\ regOf' = regOf /\ pc' = NextPc /\ ReadyBehind
      /\ pc[2] \in DOMAIN fn.blocks[pc[1]]
  BY DEF CalleeReturns, allocVars, Running, InBody, MachineNext, Placement, Course, AtCall
<1>2. /\ fn \in Functions /\ pc \in Sites(fn) /\ HasCall /\ At(fn, pc).op = "call"
  BY <1>1, CallArguments
<1>3. /\ pc[1] \in Blocks(fn) /\ pc = <<pc[1], pc[2]>> /\ At(fn, pc) = fn.blocks[pc[1]][pc[2]]
      /\ ~LeftToBranch(pc)
  BY <1>1, <1>2, HereIsSite DEF LeftToBranch
<1>4. InPlace((Wanted(pc[1], pc[2]) \ {At(fn, pc).res}) \cup Literals)
  BY <1>1, <1>3 DEF ReadyBehind
<1> DEFINE rs == ((Registers \cup {Ra}) \ ToSet(SRegs)) \cup ResultRegs
           ws == {w \in DOMAIN mem : w < OutgoingWords} \cup ResultWords
<1>5. Writes(rs, ws, ResultNames)
  BY CalleeReturnsWrites
<1>6. \A v : DefinedHere(v) <=> v = At(fn, pc).res
  BY <1>2 DEF DefinedHere, Defines
<1>7. At(fn, pc).res # NoValue =>
        /\ At(fn, pc).res \in SsaValues(fn)
        /\ ~Allocated(At(fn, pc).res) => /\ InFrame(At(fn, pc).res)
                                         /\ SlotOffset(At(fn, pc).res) = Word(At(fn, pc).res)
                                         /\ Word(At(fn, pc).res) \in Words
  <2>1. ~LoweringFails
    BY <1>1 DEF Course
  <2>2. QED
    BY <1>2, <1>3, <2>1, KeptResult
<1>8. ASSUME NEW v \in Wanted(pc[1], pc[2]), v = At(fn, pc).res PROVE v \in Contents(v)'
  <2>1. v \in SsaValues(fn) /\ v # NoValue /\ v \notin Literals
    BY <1>1, WantedPlace, ValuesAndNames
  <2>2. CASE Allocated(v)
    <3>1. regOf[v] \in DOMAIN reg
      BY <2>1, <2>2, ValuesAndNames DEF Stored
    <3>2. v \in reg'[regOf[v]]
      BY <1>8, <2>1, <3>1 DEF CalleeReturns
    <3>3. QED
      BY <1>1, <2>2, <3>2, ContentsNext
  <2>3. CASE ~Allocated(v)
    <3>1. Word(v) \in DOMAIN mem /\ SlotOffset(v) = Word(v)
      BY <1>1, <1>7, <1>8, <2>1, <2>3 DEF Course
    <3>2. v \in mem'[Word(v)]
      BY <1>8, <2>1, <2>3, <3>1 DEF CalleeReturns
    <3>3. QED
      BY <1>1, <2>1, <2>3, <3>2, ContentsNext
  <2>4. QED
    BY <2>2, <2>3
<1>9. ASSUME NEW v \in Wanted(pc[1], pc[2]), v # At(fn, pc).res
      PROVE  /\ v \in Contents(v) /\ v \notin ResultNames
             /\ Allocated(v) => regOf[v] \notin rs
             /\ InFrame(v) => Word(v) \notin ws
  <2>1. v \in Contents(v) /\ v \notin ResultNames
    BY <1>4, <1>9 DEF InPlace, ResultNames
  <2>2. ASSUME Allocated(v) PROVE regOf[v] \notin rs
    <3>1. regOf[v] \in ToSet(SRegs)
      BY <1>1, <1>2, <1>3, <1>9, <2>2, WantedApart DEF Unaffected
    <3>2. regOf[v] \notin ResultRegs
      <4>1. SUFFICES ASSUME At(fn, pc).res # NoValue, Allocated(At(fn, pc).res)
                     PROVE  regOf[v] # regOf[At(fn, pc).res]
        BY DEF ResultRegs, RegsOf
      <4>2. fn.blocks[pc[1]][pc[2]].op # "phi" /\ ~LeftToBranch(<<pc[1], pc[2]>>)
        BY <1>2, <1>3
      <4>3. QED
        BY <1>1, <1>2, <1>3, <1>9, <2>2, <4>1, <4>2, WantedApart DEF Unaffected
    <3>3. QED
      BY <3>1, <3>2
  <2>3. ASSUME InFrame(v) PROVE Word(v) \notin ws
    <3>1. Word(v) \in Nat /\ ParamBase <= Word(v)
      BY <1>2, <2>3, WordsApart DEF Words
    <3>2. ~(Word(v) < OutgoingWords)
      BY <1>2, <3>1, BasesInOrder
    <3>3. Word(v) \notin ResultWords
      BY <1>2, <1>7, <1>9, <2>3, WordsApart DEF ResultWords, WordsOf
    <3>4. QED
      BY <3>2, <3>3
  <2>4. QED
    BY <2>1, <2>2, <2>3
<1>10. ResultNames \subseteq SsaValues(fn)
  BY <1>7 DEF ResultNames
<1>11. InPlace(Literals)
  BY <1>4 DEF InPlace
<1> HIDE DEF rs, ws
<1>12. QED
  BY <1>1, <1>2, <1>5, <1>6, <1>8, <1>9, <1>10, <1>11, StepPlaces

-----------------------------------------------------------------------------
(* An edge of the control flow graph. *)

\* The phis of a block leave alone what is wanted behind them.
LEMMA PhisApart ==
  ASSUME Compiled, NeighboursApart, stage \in Running, NEW c \in Blocks(fn), NEW v \in Wanted(c, 0),
         Allocated(v), NEW k \in PhiSites(fn, c),
         \A j \in k .. LastPhi(c) : fn.blocks[c][j].res # v
  PROVE  regOf[fn.blocks[c][k].res] # regOf[v]
<1> DEFINE m == Len(fn.blocks[c])
           p == LastPhi(c)
<1>1. /\ fn \in Functions /\ p \in Nat /\ m \in Nat /\ p <= m
      /\ k \in Nat /\ k >= 1 /\ k \in DOMAIN fn.blocks[c] /\ fn.blocks[c][k].op = "phi"
      /\ fn.blocks[c][k].res # NoValue
  <2>1. fn \in Functions
    BY ValuesAndNames
  <2>2. k \in DOMAIN fn.blocks[c]
    BY DEF PhiSites
  <2>3. QED
    BY <2>1, <2>2, PhisFirst, PhiFacts, FunctionShape
<1>2. k <= p
  BY <1>1, PhisFirst
<1>3. v \in LiveAfter(c, p)
  <2>1. Behind(c, 0) = p
    BY <1>1, <1>2 DEF Behind
  <2>2. Held(c, 0) = {}
    <3>1. \A t \in Sites(fn) : ~(t[2] <= 0)
      BY <1>1, FunctionShape
    <3>2. QED
      BY <3>1 DEF Held
  <2>3. QED
    BY <2>1, <2>2 DEF Wanted
<1> HIDE DEF p
<1>4. ASSUME NEW i \in Nat, \A j \in p + 1 .. i : fn.blocks[c][j].res # v
      PROVE  \A j \in k + 1 .. i : fn.blocks[c][j].res # v
  <2>1. \A j \in k + 1 .. i : j \in k .. p \/ j \in p + 1 .. i
    BY <1>1
  <2>2. QED
    BY <1>4, <2>1 DEF p
<1> HIDE DEF m
<1>5. v \in LiveAfter(c, k)
  <2>1. v \in Candidates(fn)
    BY <1>3 DEF LiveAfter
  <2>2. CASE v \in liveOut[c] /\ \A j \in p + 1 .. m : fn.blocks[c][j].res # v
    BY <1>1, <1>4, <2>1, <2>2 DEF LiveAfter, m
  <2>3. ASSUME NEW i \in p + 1 .. m, fn.blocks[c][i].op # "phi", v \in ToSet(fn.blocks[c][i].args),
               \A j \in p + 1 .. i - 1 : fn.blocks[c][j].res # v
        PROVE  v \in LiveAfter(c, k)
    <3>1. i \in k + 1 .. m /\ i - 1 \in Nat
      BY <1>1, <1>2
    <3>2. \A j \in k + 1 .. i - 1 : fn.blocks[c][j].res # v
      BY <1>4, <2>3, <3>1
    <3>3. QED
      BY <2>1, <2>3, <3>1, <3>2 DEF LiveAfter, m
  <2>4. QED
    BY <1>3, <2>2, <2>3 DEF LiveAfter, m
<1>6. fn.blocks[c][k].res # v
  <2>1. k \in k .. p
    BY <1>1, <1>2
  <2>2. QED
    BY <2>1 DEF p
<1>7. CASE Allocated(fn.blocks[c][k].res)
  BY <1>1, <1>5, <1>6, <1>7, DefinitionApart
<1>8. CASE ~Allocated(fn.blocks[c][k].res)
  BY <1>8 DEF Allocated
<1>9. QED
  BY <1>7, <1>8

LEMMA BranchPlaces ==
  ASSUME Compiled, Course, Stored, Unaffected, Placement, NEW c \in Blocks(fn), Branch(c)
  PROVE  Placement'
<1> DEFINE b == pc[1]
           n == Len(fn.blocks[b])
<1>1. /\ stage = "running" /\ stage' = "running" /\ stage \in Running /\ MachineNext
      /\ fn' = fn /\ regOf' = regOf /\ Ready /\ c \in Succs(fn, b)
      /\ pc[2] \in DOMAIN fn.blocks[b] /\ pc' = <<c, 0 + 1>>
      /\ At(fn, pc).op \in {"br", "condbr"}
  <2>1. pc' = <<c, 1>> /\ 0 + 1 = 1
    BY DEF Branch
  <2>2. MachineNext
    BY DEF MachineNext
  <2>3. QED
    BY <2>1, <2>2 DEF Branch, AtInst, compiler, livenessVars, allocVars, Running, InBody, Placement
<1>2. /\ fn \in Functions /\ b \in Blocks(fn) /\ pc = <<b, pc[2]>> /\ pc[2] = n
      /\ At(fn, pc) = fn.blocks[b][pc[2]] /\ pc[2] \in Nat
  <2>1. /\ fn \in Functions /\ b \in Blocks(fn) /\ pc = <<b, pc[2]>>
        /\ At(fn, pc) = fn.blocks[b][pc[2]] /\ pc[2] \in Nat
    BY <1>1, HereIsSite
  <2>2. pc[2] = n
    BY <1>1, <2>1, InstructionFacts
  <2>3. QED
    BY <2>1, <2>2
<1> HIDE DEF n
<1>3. InPlace(Wanted(b, n - 1) \cup Literals)
  BY <1>1, <1>2, ReadyHere
<1>4. /\ LastPhi(c) \in Nat /\ LastPhi(c) <= Len(fn.blocks[c])
      /\ \A j \in DOMAIN fn.blocks[c] : fn.blocks[c][j].op = "phi" => j <= LastPhi(c)
      /\ \A j \in 1 .. LastPhi(c) : j \in PhiSites(fn, c)
  <2>1. \A j \in 1 .. LastPhi(c) : j \in DOMAIN fn.blocks[c] /\ j <= LastPhi(c)
    BY <1>2, PhisFirst, FunctionShape
  <2>2. QED
    BY <1>2, <2>1, PhisFirst
<1>5. \A k \in PhiSites(fn, c) :
        /\ <<c, k>> \in Sites(fn) /\ At(fn, <<c, k>>) = fn.blocks[c][k] /\ k \in Nat /\ k >= 1
        /\ fn.blocks[c][k] \in Phis(fn, c) /\ k <= LastPhi(c)
        /\ fn.blocks[c][k].res \in SsaValues(fn) /\ fn.blocks[c][k].res # NoValue
        /\ HasIncoming(fn.blocks[c][k], b)
  <2>1. ASSUME NEW k \in PhiSites(fn, c) PROVE k <= LastPhi(c)
    <3>1. k \in DOMAIN fn.blocks[c] /\ fn.blocks[c][k].op = "phi"
      BY <1>2, PhiFacts DEF PhiSites
    <3>2. QED
      BY <1>4, <3>1
  <2>2. QED
    BY <1>1, <1>2, <2>1, PhiFacts
<1>6. ASSUME NEW j \in PhiSites(fn, c), NEW k \in PhiSites(fn, c),
             fn.blocks[c][j].res = fn.blocks[c][k].res
      PROVE  j = k
  <2>1. <<c, j>> = <<c, k>>
    BY <1>2, <1>5, <1>6, OneDefinition
  <2>2. QED
    BY <2>1
<1>7. Writes(PhiRegs(c), PhiWords(c), PhiResults(c))
  BY BranchWrites
<1>8. \A c0 \in Literals : c0 \in Contents(c0)'
  <2>1. PhiResults(c) \subseteq SsaValues(fn)
    BY <1>5 DEF PhiResults, Phis
  <2>2. \A r \in PhiRegs(c) : \E v \in SsaValues(fn) : r = regOf[v]
    BY <1>5 DEF PhiRegs, PhiToRegister, PhiAt
  <2>3. InPlace(Literals)
    BY <1>3 DEF InPlace
  <2>4. QED
    BY <1>1, <1>7, <2>1, <2>2, <2>3, LiteralsSurvive
<1>9. ASSUME NEW v \in Wanted(c, 0), v \notin PhiResults(c) PROVE v \in Contents(v)'
  <2>1. v \in SsaValues(fn) /\ (Allocated(v) \/ InFrame(v))
    BY <1>1, WantedPlace
  <2>2. v \in Contents(v)
    <3>1. v \in Wanted(b, n - 1)
      BY <1>1, <1>2, <1>9, WantedAcrossEdge DEF Unaffected, n
    <3>2. QED
      BY <1>3, <3>1 DEF InPlace
  <2>3. ASSUME Allocated(v) PROVE regOf[v] \notin PhiRegs(c)
    <3>1. SUFFICES ASSUME NEW k \in PhiSites(fn, c), regOf[fn.blocks[c][k].res] = regOf[v]
                   PROVE  FALSE
      BY DEF PhiRegs, PhiToRegister, PhiAt
    <3>2. \A j \in k .. LastPhi(c) : j \in PhiSites(fn, c)
      <4>1. k \in Nat /\ k >= 1
        BY <1>5
      <4>2. \A j \in k .. LastPhi(c) : j \in 1 .. LastPhi(c)
        BY <1>4, <4>1
      <4>3. QED
        BY <1>4, <4>2
    <3>3. \A j \in k .. LastPhi(c) : fn.blocks[c][j].res # v
      BY <1>5, <1>9, <3>2 DEF PhiResults
    <3>4. QED
      BY <1>1, <2>3, <3>1, <3>3, PhisApart DEF Unaffected
  <2>4. ASSUME InFrame(v) PROVE Word(v) \notin PhiWords(c)
    <3>1. SUFFICES ASSUME Word(v) \in PhiWords(c) PROVE FALSE
      OBVIOUS
    <3>2. PICK k \in PhiSites(fn, c) : v = PhiAt(c, k).res
      BY <1>1, <2>4, <3>1, PhiWordsWhere
    <3>3. QED
      BY <1>5, <1>9, <3>2 DEF PhiResults, PhiAt
  <2>5. QED
    BY <1>1, <1>7, <1>9, <2>1, <2>2, <2>3, <2>4, Survives
<1>10. ASSUME NEW v \in Wanted(c, 0), v \in PhiResults(c) PROVE v \in Contents(v)'
  <2>1. PICK k \in PhiSites(fn, c) : v = fn.blocks[c][k].res
    BY <1>10 DEF PhiResults, Phis
  <2> DEFINE phi == fn.blocks[c][k]
             u == Incoming(phi, b)
  <2>2. phi \in Phis(fn, c) /\ phi.res = v /\ PhiAt(c, k) = phi
    BY <1>5, <2>1 DEF PhiAt
  <2>3. u \in Contents(u)
    <3>1. u \in EdgeReads(b)
      <4>1. phi \in {q \in Phis(fn, c) : HasIncoming(q, b)}
        BY <1>5, <2>2
      <4>2. u \in {Incoming(q, b) : q \in {q \in Phis(fn, c) : HasIncoming(q, b)}}
        BY <4>1
      <4> HIDE DEF phi, u
      <4>3. QED
        BY <1>1, <4>2 DEF EdgeReads
    <3>2. u \in Wanted(b, n - 1) \cup Literals
      BY <1>1, <1>2, <3>1, EdgeReadsWanted DEF Unaffected, n
    <3>3. QED
      BY <1>3, <3>2 DEF InPlace
  <2>4. ASSUME NEW contents, NEW phis \in SUBSET PhiSites(fn, c), k \in phis, \A j \in phis : j <= k
        PROVE  v \in Received(c, phis, contents)
    <3>1. Max(phis) = k
      <4>1. Max(phis) \in phis /\ \A j \in phis : j <= Max(phis)
        BY <1>2, <2>4, LastPhiOf
      <4>2. Max(phis) \in Nat /\ k \in Nat
        BY <1>5, <4>1
      <4>3. Max(phis) <= k /\ k <= Max(phis)
        BY <2>4, <4>1
      <4>4. QED
        BY <4>2, <4>3
    <3>2. Received(c, phis, contents) = Renamed(Contents(u), b, c)
      BY <2>2, <2>4, <3>1 DEF Received
    <3>3. v \in Renamed(Contents(u), b, c)
      BY <2>2, <2>3 DEF Renamed
    <3>4. QED
      BY <3>2, <3>3
  <2> HIDE DEF phi, u
  <2>5. v \in SsaValues(fn) /\ v # NoValue /\ v \notin Literals /\ (Allocated(v) \/ InFrame(v))
    BY <1>1, WantedPlace, ValuesAndNames
  <2>6. CASE Allocated(v)
    <3> DEFINE phis == PhiToRegister(c, regOf[v])
    <3>1. k \in phis /\ phis \subseteq PhiSites(fn, c)
      BY <2>1 DEF PhiToRegister, PhiAt
    <3>2. ASSUME NEW j \in phis PROVE j <= k
      <4>1. SUFFICES ASSUME ~(j <= k) PROVE FALSE
        OBVIOUS
      <4>2. j \in PhiSites(fn, c) /\ regOf[fn.blocks[c][j].res] = regOf[v]
        BY <3>2 DEF PhiToRegister, PhiAt
      <4>3. \A i \in j .. LastPhi(c) : i \in 1 .. LastPhi(c) /\ i # k
        <5>1. j \in Nat /\ k \in Nat /\ k >= 1 /\ j > k
          <6>1. j \in Nat /\ k \in Nat /\ k >= 1
            BY <1>5, <4>2
          <6>2. QED
            BY <4>1, <6>1
        <5>2. QED
          BY <1>4, <5>1
      <4>4. \A i \in j .. LastPhi(c) : fn.blocks[c][i].res # v
        BY <1>4, <1>6, <2>1, <4>3
      <4>5. QED
        BY <1>1, <2>6, <4>2, <4>4, PhisApart DEF Unaffected
    <3>3. regOf[v] \in DOMAIN reg
      BY <2>5, <2>6, ValuesAndNames DEF Stored
    <3>4. reg'[regOf[v]] = Received(c, phis, reg[regOf[v]])
      BY <3>3 DEF Branch
    <3> HIDE DEF phis
    <3>5. v \in reg'[regOf[v]]
      BY <2>4, <3>1, <3>2, <3>4
    <3>6. QED
      BY <1>1, <2>6, <3>5, ContentsNext
  <2>7. CASE ~Allocated(v)
    <3> DEFINE w == Word(v)
               phis == PhiToWord(c, w)
    <3>1. \A j \in PhiSites(fn, c) :
            /\ ~Allocated(fn.blocks[c][j].res) =>
                 /\ InFrame(fn.blocks[c][j].res)
                 /\ SlotOffset(fn.blocks[c][j].res) = Word(fn.blocks[c][j].res)
                 /\ Word(fn.blocks[c][j].res) \in Words /\ ParamBase <= Word(fn.blocks[c][j].res)
            /\ TempBase + j - 1 < ParamBase
      BY <1>1, <2>2, <2>7, PhiPlaces DEF PhiAt
    <3>2. phis = {j \in PhiSites(fn, c) :
                    \/ w = TempBase + j - 1
                    \/ ~Allocated(fn.blocks[c][j].res) /\ w = SlotOffset(fn.blocks[c][j].res)}
      BY <2>2, <2>7 DEF PhiToWord, PhiAt
    <3>3. w = SlotOffset(v) /\ w \in Words /\ ParamBase <= w
      BY <2>1, <2>7, <3>1
    <3>4. k \in phis /\ phis \subseteq PhiSites(fn, c)
      BY <2>1, <2>7, <3>2, <3>3
    <3>5. ASSUME NEW j \in phis PROVE j <= k
      <4>1. j \in PhiSites(fn, c) /\ j \in Nat
        BY <1>5, <3>4
      <4>2. w # TempBase + j - 1
        <5>1. w \in Nat /\ TempBase + j - 1 < ParamBase /\ TempBase \in Nat /\ ParamBase \in Nat
          BY <1>2, <3>1, <3>3, <4>1, BasesInOrder DEF Words
        <5> HIDE DEF w
        <5>2. QED
          BY <3>3, <4>1, <5>1
      <4>3. InFrame(fn.blocks[c][j].res) /\ Word(fn.blocks[c][j].res) = w
        BY <3>1, <3>2, <4>1, <4>2
      <4>4. fn.blocks[c][j].res = v
        BY <1>2, <2>5, <2>7, <4>3, WordsApart
      <4>5. j = k
        BY <1>6, <2>1, <4>1, <4>4
      <4>6. QED
        BY <4>1, <4>5
    <3>6. w \in DOMAIN mem
      BY <1>1, <3>3 DEF Course
    <3>7. mem'[w] = Received(c, phis, mem[w])
      BY <3>6 DEF Branch
    <3> HIDE DEF phis
    <3>8. v \in mem'[w]
      BY <2>4, <3>4, <3>5, <3>7
    <3>9. QED
      BY <1>1, <2>5, <2>7, <3>8, ContentsNext
  <2>8. QED
    BY <2>6, <2>7
<1>11. QED
  BY <1>1, <1>8, <1>9, <1>10, RunningPlaced

-----------------------------------------------------------------------------
(* The end of the function, and the whole of its execution. *)

LEMMA ReturnPlaces ==
  ASSUME Compiled, Course, Stored, Unaffected, Placement, Return
  PROVE  Placement'
<1>1. /\ stage = "running" /\ stage' = "returned" /\ fn' = fn /\ pc' = pc /\ Ready
      /\ pc[2] \in DOMAIN fn.blocks[pc[1]] /\ At(fn, pc).op = "ret"
      /\ DOMAIN reg = Registers \cup {Ra}
  BY DEF Return, Leave, AtInst, Placement, Stored
<1>2. /\ fn \in Functions /\ pc \in Sites(fn) /\ pc[1] \in Blocks(fn) /\ pc = <<pc[1], pc[2]>>
  BY <1>1, HereIsSite
<1>3. ASSUME NEW v \in ToSet(At(fn, pc).args) PROVE v \in reg'[ARegs[1]]
  <2>1. At(fn, pc).args \in Seq(SsaValues(fn) \cup Literals) /\ Len(At(fn, pc).args) <= 1
    BY <1>1, <1>2, FunctionsWellFormed DEF Shaped
  <2>2. PICK i \in DOMAIN At(fn, pc).args : At(fn, pc).args[i] = v
    BY <1>3 DEF ToSet
  <2>3. i = 1
    BY <2>1, <2>2
  <2>4. At(fn, pc).args # << >> /\ v = At(fn, pc).args[1]
    BY <2>2, <2>3
  <2>5. v \in Contents(v)
    <3>1. v \in Reads(pc)
      BY <1>1, <1>3 DEF Reads, FusedCompare, LeftToBranch
    <3>2. v \in Wanted(pc[1], pc[2] - 1) \cup Literals
      BY <1>1, <1>2, <3>1, ReadsWanted
    <3>3. QED
      BY <1>1, <3>2, ReadyHere DEF InPlace
  <2>6. ARegs[1] \in DOMAIN reg /\ ARegs[1] \notin UsedCalleeSaved /\ ARegs[1] # Ra
    BY <1>1, RegisterFacts DEF UsedCalleeSaved
  <2>7. reg'[ARegs[1]] = Contents(v)
    BY <2>4, <2>6 DEF Return, Leave
  <2>8. QED
    BY <2>5, <2>7
<1>4. QED
  BY <1>1, <1>3 DEF Placement, ParamsOnTheWay

LEMMA MachinePlaces ==
  ASSUME Compiled, Course, Stored, Unaffected, Placement, MachineNext
  PROVE  Placement'
<1>1. CASE GiveUp
  BY <1>1 DEF GiveUp, Placement, ParamsOnTheWay
<1>2. CASE FallIntoExit
  <2>1. /\ stage' = "returned" /\ fn' = fn /\ pc' = pc /\ pc[2] = Len(fn.blocks[pc[1]]) + 1
    BY <1>2 DEF FallIntoExit, Leave
  <2>2. DOMAIN fn.blocks[pc[1]] = 1 .. Len(fn.blocks[pc[1]]) /\ Len(fn.blocks[pc[1]]) \in Nat
    BY FunctionShape, ValuesAndNames DEF Course
  <2>3. pc[2] \notin DOMAIN fn.blocks[pc[1]]
    BY <2>1, <2>2
  <2>4. QED
    BY <2>1, <2>3 DEF Placement, ParamsOnTheWay
<1>3. ASSUME NEW c \in Blocks(fn), FallInto(c) PROVE FALSE
  <2>1. /\ stage = "running" /\ pc[2] = Len(fn.blocks[pc[1]]) + 1 /\ Following(pc[1]) # 0
        /\ pc[1] \in Blocks(fn)
    BY <1>3 DEF FallInto, Course
  <2>2. DOMAIN fn.blocks[pc[1]] = 1 .. Len(fn.blocks[pc[1]]) /\ Len(fn.blocks[pc[1]]) \in Nat
    BY <2>1, FunctionShape, ValuesAndNames
  <2>3. pc[2] \notin DOMAIN fn.blocks[pc[1]]
    BY <2>1, <2>2
  <2>4. QED
    BY <2>1, <2>3 DEF Course, Unaffected, OpenBlocksEnd
<1>4. ParamsMoveApart /\ ParamsOnTheWay
  BY DEF Unaffected, Placement
<1>5. QED
  BY <1>1, <1>2, <1>3, <1>4, EnterPlaces, MovePlaces, EnterBodyPlaces, ComputePlaces, QuietPlaces,
     StackArgumentsPlaces, RegisterArgumentsPlaces, CalleeReturnsPlaces, BranchPlaces, ReturnPlaces
     DEF MachineNext

LEMMA NothingMoves ==
  ASSUME UNCHANGED vars
  PROVE  Placement' = Placement /\ ParamsOnTheWay' = ParamsOnTheWay
<1>1. /\ fn' = fn /\ regOf' = regOf /\ stage' = stage /\ reg' = reg /\ mem' = mem
      /\ pc' = pc /\ moved' = moved
  BY DEF vars, compiler, machine, livenessVars, allocVars
<1>2. \A b, i : Wanted(b, i)' = Wanted(b, i)
  BY PlacesStay
<1>3. ASSUME NEW v PROVE Contents(v)' = Contents(v)
  <2>1. /\ Allocated(v)' = Allocated(v) /\ ParamIndex(v)' = ParamIndex(v)
        /\ ParamOffset(v)' = ParamOffset(v) /\ SlotOffset(v)' = SlotOffset(v)
        /\ StackParamOffset(ParamIndex(v))' = StackParamOffset(ParamIndex(v))
    BY <1>1, FrameStays DEF StackParamOffset
  <2>2. QED
    BY <1>1, <2>1 DEF Contents
<1>4. \A i : Delivered(i)' = Delivered(i)
  <2>1. \A i : StackParamOffset(i)' = StackParamOffset(i)
    BY <1>1, FrameStays
  <2>2. QED
    BY <1>1, <1>3, <2>1 DEF Delivered
<1>5. StackArgumentsPlaced' = StackArgumentsPlaced /\ CalleeSeesArguments' = CalleeSeesArguments
  BY <1>1 DEF StackArgumentsPlaced, CalleeSeesArguments
<1>6. Ready' = Ready /\ ReadyBehind' = ReadyBehind
  BY <1>1, <1>2, <1>3 DEF Ready, ReadyBehind, InPlace
<1>7. ParamsOnTheWay' = ParamsOnTheWay
  BY <1>1, <1>4 DEF ParamsOnTheWay
<1>8. QED
  BY <1>1, <1>5, <1>6, <1>7 DEF Placement

LEMMA NextPlaces ==
  Compiled /\ Course /\ Stored /\ (Unaffected => Placement) /\ [Next]_vars
    => (Unaffected => Placement)'
<1> SUFFICES ASSUME Compiled, Course, Stored, Unaffected => Placement, [Next]_vars, Unaffected'
             PROVE  Placement'
  OBVIOUS
<1>1. CASE MachineNext
  BY <1>1, PlacesStay, MachinePlaces
<1>2. CASE AllocNext /\ UNCHANGED machine
  BY <1>2, AllocMoves DEF Placement, ParamsOnTheWay, Compiling
<1>3. CASE UNCHANGED vars
  BY <1>3, PlacesStay, NothingMoves
<1>4. QED
  BY <1>1, <1>2, <1>3 DEF Next, MachineNext, Over

\* The parameters arrive whatever goes wrong elsewhere.
LEMMA NextOnTheWay ==
  Compiled /\ Course /\ Stored /\ (ParamsMoveApart => ParamsOnTheWay) /\ [Next]_vars
    => (ParamsMoveApart => ParamsOnTheWay)'
<1> SUFFICES ASSUME Compiled, Course, Stored, ParamsMoveApart => ParamsOnTheWay, [Next]_vars,
                    ParamsMoveApart'
             PROVE  ParamsOnTheWay'
  OBVIOUS
<1>1. CASE MachineNext
  <2>1. ParamsMoveApart /\ ParamsOnTheWay
    BY <1>1, PlacesStay
  <2>2. CASE Enter \/ \E i \in 1 .. Len(fn.params) :
                        MoveParamToRegister(i) \/ MoveParamHome(i) \/ LeaveParam(i)
    <3>1. Placement'
      BY <2>1, <2>2, EnterPlaces, MovePlaces
    <3>2. QED
      BY <3>1 DEF Placement
  <2>3. CASE \/ GiveUp \/ EnterBody
             \/ Compute \/ Defer \/ LoadLocal \/ SetLocal \/ Pass
             \/ StackArguments \/ RegisterArguments \/ CalleeReturns
             \/ \E c \in Blocks(fn) : Branch(c) \/ FallInto(c)
             \/ Return \/ FallIntoExit
    <3>1. stage' # "prologue"
      BY <2>3 DEF GiveUp, EnterBody, Compute, Defer, LoadLocal, SetLocal, Pass, AtInst, compiler,
                  livenessVars, StackArguments, RegisterArguments, CalleeReturns, Branch, FallInto,
                  Return, FallIntoExit, Leave
    <3>2. QED
      BY <3>1 DEF ParamsOnTheWay
  <2>4. QED
    BY <1>1, <2>2, <2>3 DEF MachineNext
<1>2. CASE AllocNext /\ UNCHANGED machine
  BY <1>2, AllocMoves DEF ParamsOnTheWay, Compiling
<1>3. CASE UNCHANGED vars
  BY <1>3, PlacesStay, NothingMoves
<1>4. QED
  BY <1>1, <1>2, <1>3 DEF Next, MachineNext, Over

LEMMA ExecutionAlways ==
  Spec => [](/\ Compiled /\ Course /\ Stored /\ CallerKept
             /\ Unaffected => Placement
             /\ ParamsMoveApart => ParamsOnTheWay)
<1>1. Init => (Unaffected => Placement) /\ (ParamsMoveApart => ParamsOnTheWay)
  BY DEF Init, AllocInit, LivenessInit, Placement, ParamsOnTheWay
<1>2. QED
  BY <1>1, CallerKeptAlways, NextPlaces, NextOnTheWay, PTL DEF Spec

LEMMA PrologueDelivers ==
  ASSUME Compiled, ParamsOnTheWay
  PROVE  ParamsDelivered
<1> SUFFICES ASSUME stage = "prologue", moved = Len(fn.params), NEW v \in Params(fn), Uses(fn, v) # {}
             PROVE  v \in Contents(v)
  BY DEF ParamsDelivered
<1> DEFINE i == ParamIndex(v)
<1>1. i \in DOMAIN fn.params /\ fn.params[i] = v /\ DOMAIN fn.params = 1 .. Len(fn.params)
  BY ValuesAndNames, ParamsNumbered DEF ParamIndex
<1>2. i <= moved
  BY <1>1, ValuesAndNames, ParamsNumbered
<1>3. Uses(fn, fn.params[i]) # {} => Delivered(i)
  BY <1>1 DEF ParamsOnTheWay
<1> HIDE DEF i
<1>4. QED
  BY <1>1, <1>2, <1>3 DEF Delivered

LEMMA PlacementIsEnough ==
  ASSUME Compiled, Course, CallerKept, Unaffected, Placement
  PROVE  OperandsIntact /\ ParamsDelivered /\ CalleeSeesArguments /\ ReturnsCleanly
<1>1. OperandsIntact
  <2>1. SUFFICES ASSUME stage = "running", pc[2] \in DOMAIN fn.blocks[pc[1]],
                        NEW v, v \in Reads(pc) \/ (At(fn, pc).op \in {"br", "condbr"} /\ v \in EdgeReads(pc[1]))
                 PROVE  v \in Contents(v)
    BY DEF OperandsIntact
  <2>2. /\ pc[1] \in Blocks(fn) /\ pc = <<pc[1], pc[2]>> /\ At(fn, pc) = fn.blocks[pc[1]][pc[2]]
        /\ Ready /\ stage \in Running
    BY <2>1, HereIsSite DEF Placement, Running, InBody
  <2>3. CASE v \in Reads(pc)
    BY <2>1, <2>2, <2>3, ReadsWanted, ReadyHere DEF InPlace
  <2>4. CASE At(fn, pc).op \in {"br", "condbr"} /\ v \in EdgeReads(pc[1])
    <3>1. pc[2] = Len(fn.blocks[pc[1]])
      BY <2>1, <2>2, <2>4, InstructionFacts
    <3>2. v \in Wanted(pc[1], pc[2] - 1) \cup Literals
      BY <2>2, <2>4, <3>1, EdgeReadsWanted DEF Unaffected
    <3>3. QED
      BY <2>2, <3>2, ReadyHere DEF InPlace
  <2>5. QED
    BY <2>1, <2>3, <2>4
<1>2. ParamsDelivered
  BY PrologueDelivers DEF Placement
<1>3. CalleeSeesArguments
  BY DEF Placement, CalleeSeesArguments
<1>4. ReturnsCleanly
  BY DEF Placement, CallerKept, ReturnsCleanly
<1>5. QED
  BY <1>1, <1>2, <1>3, <1>4

\* Without -opt only the order of the blocks in the output can be wrong, for a
\* function with an open block that is not the last one.
LEMMA UnoptimisedUnaffected ==
  ASSUME Compiled,
         ~fn.opt, \A b \in Blocks(fn) : ~Terminated(fn, b) => b = Len(fn.blocks)
  PROVE  Unaffected
<1>1. fn \in Functions /\ \A v \in SsaValues(fn) \cup Literals : regOf[v] = NoReg
  BY ValuesAndNames DEF Compiled, NothingUnasked
<1>2. LivenessCovers
  BY DEF LivenessCovers, Analysed
<1>3. NeighboursApart
  <2>1. \A u \in Candidates(fn) : regOf[u] = NoReg
    BY <1>1, CandidatesAreValues
  <2>2. QED
    BY <2>1 DEF NeighboursApart
<1>4. ComparisonsKept
  <2>1. \A s \in Sites(fn) : \A v \in ToSet(At(fn, s).args) : v \in SsaValues(fn) \cup Literals
    BY <1>1, OperandsAreNames DEF ToSet
  <2>2. QED
    BY <1>1, <2>1 DEF ComparisonsKept, Allocated
<1>5. ParamsMoveApart
  <2>1. \A i \in DOMAIN fn.params : fn.params[i] \in SsaValues(fn)
    BY <1>1, ParamsNumbered DEF SsaValues
  <2>2. QED
    BY <1>1, <2>1 DEF ParamsMoveApart, Allocated
<1>6. OpenBlocksEnd
  <2>1. SUFFICES ASSUME NEW b \in Blocks(fn), b = Len(fn.blocks) PROVE Following(b) = 0
    BY DEF OpenBlocksEnd
  <2> DEFINE order == [i \in 1 .. Len(fn.blocks) |-> i]
  <2>2. Layout(fn) = order
    BY DEF Layout
  <2>3. b \in 1 .. Len(fn.blocks) /\ Len(fn.blocks) \in Nat
    BY <1>1, <2>1, BlocksInOrder DEF Blocks
  <2>4. IndexOf(order, b) = b
    BY <2>3 DEF IndexOf
  <2>5. Len(order) = Len(fn.blocks)
    BY <2>3
  <2> HIDE DEF order
  <2>6. ~(IndexOf(order, b) < Len(order))
    BY <2>1, <2>3, <2>4, <2>5
  <2>7. QED
    BY <2>2, <2>6 DEF Following
<1>7. QED
  BY <1>2, <1>3, <1>4, <1>5, <1>6 DEF Unaffected

\* The prologue moves the parameters one at a time, and each of them that is
\* read arrives where the body looks for it, unless one overwrites another on
\* the way; nothing else that allocation does can hinder it.
THEOREM ParamsArrive == Spec => [](ParamsMoveApart => ParamsDelivered)
<1>1. Compiled /\ (ParamsMoveApart => ParamsOnTheWay) => (ParamsMoveApart => ParamsDelivered)
  BY PrologueDelivers
<1>2. QED
  BY <1>1, ExecutionAlways, PTL

\* Whatever path leads to an instruction, and whatever was spilled, moved or
\* called on the way, the code reads the current values of its operands, in
\* every function that meets none of the known conditions.
THEOREM OperandsAlwaysIntact == Spec => [](Unaffected => OperandsIntact)
<1>1. Compiled /\ Course /\ CallerKept /\ (Unaffected => Placement)
        => (Unaffected => OperandsIntact)
  BY PlacementIsEnough
<1>2. QED
  BY <1>1, ExecutionAlways, PTL

\* So does the callee: it finds each argument where the calling convention has
\* it, however many there are.
THEOREM ArgumentsArrive == Spec => [](Unaffected => CalleeSeesArguments)
<1>1. Compiled /\ Course /\ CallerKept /\ (Unaffected => Placement)
        => (Unaffected => CalleeSeesArguments)
  BY PlacementIsEnough
<1>2. QED
  BY <1>1, ExecutionAlways, PTL

\* And the caller: it finds the result in a0, next to what CallerGetsBack says.
THEOREM ResultReturned == Spec => [](Unaffected => ReturnsCleanly)
<1>1. Compiled /\ Course /\ CallerKept /\ (Unaffected => Placement)
        => (Unaffected => ReturnsCleanly)
  BY PlacementIsEnough
<1>2. QED
  BY <1>1, ExecutionAlways, PTL

\* Without -opt none of the conditions can be met but the one on open blocks:
\* everything the lowering has to do is right for every function in which no
\* block but the last is open.
THEOREM UnoptimisedIsRight ==
  Spec => [](~fn.opt /\ (\A b \in Blocks(fn) : ~Terminated(fn, b) => b = Len(fn.blocks))
               => OperandsIntact /\ ParamsDelivered /\ CalleeSeesArguments /\ ReturnsCleanly)
<1>1. Compiled /\ Course /\ CallerKept /\ (Unaffected => Placement)
        => (~fn.opt /\ (\A b \in Blocks(fn) : ~Terminated(fn, b) => b = Len(fn.blocks))
              => OperandsIntact /\ ParamsDelivered /\ CalleeSeesArguments /\ ReturnsCleanly)
  BY UnoptimisedUnaffected, PlacementIsEnough
<1>2. QED
  BY <1>1, ExecutionAlways, PTL
=============================================================================
