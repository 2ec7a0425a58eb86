--------------------------- MODULE DominatorsProofs ---------------------------
(***************************************************************************)
(* The dominator tree and the dominance frontiers mem2reg starts from are  *)
(* right for every function whose blocks can all be reached.               *)
(*                                                                         *)
(*   1. The search numbers every block, and each but the entry below one   *)
(*      that leads to it.  So in every sweep a block has a predecessor     *)
(*      that had its turn before, and a block's dominators have higher     *)
(*      numbers than the block.                                            *)
(*   2. While the tree is built, climbing from a block leaves out none of  *)
(*      its dominators (Tree): the lower of two blocks that intersect      *)
(*      climbs from cannot dominate the other, so the dominators of both   *)
(*      are above the next one.  Numbers go up, so the climb ends.         *)
(*   3. A sweep that has changed nothing leaves each block directly above  *)
(*      all its predecessors' common dominators.  Then the blocks a climb  *)
(*      does not come through can be avoided on a path, and being above    *)
(*      and dominating are the same.                                       *)
(*   4. The climb from an edge into a join comes through the dominators of *)
(*      the edge's source that do not strictly dominate the join.          *)
(*                                                                         *)
(* Dominance is defined by paths of bounded length; that the bound is no   *)
(* restriction is a fact about sets that grow (RecursionFacts).            *)
(*                                                                         *)
(* The second half is what the renaming is given: the tree and its         *)
(* children, the variables, and the phis, which stand at the heads of      *)
(* blocks and are closed under the frontiers (Known, Inserting).           *)
(***************************************************************************)
EXTENDS Mem2Reg, RecursionFacts

-----------------------------------------------------------------------------
(* Sequences, and what the paths of a function are. *)

\* The members of two sequences joined.
LEMMA MembersOfBoth ==
  ASSUME NEW S, NEW s \in Seq(S), NEW t \in Seq(S)
  PROVE  ToSet(s \o t) = ToSet(s) \cup ToSet(t)
<1>1. ASSUME NEW x \in ToSet(s \o t) PROVE x \in ToSet(s) \cup ToSet(t)
  <2>1. PICK i \in 1 .. Len(s) + Len(t) : x = (s \o t)[i]
    BY DEF ToSet
  <2>2. CASE i <= Len(s)
    BY <2>1, <2>2 DEF ToSet
  <2>3. CASE i > Len(s)
    <3>1. x = t[i - Len(s)] /\ i - Len(s) \in 1 .. Len(t)
      BY <2>1, <2>3
    <3>2. QED
      BY <3>1 DEF ToSet
  <2>4. QED
    BY <2>2, <2>3
<1>2. ASSUME NEW i \in 1 .. Len(s) PROVE s[i] \in ToSet(s \o t)
  <2>1. i \in 1 .. Len(s \o t) /\ (s \o t)[i] = s[i]
    OBVIOUS
  <2>2. QED
    BY <2>1 DEF ToSet
<1>3. ASSUME NEW i \in 1 .. Len(t) PROVE t[i] \in ToSet(s \o t)
  <2>1. Len(s) + i \in 1 .. Len(s \o t) /\ (s \o t)[Len(s) + i] = t[i]
    OBVIOUS
  <2>2. QED
    BY <2>1 DEF ToSet
<1>4. DOMAIN s = 1 .. Len(s) /\ DOMAIN t = 1 .. Len(t)
  OBVIOUS
<1>5. ToSet(s) \subseteq ToSet(s \o t) /\ ToSet(t) \subseteq ToSet(s \o t)
  BY <1>2, <1>3, <1>4 DEF ToSet
<1>6. QED
  BY <1>1, <1>5

\* FlattenSeq keeps all members and adds none.
LEMMA Flattened ==
  ASSUME NEW S, NEW ss \in Seq(Seq(S))
  PROVE  /\ FlattenSeq(ss) \in Seq(S)
         /\ ToSet(FlattenSeq(ss)) = UNION {ToSet(ss[i]) : i \in DOMAIN ss}
<1>1. CASE Len(ss) = 0
  <2>1. FlattenSeq(ss) = ss /\ DOMAIN ss = {} /\ ss = << >>
    BY <1>1 DEF FlattenSeq
  <2>2. QED
    BY <2>1 DEF ToSet
<1>2. CASE Len(ss) # 0
  <2> DEFINE N == Len(ss)
             V == Seq(S)
             Body(g) == [i \in 1 .. N |-> IF i = 1 THEN ss[i] ELSE g[i - 1] \o ss[i]]
             w == CHOOSE g : g = Body(g)
  <2>1. N \in Nat \ {0} /\ DOMAIN ss = 1 .. N /\ \A i \in 1 .. N : ss[i] \in V
    BY <1>2
  <2>2. FlattenSeq(ss) = w[N]
    BY <1>2 DEF FlattenSeq
  <2>3. \E g : g = Body(g)
    <3> DEFINE step == [p \in (1 .. N) \X V |-> IF p[1] = 1 THEN ss[1] ELSE p[2] \o ss[p[1]]]
    <3>1. step \in [(1 .. N) \X V -> V]
      <4>1. ASSUME NEW p \in (1 .. N) \X V PROVE (IF p[1] = 1 THEN ss[1] ELSE p[2] \o ss[p[1]]) \in V
        <5>1. p[1] \in 1 .. N /\ p[2] \in V /\ ss[p[1]] \in V /\ ss[1] \in V
          BY <2>1
        <5>2. QED
          BY <5>1
      <4> HIDE DEF V
      <4>2. QED
        BY <4>1
    <3> DEFINE none == << >>
    <3>2. none \in V /\ N \in Nat
      BY <2>1
    <3>3. ASSUME NEW i \in 1 .. N, NEW x \in V
          PROVE  step[<<i, x>>] = IF i = 1 THEN ss[1] ELSE x \o ss[i]
      OBVIOUS
    <3> HIDE DEF V, step, N, none
    <3>4. PICK h : Stepwise(h, N, V, none, step)
      BY <3>1, <3>2, StepByStep
    <3> DEFINE g == [i \in 1 .. N |-> h[i]]
    <3>5. ASSUME NEW i \in 1 .. N PROVE g[i] = IF i = 1 THEN ss[i] ELSE g[i - 1] \o ss[i]
      <4>1. i - 1 \in 0 .. N /\ h[i - 1] \in V
        BY <3>2, <3>4 DEF Stepwise
      <4>2. g[i] = IF i = 1 THEN ss[1] ELSE h[i - 1] \o ss[i]
        BY <3>3, <3>4, <4>1 DEF Stepwise
      <4>3. i # 1 => g[i - 1] = h[i - 1]
        BY <3>2
      <4>4. QED
        BY <4>2, <4>3
    <3>6. g = Body(g)
      BY <3>5
    <3>7. QED
      BY <3>6
  <2>4. w = Body(w)
    <3> HIDE DEF Body
    <3>1. QED
      BY <2>3
  <2>5. ASSUME NEW i \in 1 .. N PROVE w[i] = IF i = 1 THEN ss[i] ELSE w[i - 1] \o ss[i]
    <3> HIDE DEF w, N
    <3>1. Body(w)[i] = IF i = 1 THEN ss[i] ELSE w[i - 1] \o ss[i]
      OBVIOUS
    <3> HIDE DEF Body
    <3>2. QED
      BY <2>4, <3>1
  <2> HIDE DEF w, N
  <2> DEFINE All(k) == UNION {ToSet(ss[i]) : i \in 1 .. k}
             T == {k \in Nat : k \in 1 .. N => w[k] \in Seq(S) /\ ToSet(w[k]) = All(k)}
  <2>6. 0 \in T
    OBVIOUS
  <2>7. ASSUME NEW k \in Nat, k \in T PROVE k + 1 \in T
    <3>1. SUFFICES ASSUME k + 1 \in 1 .. N PROVE w[k + 1] \in Seq(S) /\ ToSet(w[k + 1]) = All(k + 1)
      OBVIOUS
    <3>2. ss[k + 1] \in Seq(S)
      BY <2>1, <3>1
    <3>3. CASE k = 0
      <4>1. w[k + 1] = ss[k + 1]
        BY <2>5, <3>1, <3>3
      <4>2. 1 .. (k + 1) = {k + 1}
        BY <3>3
      <4>3. QED
        BY <3>2, <4>1, <4>2
    <3>4. CASE k # 0
      <4>1. k \in 1 .. N /\ k + 1 # 1 /\ (k + 1) - 1 = k
        BY <2>1, <3>1, <3>4
      <4>2. w[k] \in Seq(S) /\ ToSet(w[k]) = All(k)
        BY <2>7, <4>1
      <4>3. w[k + 1] = w[k] \o ss[k + 1]
        BY <2>5, <3>1, <4>1
      <4>4. w[k + 1] \in Seq(S)
        BY <3>2, <4>2, <4>3
      <4>5. ToSet(w[k] \o ss[k + 1]) = ToSet(w[k]) \cup ToSet(ss[k + 1])
        BY <3>2, <4>2, MembersOfBoth
      <4>6. All(k + 1) = All(k) \cup ToSet(ss[k + 1])
        <5>1. 1 .. (k + 1) = (1 .. k) \cup {k + 1}
          OBVIOUS
        <5>2. QED
          BY <5>1
      <4>7. QED
        BY <4>2, <4>3, <4>4, <4>5, <4>6
    <3>5. QED
      BY <3>3, <3>4
  <2>8. \A k \in Nat : k \in T
    <3> HIDE DEF T
    <3>1. QED
      BY <2>6, <2>7, AllNaturals
  <2>9. w[N] \in Seq(S) /\ ToSet(w[N]) = All(N)
    <3>1. N \in Nat /\ N \in 1 .. N
      BY <2>1
    <3>2. N \in T
      <4> HIDE DEF T
      <4>1. QED
        BY <2>8, <3>1
    <3>3. QED
      BY <3>1, <3>2
  <2>10. QED
    BY <2>1, <2>2, <2>9
<1>3. QED
  BY <1>1, <1>2

\* What the assumptions say of a function: its blocks are numbered, the entry is
\* one of them, and edges lead to the others.
LEMMA FunctionShape ==
  ASSUME NEW f \in Functions
  PROVE  /\ Len(f.blocks) \in Nat /\ Blocks(f) = 1 .. Len(f.blocks)
         /\ Entry \in Blocks(f)
         /\ \A b \in Blocks(f) :
              /\ SuccSeq(f, b) \in Seq(Blocks(f) \ {Entry})
              /\ Succs(f, b) = ToSet(SuccSeq(f, b))
              /\ Succs(f, b) \subseteq Blocks(f) \ {Entry}
<1>1. Len(f.blocks) \in Nat /\ Blocks(f) = 1 .. Len(f.blocks)
  BY BlocksInOrder DEF Blocks
<1>2. Entry \in Blocks(f)
  BY AllReached
<1>3. ASSUME NEW b \in Blocks(f)
      PROVE  /\ SuccSeq(f, b) \in Seq(Blocks(f) \ {Entry})
             /\ Succs(f, b) = ToSet(SuccSeq(f, b))
             /\ Succs(f, b) \subseteq Blocks(f) \ {Entry}
  <2>1. SuccSeq(f, b) \in Seq(Blocks(f) \ {Entry})
    BY TargetsAreBlocks
  <2>2. Succs(f, b) = ToSet(SuccSeq(f, b))
    <3>1. ToSet(<< >>) = {}
      BY DEF ToSet
    <3>2. QED
      BY <3>1 DEF Succs, SuccSeq
  <2>3. ASSUME NEW c \in ToSet(SuccSeq(f, b)) PROVE c \in Blocks(f) \ {Entry}
    BY <2>1 DEF ToSet
  <2>4. QED
    BY <2>1, <2>2, <2>3
<1>4. QED
  BY <1>1, <1>2, <1>3

\* What is left of that, and is enough to speak of paths.
Shaped(f) ==
  /\ Len(f.blocks) \in Nat /\ Blocks(f) = 1 .. Len(f.blocks)
  /\ Entry \in Blocks(f)
  /\ \A b \in Blocks(f) : Succs(f, b) \subseteq Blocks(f) \ {Entry}

\* What the assumptions say of a function's blocks and edges.
LEMMA FunctionsShaped == \A f \in Functions : Shaped(f)
BY FunctionShape DEF Shaped

\* A function has finitely many blocks.
LEMMA BlocksFinite ==
  ASSUME NEW f, Shaped(f)
  PROVE  IsFiniteSet(Blocks(f)) /\ Cardinality(Blocks(f)) = Len(f.blocks)
<1>1. Len(f.blocks) \in Nat /\ Blocks(f) = 1 .. Len(f.blocks)
  BY DEF Shaped
<1>2. ASSUME NEW n \in Nat PROVE IsFiniteSet(1 .. n) /\ Cardinality(1 .. n) = n
  <2>1. IsFiniteSet(1 .. n) /\ Cardinality(1 .. n) = IF 1 > n THEN 0 ELSE n - 1 + 1
    BY FS_Interval
  <2>2. n = IF 1 > n THEN 0 ELSE n - 1 + 1
    OBVIOUS
  <2>3. QED
    BY <2>1, <2>2
<1>3. PICK n \in Nat : n = Len(f.blocks) /\ Blocks(f) = 1 .. n
  BY <1>1
<1>4. QED
  BY <1>2, <1>3

\* Whatever holds of the entry and is passed on along the edges holds of all
\* blocks.
LEMMA ReachedByAll ==
  ASSUME NEW f \in Functions, NEW Y \in SUBSET Blocks(f), Entry \in Y,
         \A d \in Y : Succs(f, d) \subseteq Y
  PROVE  Y = Blocks(f)
<1> DEFINE first == Succs(f, Entry)
           grow(X) == X \cup UNION {Succs(f, c) : c \in X}
           step == [X \in SUBSET Blocks(f) |-> grow(X)]
           Body(g) == [n \in Nat |-> IF n = 0 THEN first ELSE grow(g[n - 1])]
           w == CHOOSE g : g = Body(g)
<1>1. first \in SUBSET Blocks(f) /\ step \in [SUBSET Blocks(f) -> SUBSET Blocks(f)]
  <2>1. Entry \in Blocks(f) /\ \A b \in Blocks(f) : Succs(f, b) \subseteq Blocks(f)
    BY FunctionShape
  <2>2. \A X \in SUBSET Blocks(f) : grow(X) \in SUBSET Blocks(f)
    BY <2>1
  <2> HIDE DEF grow
  <2>3. step \in [SUBSET Blocks(f) -> SUBSET Blocks(f)]
    BY <2>2
  <2>4. QED
    BY <2>1, <2>3
<1>2. ASSUME NEW g, Chain(g, Blocks(f), first, step) PROVE g = Body(g)
  <2>1. ASSUME NEW n \in Nat PROVE g[n] = Body(g)[n]
    <3> HIDE DEF grow
    <3>1. CASE n = 0
      BY <1>2, <3>1 DEF Chain
    <3>2. CASE n # 0
      <4>1. n - 1 \in Nat /\ (n - 1) + 1 = n
        BY <3>2
      <4>2. g[n] = step[g[n - 1]] /\ g[n - 1] \in SUBSET Blocks(f)
        BY <1>2, <4>1 DEF Chain
      <4>3. QED
        BY <3>2, <4>2
    <3>3. QED
      BY <3>1, <3>2
  <2>2. g \in [Nat -> SUBSET Blocks(f)]
    BY <1>2 DEF Chain
  <2>3. DOMAIN Body(g) = Nat /\ Body(g) = [n \in Nat |-> Body(g)[n]]
    OBVIOUS
  <2> HIDE DEF Body
  <2>4. QED
    BY <2>1, <2>2, <2>3
<1>3. w = Body(w)
  <2> HIDE DEF Body, first, step
  <2>1. \E g : Chain(g, Blocks(f), first, step)
    BY <1>1, ChainExists
  <2>2. QED
    BY <1>2, <2>1
<1>4. ReachedFrom(f, Entry) = w[Len(f.blocks)]
  BY DEF ReachedFrom
<1> HIDE DEF w
<1> DEFINE T == {n \in Nat : w[n] \subseteq Y}
<1>5. 0 \in T
  BY <1>3
<1>6. ASSUME NEW n \in Nat, n \in T PROVE n + 1 \in T
  <2>1. n + 1 \in Nat /\ n + 1 # 0 /\ (n + 1) - 1 = n
    OBVIOUS
  <2>2. Body(w)[n + 1] = grow(w[n])
    BY <2>1
  <2>3. w[n + 1] = grow(w[n])
    <3> HIDE DEF Body, grow
    <3>1. QED
      BY <1>3, <2>2
  <2>4. grow(w[n]) \subseteq Y
    BY <1>6
  <2>5. QED
    BY <2>3, <2>4
<1>7. w[Len(f.blocks)] \subseteq Y
  <2>1. \A n \in Nat : n \in T
    <3> HIDE DEF T
    <3>1. QED
      BY <1>5, <1>6, AllNaturals
  <2>2. QED
    BY <2>1, FunctionShape
<1>8. Blocks(f) = {Entry} \cup ReachedFrom(f, Entry)
  BY AllReached
<1>9. QED
  BY <1>4, <1>7, <1>8

\* Y holds the entry and, with a block, those its edges lead to, b left out.
Closed(f, b, Y) == {Entry} \ {b} \subseteq Y /\ \A d \in Y : Succs(f, d) \ {b} \subseteq Y

\* A block dominates those that are not in the least set which holds the entry
\* and what edges lead to, itself left out.
LEMMA MissedAreLeast ==
  ASSUME NEW f, Shaped(f), NEW b
  PROVE  \E R \in SUBSET Blocks(f) :
           /\ \A c : Dominates(f, b, c) <=> c \notin R
           /\ Closed(f, b, R)
           /\ \A Y \in SUBSET Blocks(f) : Closed(f, b, Y) => R \subseteq Y
<1> DEFINE first == {Entry} \ {b}
           grow(X) == X \cup ((UNION {Succs(f, d) : d \in X}) \ {b})
           step == [X \in SUBSET Blocks(f) |-> grow(X)]
           Body(g) == [n \in Nat |-> IF n = 0 THEN first ELSE grow(g[n - 1])]
           w == CHOOSE g : g = Body(g)
           N == Len(f.blocks)
<1>1. first \in SUBSET Blocks(f) /\ step \in [SUBSET Blocks(f) -> SUBSET Blocks(f)]
  BY DEF Shaped
<1>2. ASSUME NEW g, Chain(g, Blocks(f), first, step) PROVE g = Body(g)
  <2>1. ASSUME NEW n \in Nat PROVE g[n] = Body(g)[n]
    <3> HIDE DEF grow
    <3>1. CASE n = 0
      BY <1>2, <3>1 DEF Chain
    <3>2. CASE n # 0
      <4>1. n - 1 \in Nat /\ (n - 1) + 1 = n
        BY <3>2
      <4>2. g[n] = step[g[n - 1]] /\ g[n - 1] \in SUBSET Blocks(f)
        BY <1>2, <4>1 DEF Chain
      <4>3. QED
        BY <3>2, <4>2
    <3>3. QED
      BY <3>1, <3>2
  <2>2. g \in [Nat -> SUBSET Blocks(f)]
    BY <1>2 DEF Chain
  <2>3. DOMAIN Body(g) = Nat /\ Body(g) = [n \in Nat |-> Body(g)[n]]
    OBVIOUS
  <2> HIDE DEF Body
  <2>4. QED
    BY <2>1, <2>2, <2>3
<1>3. w = Body(w)
  <2> HIDE DEF Body, first, step
  <2>1. \E g : Chain(g, Blocks(f), first, step)
    BY <1>1, ChainExists
  <2>2. QED
    BY <1>2, <2>1
<1>4. \A c : Dominates(f, b, c) <=> c \notin w[N]
  BY DEF Dominates
<1> HIDE DEF w
<1>5. Chain(w, Blocks(f), first, step)
  <2>0. Body(w)[0] = first
    OBVIOUS
  <2>1. ASSUME NEW n \in Nat PROVE w[n + 1] = grow(w[n])
    <3>1. n + 1 \in Nat /\ n + 1 # 0 /\ (n + 1) - 1 = n
      OBVIOUS
    <3>2. Body(w)[n + 1] = grow(w[n])
      BY <3>1
    <3>3. QED
      <4> HIDE DEF Body, grow
      <4>1. QED
        BY <1>3, <3>2
  <2>2. w[0] = first
    <3> HIDE DEF Body
    <3>1. QED
      BY <1>3, <2>0
  <2>3. \A n \in Nat : w[n] \in SUBSET Blocks(f)
    <3> DEFINE T == {n \in Nat : w[n] \in SUBSET Blocks(f)}
    <3>1. 0 \in T
      BY <1>1, <2>2
    <3>2. ASSUME NEW n \in Nat, n \in T PROVE n + 1 \in T
      <4>1. step[w[n]] \in SUBSET Blocks(f) /\ step[w[n]] = grow(w[n])
        BY <1>1, <3>2
      <4> HIDE DEF grow, step
      <4>2. QED
        BY <2>1, <4>1
    <3>3. QED
      <4> HIDE DEF T
      <4>1. \A n \in Nat : n \in T
        BY <3>1, <3>2, AllNaturals
      <4>2. QED
        BY <4>1 DEF T
  <2>4. DOMAIN w = Nat /\ w = [n \in Nat |-> w[n]]
    BY <1>3
  <2>5. w \in [Nat -> SUBSET Blocks(f)]
    BY <2>3, <2>4
  <2>6. ASSUME NEW n \in Nat PROVE w[n + 1] = step[w[n]]
    BY <2>1, <2>3
  <2>7. QED
    BY <2>2, <2>5, <2>6 DEF Chain
<1>6. Monotone(Blocks(f), step)
  <2>1. \A X, Y \in SUBSET Blocks(f) : X \subseteq Y => step[X] \subseteq step[Y]
    OBVIOUS
  <2>2. QED
    BY <1>1, <2>1 DEF Monotone
<1>7. first \subseteq step[first]
  BY <1>1
<1>8. N \in Nat /\ N >= Cardinality(Blocks(f)) /\ IsFiniteSet(Blocks(f))
  BY BlocksFinite DEF Shaped
<1>9. w[N] \in SUBSET Blocks(f) /\ step[w[N]] = w[N] /\ first \subseteq w[N]
  <2> HIDE DEF step, first, N
  <2>1. \A m \in Nat : m >= Cardinality(Blocks(f)) => step[w[m]] = w[m]
    <3>1. IsFiniteSet(Blocks(f))
      BY <1>8
    <3>2. QED
      BY <1>1, <1>5, <1>6, <1>7, <3>1, ChainSettles
  <2>2. \A m \in Nat : first \subseteq w[m]
    <3> DEFINE T == {m \in Nat : first \subseteq w[m]}
    <3>1. 0 \in T
      BY <1>5 DEF Chain
    <3>2. \A n \in Nat : w[n] \subseteq w[n + 1]
      BY <1>1, <1>5, <1>6, <1>7, ChainGrows
    <3>3. ASSUME NEW n \in Nat, n \in T PROVE n + 1 \in T
      BY <3>2, <3>3
    <3>4. QED
      <4> HIDE DEF T
      <4>1. \A n \in Nat : n \in T
        BY <3>1, <3>3, AllNaturals
      <4>2. QED
        BY <4>1 DEF T
  <2>3. QED
    BY <1>5, <1>8, <2>1, <2>2 DEF Chain
<1>10. Closed(f, b, w[N])
  <2>1. step[w[N]] = grow(w[N])
    BY <1>9
  <2>2. QED
    BY <1>9, <2>1 DEF Closed
<1>11. ASSUME NEW Y \in SUBSET Blocks(f), Closed(f, b, Y) PROVE w[N] \subseteq Y
  <2>1. first \subseteq Y /\ step[Y] \subseteq Y
    BY <1>11 DEF Closed
  <2> HIDE DEF step, first, N
  <2>2. \A m \in Nat : w[m] \subseteq Y
    BY <1>5, <1>6, <2>1, ChainLeast
  <2>3. QED
    BY <1>8, <2>2
<1>12. QED
  BY <1>4, <1>9, <1>10, <1>11

\* The blocks b does not dominate are the least set closed without b.
LEMMA DominatedAreMissed ==
  ASSUME NEW f \in Functions, NEW b
  PROVE  \E R \in SUBSET Blocks(f) :
           /\ \A c : Dominates(f, b, c) <=> c \notin R
           /\ Closed(f, b, R)
           /\ \A Y \in SUBSET Blocks(f) : Closed(f, b, Y) => R \subseteq Y
BY MissedAreLeast, FunctionsShaped

\* A path that avoids a block does not reach it.
LEMMA DominatesItself ==
  ASSUME NEW f \in Functions, NEW b \in Blocks(f)
  PROVE  Dominates(f, b, b)
<1>1. Closed(f, b, Blocks(f) \ {b})
  BY FunctionShape DEF Closed
<1>2. PICK R \in SUBSET Blocks(f) :
        /\ \A c : Dominates(f, b, c) <=> c \notin R
        /\ \A Y \in SUBSET Blocks(f) : Closed(f, b, Y) => R \subseteq Y
  BY DominatedAreMissed
<1>3. R \subseteq Blocks(f) \ {b}
  BY <1>1, <1>2
<1>4. QED
  BY <1>2, <1>3

\* Nothing but the entry is on every path to the entry.
LEMMA DominatesEntry ==
  ASSUME NEW f \in Functions, NEW b, Dominates(f, b, Entry)
  PROVE  b = Entry
<1>1. PICK R \in SUBSET Blocks(f) :
        (\A c : Dominates(f, b, c) <=> c \notin R) /\ Closed(f, b, R)
  BY DominatedAreMissed
<1>2. QED
  BY <1>1 DEF Closed

\* What dominates a block, the block itself aside, dominates what leads to it.
LEMMA DominatesPredecessors ==
  ASSUME NEW f \in Functions, NEW b, NEW c, NEW p \in Blocks(f), c \in Succs(f, p),
         Dominates(f, b, c), b # c
  PROVE  Dominates(f, b, p)
<1>1. PICK R \in SUBSET Blocks(f) :
        (\A d : Dominates(f, b, d) <=> d \notin R) /\ Closed(f, b, R)
  BY DominatedAreMissed
<1>2. QED
  BY <1>1 DEF Closed

\* What holds, of all blocks but b, of the entry and is passed on along edges,
\* holds of every block that b does not dominate.
LEMMA MissedAreClosed ==
  ASSUME NEW f \in Functions, NEW b, NEW Y \in SUBSET Blocks(f), Closed(f, b, Y),
         NEW c, ~Dominates(f, b, c)
  PROVE  c \in Y
<1>1. PICK R \in SUBSET Blocks(f) :
        /\ \A d : Dominates(f, b, d) <=> d \notin R
        /\ \A X \in SUBSET Blocks(f) : Closed(f, b, X) => R \subseteq X
  BY DominatedAreMissed
<1>2. QED
  BY <1>1

\* The list of predecessors has the blocks with an edge to b, and no others.
LEMMA PredsAre ==
  ASSUME NEW f \in Functions, NEW b \in Blocks(f)
  PROVE  /\ Preds(f, b) \in Seq(Blocks(f))
         /\ ToSet(Preds(f, b)) = {c \in Blocks(f) : b \in Succs(f, c)}
<1> DEFINE edges(c) == {i \in DOMAIN SuccSeq(f, c) : SuccSeq(f, c)[i] = b}
           from(c) == [k \in 1 .. Cardinality(edges(c)) |-> c]
           ss == [c \in Blocks(f) |-> from(c)]
<1>1. ASSUME NEW c \in Blocks(f)
      PROVE  /\ from(c) \in Seq(Blocks(f))
             /\ ToSet(from(c)) = IF b \in Succs(f, c) THEN {c} ELSE {}
  <2>1. SuccSeq(f, c) \in Seq(Blocks(f)) /\ Succs(f, c) = ToSet(SuccSeq(f, c))
    <3>1. SuccSeq(f, c) \in Seq(Blocks(f) \ {Entry}) /\ Succs(f, c) = ToSet(SuccSeq(f, c))
      BY FunctionShape
    <3>2. QED
      BY <3>1
  <2>2. IsFiniteSet(edges(c)) /\ Cardinality(edges(c)) \in Nat
        /\ (Cardinality(edges(c)) = 0 <=> edges(c) = {})
    <3>1. Len(SuccSeq(f, c)) \in Nat /\ DOMAIN SuccSeq(f, c) = 1 .. Len(SuccSeq(f, c))
      BY <2>1
    <3>2. IsFiniteSet(1 .. Len(SuccSeq(f, c)))
      BY <3>1, FS_Interval
    <3>3. IsFiniteSet(edges(c))
      BY <3>1, <3>2, FS_Subset
    <3>4. QED
      BY <3>3, FS_CardinalityType, FS_EmptySet
  <2>3. edges(c) # {} <=> b \in Succs(f, c)
    BY <2>1 DEF ToSet
  <2> HIDE DEF edges
  <2>4. DOMAIN from(c) = 1 .. Cardinality(edges(c)) /\ \A k \in DOMAIN from(c) : from(c)[k] = c
    OBVIOUS
  <2>5. from(c) \in Seq(Blocks(f))
    BY <2>2
  <2> HIDE DEF from
  <2>6. CASE b \in Succs(f, c)
    <3>1. 1 \in DOMAIN from(c)
      BY <2>2, <2>3, <2>4, <2>6
    <3>2. ToSet(from(c)) = {c}
      BY <2>4, <3>1 DEF ToSet
    <3>3. QED
      BY <2>5, <2>6, <3>2
  <2>7. CASE b \notin Succs(f, c)
    <3>1. DOMAIN from(c) = {}
      BY <2>2, <2>3, <2>4, <2>7
    <3>2. ToSet(from(c)) = {}
      BY <3>1 DEF ToSet
    <3>3. QED
      BY <2>5, <2>7, <3>2
  <2>8. QED
    BY <2>6, <2>7
<1>2. Preds(f, b) = FlattenSeq(ss)
  BY DEF Preds
<1> HIDE DEF from
<1>3. ss \in Seq(Seq(Blocks(f))) /\ DOMAIN ss = Blocks(f)
  BY <1>1, FunctionShape
<1>4. \A c \in Blocks(f) : ss[c] = from(c)
  OBVIOUS
<1> HIDE DEF ss
<1>5. FlattenSeq(ss) \in Seq(Blocks(f))
      /\ ToSet(FlattenSeq(ss)) = UNION {ToSet(ss[c]) : c \in DOMAIN ss}
  BY <1>3, Flattened
<1>6. UNION {ToSet(ss[c]) : c \in DOMAIN ss} = {c \in Blocks(f) : b \in Succs(f, c)}
  <2>1. \A c \in Blocks(f) : ToSet(ss[c]) = IF b \in Succs(f, c) THEN {c} ELSE {}
    BY <1>1, <1>4
  <2>2. ASSUME NEW c \in Blocks(f), b \in Succs(f, c) PROVE c \in ToSet(ss[c])
    BY <2>1, <2>2
  <2>3. ASSUME NEW c \in Blocks(f), NEW x \in ToSet(ss[c]) PROVE x = c /\ b \in Succs(f, c)
    BY <2>1, <2>3
  <2>4. QED
    BY <1>3, <2>2, <2>3
<1>7. QED
  BY <1>2, <1>5, <1>6

-----------------------------------------------------------------------------
(* The depth-first search. *)

\* The blocks whose visit is over.
Left == ToSet(postorder)
\* Place p of the visit's stack is still open.
OnStack(p) == \E i \in DOMAIN visiting : visiting[i][1] = p

\* The search: it has entered no block twice, each block of the stack was
\* entered from the one below, and a block it has left was entered from one it
\* has not left, or left later.  Nothing behind an edge it has followed is missed.
Searching ==
  /\ visiting \in Seq(Blocks(fn) \X (Nat \ {0}))
  /\ postorder \in Seq(Blocks(fn))
  /\ \A i, j \in DOMAIN postorder : postorder[i] = postorder[j] => i = j
  /\ \A i, j \in DOMAIN visiting : visiting[i][1] = visiting[j][1] => i = j
  /\ \A i \in DOMAIN visiting : visiting[i][1] \notin Left
  /\ visiting # << >> => visiting[1][1] = Entry
  /\ visiting = << >> => postorder # << >> /\ postorder[Len(postorder)] = Entry
  /\ \A i \in DOMAIN visiting : i # 1 => visiting[i][1] \in Succs(fn, visiting[i - 1][1])
  /\ \A j \in DOMAIN postorder :
       \/ visiting = << >> /\ j = Len(postorder)
       \/ \E p \in Blocks(fn) :
            /\ postorder[j] \in Succs(fn, p)
            /\ OnStack(p) \/ \E k \in DOMAIN postorder : k > j /\ postorder[k] = p
  /\ \A b \in Left : Succs(fn, b) \subseteq Seen
  /\ \A i \in DOMAIN visiting : \A k \in DOMAIN SuccSeq(fn, visiting[i][1]) :
       k < visiting[i][2] => SuccSeq(fn, visiting[i][1])[k] \in Seen

\* A block has been seen once it is on the stack or has a number.
LEMMA SeenIs ==
  Seen = Left \cup {visiting[i][1] : i \in DOMAIN visiting}
BY DEF Seen, Left, ToSet

\* The search starts at the entry and has left no block.
LEMMA InitSearching == DomInit => Searching /\ fn \in Functions
<1> SUFFICES ASSUME DomInit PROVE Searching /\ fn \in Functions
  OBVIOUS
<1>1. fn \in Functions /\ visiting = <<<<Entry, 1>>>> /\ postorder = << >>
  BY DEF DomInit
<1>2. Entry \in Blocks(fn)
  BY <1>1, FunctionShape
<1>3. /\ DOMAIN visiting = {1} /\ visiting[1] = <<Entry, 1>> /\ visiting # << >>
      /\ DOMAIN postorder = {}
      /\ visiting \in Seq(Blocks(fn) \X (Nat \ {0})) /\ postorder \in Seq(Blocks(fn))
  BY <1>1, <1>2
<1>4. Left = {} /\ visiting[1][1] = Entry /\ visiting[1][2] = 1
  BY <1>3 DEF Left, ToSet
<1>5. SuccSeq(fn, Entry) \in Seq(Blocks(fn) \ {Entry})
  BY <1>1, <1>2, FunctionShape
<1>6. \A k \in DOMAIN SuccSeq(fn, Entry) : ~(k < 1)
  BY <1>5
<1>7. QED
  BY <1>1, <1>3, <1>4, <1>6 DEF Searching

\* The stack with its newest entry replaced, or taken away.
LEMMA FrontIs ==
  ASSUME NEW S, NEW s \in Seq(S), s # << >>
  PROVE  /\ Len(s) \in Nat \ {0} /\ DOMAIN s = 1 .. Len(s)
         /\ Front(s) \in Seq(S) /\ DOMAIN Front(s) = 1 .. (Len(s) - 1)
         /\ \A i \in 1 .. (Len(s) - 1) : Front(s)[i] = s[i]
         /\ Last(s) = s[Len(s)] /\ Last(s) \in S
         /\ Len(Front(s)) = Len(s) - 1
         /\ Len(s) = 1 => Front(s) = << >>
         /\ Len(s) # 1 => Front(s) # << >>
<1> DEFINE n == Len(s)
           t == SubSeq(s, 1, n - 1)
<1>1. n \in Nat \ {0} /\ DOMAIN s = 1 .. n /\ s[n] \in S
  OBVIOUS
<1>2. t \in Seq(S) /\ Len(t) = n - 1 /\ \A i \in 1 .. (n - 1) : t[i] = s[i]
  BY <1>1
<1>4. Front(s) = t /\ Last(s) = s[n]
  BY DEF Front, Last
<1> HIDE DEF t
<1>3. DOMAIN t = 1 .. (n - 1) /\ (n = 1 => t = << >>) /\ (n # 1 => t # << >>)
  BY <1>1, <1>2
<1>5. QED
  BY <1>1, <1>2, <1>3, <1>4

\* t is s with x added at its end, or with x in the place of its last member.
Added(t, s, x) ==
  /\ t # << >> /\ DOMAIN t = 1 .. (Len(s) + 1) /\ Len(t) = Len(s) + 1
  /\ \A i \in DOMAIN s : t[i] = s[i]
  /\ t[Len(s) + 1] = x
  /\ ToSet(t) = ToSet(s) \cup {x}

\* t is s with x as its last element.
TopReplaced(t, s, x) ==
  /\ t # << >> /\ DOMAIN t = 1 .. Len(s) /\ Len(t) = Len(s)
  /\ \A i \in 1 .. Len(s) : t[i] = IF i = Len(s) THEN x ELSE s[i]

\* What Append does.
LEMMA AppendAdds ==
  ASSUME NEW S, NEW s \in Seq(S), NEW x \in S
  PROVE  Append(s, x) \in Seq(S) /\ Added(Append(s, x), s, x)
<1> DEFINE t == Append(s, x)
<1>1. /\ t \in Seq(S) /\ t # << >> /\ Len(t) = Len(s) + 1 /\ Len(s) \in Nat
      /\ DOMAIN t = 1 .. (Len(s) + 1) /\ DOMAIN s = 1 .. Len(s)
      /\ \A i \in DOMAIN s : t[i] = s[i]
      /\ t[Len(s) + 1] = x
  OBVIOUS
<1> HIDE DEF t
<1>2. ASSUME NEW y \in ToSet(t) PROVE y \in ToSet(s) \cup {x}
  <2>1. PICK i \in DOMAIN t : y = t[i]
    BY DEF ToSet
  <2>2. i = Len(s) + 1 \/ i \in DOMAIN s
    BY <1>1, <2>1
  <2>3. QED
    BY <1>1, <2>1, <2>2 DEF ToSet
<1>3. ASSUME NEW i \in DOMAIN s PROVE s[i] \in ToSet(t)
  <2>1. i \in DOMAIN t
    BY <1>1
  <2>2. QED
    BY <1>1, <2>1 DEF ToSet
<1>4. x \in ToSet(t)
  <2>1. Len(s) + 1 \in DOMAIN t
    BY <1>1
  <2>2. QED
    BY <1>1, <2>1 DEF ToSet
<1>5. ToSet(s) \subseteq ToSet(t)
  BY <1>3 DEF ToSet
<1>6. ToSet(t) = ToSet(s) \cup {x}
  BY <1>2, <1>4, <1>5
<1>7. t \in Seq(S) /\ Added(t, s, x)
  BY <1>1, <1>6 DEF Added
<1>8. QED
  BY <1>7 DEF t

\* Taking the last element off and appending replaces it.
LEMMA AppendToFrontReplaces ==
  ASSUME NEW S, NEW s \in Seq(S), s # << >>, NEW x \in S
  PROVE  Append(Front(s), x) \in Seq(S) /\ TopReplaced(Append(Front(s), x), s, x)
<1> DEFINE f == Front(s)
           t == Append(f, x)
<1>1. f \in Seq(S) /\ Len(f) = Len(s) - 1 /\ Len(s) \in Nat \ {0}
      /\ \A i \in 1 .. (Len(s) - 1) : f[i] = s[i]
  BY FrontIs
<1> HIDE DEF f
<1>5. t \in Seq(S) /\ Added(t, f, x)
  BY <1>1, AppendAdds
<1> HIDE DEF t
<1>2. /\ Len(t) = Len(s) /\ DOMAIN t = 1 .. Len(s) /\ t # << >>
      /\ \A i \in 1 .. Len(s) : t[i] = IF i = Len(s) THEN x ELSE s[i]
  BY <1>1, <1>5 DEF Added
<1>3. t \in Seq(S) /\ TopReplaced(t, s, x)
  BY <1>2, <1>5 DEF TopReplaced
<1>4. QED
  BY <1>3 DEF t, f

\* Following an edge: the block it leads to is new, or was seen before.
LEMMA FollowSearching ==
  ASSUME Searching, fn \in Functions, FollowEdge
  PROVE  Searching'
<1> DEFINE n == Len(visiting)
           b == visiting[n][1]
           S == Blocks(fn) \X (Nat \ {0})
           s == SuccSeq(fn, b)[visiting[n][2]]
           top == <<b, visiting[n][2] + 1>>
           on == Append(Front(visiting), top)
<1>1. /\ visiting \in Seq(S) /\ visiting # << >> /\ fn' = fn /\ postorder' = postorder
      /\ n \in Nat \ {0} /\ DOMAIN visiting = 1 .. n
      /\ visiting' = IF s \in Seen THEN on ELSE Append(on, <<s, 1>>)
      /\ visiting[n][2] \in DOMAIN SuccSeq(fn, b)
  BY DEF Searching, FollowEdge, Top, Last
<1>2. b \in Blocks(fn) /\ visiting[n][2] \in Nat \ {0} /\ n \in 1 .. n
  BY <1>1
<1>3. s \in Blocks(fn) /\ s \in Succs(fn, b) /\ DOMAIN SuccSeq(fn, b) \subseteq Nat
  <2>1. SuccSeq(fn, b) \in Seq(Blocks(fn) \ {Entry}) /\ Succs(fn, b) = ToSet(SuccSeq(fn, b))
    BY <1>2, FunctionShape
  <2>2. s \in Blocks(fn) \ {Entry} /\ s \in ToSet(SuccSeq(fn, b))
    BY <1>1, <2>1 DEF ToSet
  <2>3. QED
    BY <2>1, <2>2
<1>4. /\ on \in Seq(S) /\ on # << >> /\ Len(on) = n /\ DOMAIN on = 1 .. n
      /\ \A i \in 1 .. n : on[i] = IF i = n THEN <<b, visiting[n][2] + 1>> ELSE visiting[i]
  <2>1. top \in S
    BY <1>2
  <2> HIDE DEF S, top
  <2>2. on \in Seq(S) /\ TopReplaced(on, visiting, top)
    BY <1>1, <2>1, AppendToFrontReplaces
  <2> HIDE DEF on
  <2>3. QED
    BY <2>2 DEF TopReplaced, top
<1>5. \A i \in 1 .. n : on[i][1] = visiting[i][1]
                        /\ (i # n => on[i][2] = visiting[i][2])
                        /\ (i = n => on[i][2] = visiting[n][2] + 1)
  BY <1>4
<1> HIDE DEF on, top
<1>6. Left' = Left
  BY <1>1 DEF Left
\* Whichever it is: the old blocks at their places, perhaps one more on top.
<1>7. /\ visiting' \in Seq(S) /\ visiting' # << >>
      /\ \/ DOMAIN visiting' = 1 .. n /\ s \in Seen
         \/ DOMAIN visiting' = 1 .. (n + 1) /\ visiting'[n + 1] = <<s, 1>> /\ s \notin Seen
      /\ \A i \in 1 .. n : visiting'[i] = on[i]
  <2>1. CASE s \in Seen
    BY <1>1, <1>4, <2>1
  <2>2. CASE s \notin Seen
    <3> DEFINE new == <<s, 1>>
    <3>1. visiting' = Append(on, new) /\ new \in S
      BY <1>1, <1>3, <2>2
    <3> HIDE DEF S, new
    <3>2. visiting' \in Seq(S) /\ Added(visiting', on, new)
      BY <1>4, <3>1, AppendAdds
    <3>3. /\ visiting' # << >> /\ DOMAIN visiting' = 1 .. (n + 1) /\ visiting'[n + 1] = new
          /\ \A i \in 1 .. n : visiting'[i] = on[i]
      BY <1>4, <3>2 DEF Added
    <3>4. QED
      BY <2>2, <3>2, <3>3 DEF new
  <2>3. QED
    BY <2>1, <2>2
<1>8. \A i \in 1 .. n : i \in DOMAIN visiting' /\ visiting'[i][1] = visiting[i][1]
  <2>1. n \in Nat
    BY <1>1
  <2> HIDE DEF n, s
  <2>2. ASSUME NEW i \in 1 .. n PROVE i \in DOMAIN visiting'
    <3>1. i \in 1 .. (n + 1)
      BY <2>1
    <3>2. QED
      BY <1>7, <3>1
  <2>3. ASSUME NEW i \in 1 .. n PROVE visiting'[i][1] = visiting[i][1]
    <3>1. visiting'[i] = on[i] /\ on[i][1] = visiting[i][1]
      BY <1>5, <1>7
    <3>2. QED
      BY <3>1
  <2>4. QED
    BY <2>2, <2>3
<1>9. ASSUME NEW i \in DOMAIN visiting', i \notin 1 .. n
      PROVE  i = n + 1 /\ visiting'[i][1] = s /\ visiting'[i][2] = 1 /\ s \notin Seen
  BY <1>1, <1>7, <1>9
<1>10. Seen \subseteq Seen' /\ s \in Seen'
  <2>1. Seen' = Left' \cup {visiting'[i][1] : i \in DOMAIN visiting'}
    BY <1>1 DEF Seen, Left, ToSet
  <2>2. \A i \in DOMAIN visiting : visiting[i][1] \in Seen'
    BY <1>1, <1>8, <2>1
  <2>3. Seen \subseteq Seen'
    BY <1>6, <2>1, <2>2, SeenIs
  <2>4. s \notin Seen => s \in Seen'
    <3>1. SUFFICES ASSUME s \notin Seen PROVE s \in Seen'
      OBVIOUS
    <3> HIDE DEF s, n
    <3>2. n + 1 \in DOMAIN visiting' /\ visiting'[n + 1][1] = s
      BY <1>1, <1>7, <3>1
    <3>3. QED
      BY <2>1, <3>2
  <2>5. QED
    BY <2>3, <2>4
<1> HIDE DEF s, b
<1>11. \A p : OnStack(p) => OnStack(p)'
  BY <1>1, <1>8 DEF OnStack
<1>12. ASSUME NEW i \in DOMAIN visiting', NEW j \in DOMAIN visiting',
              visiting'[i][1] = visiting'[j][1]
       PROVE  i = j
  <2>1. CASE i \in 1 .. n /\ j \in 1 .. n
    BY <1>1, <1>8, <1>12, <2>1 DEF Searching
  <2>2. CASE i \in 1 .. n /\ j \notin 1 .. n
    BY <1>1, <1>8, <1>9, <1>12, <2>2, SeenIs
  <2>3. CASE i \notin 1 .. n /\ j \in 1 .. n
    BY <1>1, <1>8, <1>9, <1>12, <2>3, SeenIs
  <2>4. CASE i \notin 1 .. n /\ j \notin 1 .. n
    BY <1>9, <2>4
  <2>5. QED
    BY <2>1, <2>2, <2>3, <2>4
<1>13. ASSUME NEW i \in DOMAIN visiting' PROVE visiting'[i][1] \notin Left
  BY <1>1, <1>8, <1>9, SeenIs DEF Searching
<1>14. visiting'[1][1] = Entry
  <2>1. 1 \in 1 .. n
    BY <1>1
  <2>2. QED
    BY <1>1, <1>8, <2>1 DEF Searching
<1>15. ASSUME NEW i \in DOMAIN visiting', i # 1
       PROVE  visiting'[i][1] \in Succs(fn, visiting'[i - 1][1])
  <2>1. CASE i \in 1 .. n
    <3>1. i - 1 \in 1 .. n
      BY <1>1, <1>15, <2>1
    <3>2. QED
      BY <1>1, <1>8, <1>15, <2>1, <3>1 DEF Searching
  <2>2. CASE i \notin 1 .. n
    <3>1. i - 1 = n
      BY <1>1, <1>9, <2>2
    <3>2. visiting'[n][1] = b
      BY <1>2, <1>8 DEF b
    <3>3. QED
      BY <1>3, <1>9, <2>2, <3>1, <3>2
  <2>3. QED
    BY <2>1, <2>2
<1>16. ASSUME NEW i \in DOMAIN visiting', NEW k \in DOMAIN SuccSeq(fn, visiting'[i][1]),
              k < visiting'[i][2]
       PROVE  SuccSeq(fn, visiting'[i][1])[k] \in Seen'
  <2>1. CASE i \in 1 .. n /\ i # n
    <3>1. visiting'[i][1] = visiting[i][1] /\ visiting'[i][2] = visiting[i][2]
      BY <1>5, <1>7, <2>1
    <3>2. QED
      BY <1>1, <1>10, <1>16, <2>1, <3>1 DEF Searching
  <2>2. CASE i = n
    <3>1. visiting'[i][1] = b /\ visiting'[i][2] = visiting[n][2] + 1
      BY <1>2, <1>5, <1>7, <2>2 DEF b
    <3>2. k \in Nat /\ (k < visiting[n][2] \/ k = visiting[n][2])
      BY <1>2, <1>3, <1>16, <3>1
    <3>3. CASE k < visiting[n][2]
      <4>1. SuccSeq(fn, visiting[n][1])[k] \in Seen
        BY <1>1, <1>2, <1>16, <3>1, <3>3 DEF Searching, b
      <4>2. QED
        BY <1>10, <3>1, <4>1 DEF b
    <3>4. CASE k = visiting[n][2]
      BY <1>10, <3>1, <3>4 DEF s
    <3>5. QED
      BY <3>2, <3>3, <3>4
  <2>3. CASE i \notin 1 .. n
    <3>1. visiting'[i][1] = s /\ visiting'[i][2] = 1
      BY <1>9, <2>3
    <3>2. SuccSeq(fn, s) \in Seq(Blocks(fn) \ {Entry})
      BY <1>3, FunctionShape
    <3>3. k \in Nat /\ k # 0
      BY <1>16, <3>1, <3>2
    <3>4. QED
      BY <1>16, <3>1, <3>3
  <2>4. QED
    BY <2>1, <2>2, <2>3
<1>17. \A c \in Left : Succs(fn, c) \subseteq Seen'
  BY <1>10 DEF Searching
<1>18. \A j \in DOMAIN postorder : \E p \in Blocks(fn) :
         /\ postorder[j] \in Succs(fn, p)
         /\ OnStack(p)' \/ \E k \in DOMAIN postorder : k > j /\ postorder[k] = p
  BY <1>1, <1>11 DEF Searching
<1> HIDE DEF S
<1>19. visiting' \in Seq(Blocks(fn) \X (Nat \ {0})) /\ visiting' # << >>
  BY <1>7 DEF S
<1>20. /\ postorder' \in Seq(Blocks(fn'))
       /\ \A i, j \in DOMAIN postorder' : postorder'[i] = postorder'[j] => i = j
  BY <1>1, <1>6 DEF Searching
<1>21. \A j \in DOMAIN postorder' :
         \/ visiting' = << >> /\ j = Len(postorder')
         \/ \E p \in Blocks(fn') :
              /\ postorder'[j] \in Succs(fn', p)
              /\ OnStack(p)' \/ \E k \in DOMAIN postorder' : k > j /\ postorder'[k] = p
  BY <1>1, <1>6, <1>18
<1>22. \A i \in DOMAIN visiting' : i # 1 => visiting'[i][1] \in Succs(fn', visiting'[i - 1][1])
  BY <1>1, <1>6, <1>15
<1>23. \A i \in DOMAIN visiting' : \A k \in DOMAIN SuccSeq(fn', visiting'[i][1]) :
         k < visiting'[i][2] => SuccSeq(fn', visiting'[i][1])[k] \in Seen'
  BY <1>1, <1>6, <1>16
<1>24. /\ \A i \in DOMAIN visiting' : visiting'[i][1] \notin Left'
       /\ \A c \in Left' : Succs(fn', c) \subseteq Seen'
       /\ visiting' \in Seq(Blocks(fn') \X (Nat \ {0}))
  BY <1>1, <1>6, <1>13, <1>17, <1>19
<1>25. QED
  BY <1>12, <1>14, <1>19, <1>20, <1>21, <1>22, <1>23, <1>24 DEF Searching

\* Leaving a block: all it leads to has been seen, and the block below it on the
\* stack is one it was entered from.
LEMMA LeaveSearching ==
  ASSUME Searching, fn \in Functions, LeaveBlock
  PROVE  Searching'
<1> DEFINE n == Len(visiting)
           b == visiting[n][1]
           S == Blocks(fn) \X (Nat \ {0})
           m == Len(postorder)
<1>1. /\ visiting \in Seq(S) /\ visiting # << >> /\ fn' = fn
      /\ postorder \in Seq(Blocks(fn)) /\ postorder' = Append(postorder, b)
      /\ n \in Nat \ {0} /\ DOMAIN visiting = 1 .. n
      /\ visiting' = Front(visiting)
      /\ visiting[n][2] \notin DOMAIN SuccSeq(fn, b)
  BY DEF Searching, LeaveBlock, Top, Last
<1>2. b \in Blocks(fn) /\ visiting[n][2] \in Nat \ {0} /\ n \in 1 .. n
  BY <1>1
<1>3. /\ visiting' \in Seq(S) /\ DOMAIN visiting' = 1 .. (n - 1)
      /\ \A i \in 1 .. (n - 1) : visiting'[i] = visiting[i]
      /\ n = 1 => visiting' = << >>
      /\ n # 1 => visiting' # << >>
  <2> HIDE DEF S
  <2>1. QED
    BY <1>1, FrontIs
<1> HIDE DEF b
<1>4. postorder' \in Seq(Blocks(fn)) /\ Added(postorder', postorder, b)
  BY <1>1, <1>2, AppendAdds
<1>5. m \in Nat /\ DOMAIN postorder = 1 .. m
  BY <1>1
<1>6. /\ DOMAIN postorder' = 1 .. (m + 1) /\ Len(postorder') = m + 1 /\ postorder' # << >>
      /\ \A i \in 1 .. m : postorder'[i] = postorder[i]
      /\ postorder'[m + 1] = b
      /\ Left' = Left \cup {b}
  BY <1>4, <1>5 DEF Added, Left
<1> HIDE DEF n, m
<1>7. 1 .. (n - 1) \subseteq DOMAIN visiting /\ n \notin 1 .. (n - 1)
  BY <1>1
<1>8. b \notin Left
  BY <1>1, <1>2 DEF Searching, b
<1>9. \A i \in 1 .. m : postorder[i] \in Left
  BY <1>5 DEF Left, ToSet
<1>10. Seen' = Seen
  <2>1. Seen = Left \cup {visiting[i][1] : i \in 1 .. n}
    BY <1>1, SeenIs
  <2>2. Seen' = Left' \cup {visiting'[i][1] : i \in 1 .. (n - 1)}
    <3>1. Seen' = Left' \cup {visiting'[i][1] : i \in DOMAIN visiting'}
      BY DEF Seen, Left, ToSet
    <3>2. QED
      BY <1>3, <3>1
  <2>3. {visiting'[i][1] : i \in 1 .. (n - 1)} = {visiting[i][1] : i \in 1 .. (n - 1)}
    BY <1>3
  <2>4. 1 .. n = (1 .. (n - 1)) \cup {n}
    BY <1>1
  <2>5. {visiting[i][1] : i \in 1 .. n} = {visiting[i][1] : i \in 1 .. (n - 1)} \cup {b}
    BY <2>4 DEF b
  <2>6. QED
    BY <1>6, <2>1, <2>2, <2>3, <2>5
<1>11. ASSUME NEW i \in DOMAIN postorder', NEW j \in DOMAIN postorder',
              postorder'[i] = postorder'[j]
       PROVE  i = j
  <2>1. (i \in 1 .. m \/ i = m + 1) /\ (j \in 1 .. m \/ j = m + 1)
    BY <1>5, <1>6
  <2>2. CASE i \in 1 .. m /\ j \in 1 .. m
    BY <1>5, <1>6, <1>11, <2>2 DEF Searching
  <2>3. CASE i \in 1 .. m /\ j = m + 1
    BY <1>6, <1>8, <1>9, <1>11, <2>3
  <2>4. CASE i = m + 1 /\ j \in 1 .. m
    BY <1>6, <1>8, <1>9, <1>11, <2>4
  <2>5. QED
    BY <2>1, <2>2, <2>3, <2>4
<1>12. ASSUME NEW i \in DOMAIN visiting', NEW j \in DOMAIN visiting',
              visiting'[i][1] = visiting'[j][1]
       PROVE  i = j
  <2>1. /\ i \in DOMAIN visiting /\ visiting'[i] = visiting[i]
        /\ j \in DOMAIN visiting /\ visiting'[j] = visiting[j]
    BY <1>3, <1>7
  <2>2. QED
    BY <1>12, <2>1 DEF Searching
<1>13. ASSUME NEW i \in DOMAIN visiting' PROVE visiting'[i][1] \notin Left'
  <2>1. i \in DOMAIN visiting /\ i # n /\ visiting'[i][1] = visiting[i][1]
    BY <1>3, <1>7
  <2>2. visiting[i][1] # b
    BY <1>1, <1>2, <2>1 DEF Searching, b
  <2>3. QED
    BY <1>6, <2>1, <2>2 DEF Searching
<1>14. visiting' # << >> => visiting'[1][1] = Entry
  <2>1. SUFFICES ASSUME visiting' # << >> PROVE visiting'[1][1] = Entry
    OBVIOUS
  <2>2. 1 \in 1 .. (n - 1)
    BY <1>1, <1>3, <2>1
  <2>3. QED
    BY <1>1, <1>3, <2>2 DEF Searching
<1>15. visiting' = << >> => postorder' # << >> /\ postorder'[Len(postorder')] = Entry
  <2>1. SUFFICES ASSUME visiting' = << >> PROVE b = Entry
    BY <1>6
  <2>2. n = 1
    BY <1>3, <2>1
  <2>3. QED
    BY <1>1, <2>2 DEF Searching, b
<1>16. ASSUME NEW i \in DOMAIN visiting', i # 1
       PROVE  visiting'[i][1] \in Succs(fn, visiting'[i - 1][1])
  <2>1. i \in 1 .. (n - 1) /\ i - 1 \in 1 .. (n - 1)
    <3>1. i \in 1 .. (n - 1) /\ n \in Nat
      BY <1>1, <1>3
    <3>2. QED
      BY <1>16, <3>1
  <2>2. visiting[i][1] \in Succs(fn, visiting[i - 1][1])
    BY <1>7, <1>16, <2>1 DEF Searching
  <2>3. QED
    BY <1>3, <2>1, <2>2
<1>17. ASSUME NEW p, OnStack(p)
       PROVE  OnStack(p)' \/ p = b
  <2>1. PICK i \in DOMAIN visiting : visiting[i][1] = p
    BY <1>17 DEF OnStack
  <2>2. i \in 1 .. (n - 1) \/ i = n
    BY <1>1
  <2>3. CASE i = n
    BY <2>1, <2>3 DEF b
  <2>4. CASE i \in 1 .. (n - 1)
    BY <1>3, <2>1, <2>4 DEF OnStack
  <2>5. QED
    BY <2>2, <2>3, <2>4
<1>18. ASSUME NEW j \in DOMAIN postorder'
       PROVE  \/ visiting' = << >> /\ j = Len(postorder')
              \/ \E p \in Blocks(fn) :
                   /\ postorder'[j] \in Succs(fn, p)
                   /\ OnStack(p)' \/ \E k \in DOMAIN postorder' : k > j /\ postorder'[k] = p
  <2>1. CASE j \in 1 .. m
    <3>1. PICK p \in Blocks(fn) :
            /\ postorder[j] \in Succs(fn, p)
            /\ OnStack(p) \/ \E k \in DOMAIN postorder : k > j /\ postorder[k] = p
      BY <1>1, <1>5, <2>1 DEF Searching
    <3>2. CASE p = b
      <4>1. m + 1 \in DOMAIN postorder' /\ m + 1 > j /\ postorder'[m + 1] = p
        BY <1>5, <1>6, <2>1, <3>2
      <4>2. QED
        BY <1>6, <2>1, <3>1, <4>1
    <3>3. CASE p # b /\ OnStack(p)
      BY <1>6, <1>17, <2>1, <3>1, <3>3
    <3>4. CASE \E k \in DOMAIN postorder : k > j /\ postorder[k] = p
      <4>1. PICK k \in DOMAIN postorder : k > j /\ postorder[k] = p
        BY <3>4
      <4>2. k \in DOMAIN postorder' /\ postorder'[k] = p
        BY <1>5, <1>6, <4>1
      <4>3. QED
        BY <1>6, <2>1, <3>1, <4>1, <4>2
    <3>5. QED
      BY <3>1, <3>2, <3>3, <3>4
  <2>2. CASE j = m + 1 /\ n # 1
    <3>1. n - 1 \in 1 .. (n - 1) /\ n - 1 \in 1 .. n
      BY <1>1, <2>2
    <3>2. b \in Succs(fn, visiting[n - 1][1])
      BY <1>1, <1>2, <2>2 DEF Searching, b
    <3>3. PICK q \in Blocks(fn) : q = visiting[n - 1][1]
      BY <1>1, <3>1
    <3>4. OnStack(q)'
      <4>1. n - 1 \in DOMAIN visiting' /\ visiting'[n - 1][1] = q
        BY <1>3, <3>1, <3>3
      <4>2. QED
        BY <4>1 DEF OnStack
    <3>5. QED
      BY <1>6, <2>2, <3>2, <3>3, <3>4
  <2>3. CASE j = m + 1 /\ n = 1
    BY <1>3, <1>6, <2>3
  <2>4. QED
    BY <1>5, <1>6, <2>1, <2>2, <2>3
<1>19. ASSUME NEW c \in Left' PROVE Succs(fn, c) \subseteq Seen
  <2>1. CASE c \in Left
    BY <2>1 DEF Searching
  <2>2. CASE c = b
    <3>1. SuccSeq(fn, b) \in Seq(Blocks(fn) \ {Entry}) /\ Succs(fn, b) = ToSet(SuccSeq(fn, b))
      BY <1>2, FunctionShape
    <3>2. ASSUME NEW k \in DOMAIN SuccSeq(fn, b) PROVE SuccSeq(fn, b)[k] \in Seen
      <4>1. k < visiting[n][2]
        BY <1>1, <1>2, <3>1
      <4>2. QED
        BY <1>1, <1>2, <4>1 DEF Searching, b
    <3>3. QED
      BY <2>2, <3>1, <3>2 DEF ToSet
  <2>3. QED
    BY <1>6, <2>1, <2>2
<1>20. ASSUME NEW i \in DOMAIN visiting', NEW k \in DOMAIN SuccSeq(fn, visiting'[i][1]),
              k < visiting'[i][2]
       PROVE  SuccSeq(fn, visiting'[i][1])[k] \in Seen
  <2>1. i \in DOMAIN visiting /\ visiting'[i] = visiting[i]
    BY <1>3, <1>7
  <2>2. QED
    BY <1>20, <2>1 DEF Searching
<1> HIDE DEF S
<1>21. visiting' \in Seq(Blocks(fn) \X (Nat \ {0}))
  BY <1>3 DEF S
<1>22. \A c \in Left' : Succs(fn', c) \subseteq Seen'
  BY <1>1, <1>10, <1>19
<1>23. \A i \in DOMAIN visiting' : \A k \in DOMAIN SuccSeq(fn', visiting'[i][1]) :
         k < visiting'[i][2] => SuccSeq(fn', visiting'[i][1])[k] \in Seen'
  BY <1>1, <1>10, <1>20
<1>24. QED
  BY <1>1, <1>4, <1>11, <1>12, <1>13, <1>14, <1>15, <1>16, <1>18, <1>21, <1>22, <1>23
  DEF Searching

-----------------------------------------------------------------------------
(* Numbers. *)

\* The search has numbered every block, the entry highest, and each other
\* block below one that leads to it.
Ordered ==
  /\ postorder \in Seq(Blocks(fn))
  /\ \A i, j \in DOMAIN postorder : postorder[i] = postorder[j] => i = j
  /\ Left = Blocks(fn)
  /\ postorder # << >> /\ postorder[Len(postorder)] = Entry
  /\ \A j \in DOMAIN postorder : j # Len(postorder) =>
       \E p \in Blocks(fn) :
         /\ postorder[j] \in Succs(fn, p)
         /\ \E k \in DOMAIN postorder : k > j /\ postorder[k] = p

\* When the stack is empty, every block has been left, for all are reached, and
\* none was left after the entry.
LEMMA SearchingOrders ==
  ASSUME Searching, fn \in Functions, visiting = << >>
  PROVE  Ordered
<1>1. DOMAIN visiting = {}
  OBVIOUS
<1>2. Seen = Left
  BY <1>1, SeenIs
<1>3. Left \in SUBSET Blocks(fn)
  BY DEF Searching, Left, ToSet
<1>4. Entry \in Left
  <2>1. Len(postorder) \in DOMAIN postorder
    BY DEF Searching
  <2>2. QED
    BY <2>1 DEF Searching, Left, ToSet
<1>5. Left = Blocks(fn)
  BY <1>2, <1>3, <1>4, ReachedByAll DEF Searching
<1>6. \A p : ~OnStack(p)
  BY <1>1 DEF OnStack
<1>7. QED
  BY <1>5, <1>6 DEF Searching, Ordered

\* The numbers are those of the postorder: one for each block, the highest for
\* the entry.
LEMMA NumberIs ==
  ASSUME fn \in Functions, Ordered
  PROVE  /\ Len(postorder) \in Nat
         /\ \A b \in Blocks(fn) :
              /\ Number(b) \in 1 .. Len(postorder)
              /\ postorder[Number(b)] = b
              /\ b # Entry => \E p \in Blocks(fn) : b \in Succs(fn, p) /\ Number(p) > Number(b)
         /\ \A i \in 1 .. Len(postorder) : postorder[i] \in Blocks(fn) /\ Number(postorder[i]) = i
         /\ \A b, c \in Blocks(fn) : Number(b) = Number(c) => b = c
         /\ Number(Entry) = Len(postorder)
<1>1. Len(postorder) \in Nat /\ DOMAIN postorder = 1 .. Len(postorder)
      /\ Len(postorder) \in 1 .. Len(postorder)
  BY DEF Ordered
<1>2. ASSUME NEW b \in Blocks(fn)
      PROVE  Number(b) \in 1 .. Len(postorder) /\ postorder[Number(b)] = b
  <2>1. \E i \in DOMAIN postorder : postorder[i] = b
    BY DEF Ordered, Left, ToSet
  <2>2. QED
    BY <1>1, <2>1 DEF Number
<1>3. ASSUME NEW i \in 1 .. Len(postorder)
      PROVE  postorder[i] \in Blocks(fn) /\ Number(postorder[i]) = i
  <2>1. postorder[i] \in Blocks(fn)
    BY <1>1 DEF Ordered
  <2>2. Number(postorder[i]) \in DOMAIN postorder
        /\ postorder[Number(postorder[i])] = postorder[i]
    BY <1>1, <1>2, <2>1
  <2>3. QED
    BY <1>1, <2>1, <2>2 DEF Ordered
<1>4. Number(Entry) = Len(postorder)
  BY <1>1, <1>3 DEF Ordered
<1>5. ASSUME NEW b \in Blocks(fn), b # Entry
      PROVE  \E p \in Blocks(fn) : b \in Succs(fn, p) /\ Number(p) > Number(b)
  <2>1. Number(b) \in DOMAIN postorder /\ Number(b) # Len(postorder)
    BY <1>1, <1>2, <1>5 DEF Ordered
  <2>2. PICK p \in Blocks(fn) :
          /\ postorder[Number(b)] \in Succs(fn, p)
          /\ \E k \in DOMAIN postorder : k > Number(b) /\ postorder[k] = p
    BY <2>1 DEF Ordered
  <2>3. Number(p) > Number(b)
    BY <1>1, <1>3, <2>2
  <2>4. QED
    BY <1>2, <2>2, <2>3
<1>6. QED
  BY <1>1, <1>2, <1>3, <1>4, <1>5

\* What dominates a block has the higher number.
LEMMA DominatorsComeFirst ==
  ASSUME fn \in Functions, Ordered, NEW a \in Blocks(fn), NEW q \in Blocks(fn),
         Dominates(fn, a, q)
  PROVE  Number(a) >= Number(q)
<1> DEFINE n == Len(postorder)
           T == {k \in Nat : \A c \in Blocks(fn) :
                   Number(c) > Number(a) /\ n - Number(c) <= k => ~Dominates(fn, a, c)}
<1>1. n \in Nat /\ \A b \in Blocks(fn) : Number(b) \in Nat /\ Number(b) <= n
  BY NumberIs
<1>2. ASSUME Dominates(fn, a, Entry) PROVE Number(a) = n
  BY <1>2, DominatesEntry, NumberIs
<1> HIDE DEF n
<1>3. ASSUME NEW k \in Nat, NEW c \in Blocks(fn), Number(c) > Number(a), n - Number(c) <= k,
             \A d \in Blocks(fn) : Number(d) > Number(c) => ~Dominates(fn, a, d)
      PROVE  ~Dominates(fn, a, c)
  <2>1. CASE c = Entry
    <3>1. Number(a) # n
      BY <1>1, <1>3
    <3>2. QED
      BY <1>2, <2>1, <3>1
  <2>2. CASE c # Entry
    <3>1. PICK p \in Blocks(fn) : c \in Succs(fn, p) /\ Number(p) > Number(c)
      BY <2>2, NumberIs
    <3>2. ~Dominates(fn, a, p)
      BY <1>3, <3>1
    <3>3. a # c
      BY <1>1, <1>3
    <3>4. QED
      BY <3>1, <3>2, <3>3, DominatesPredecessors
  <2>3. QED
    BY <2>1, <2>2
<1>4. 0 \in T
  <2>1. ASSUME NEW c \in Blocks(fn), Number(c) > Number(a), n - Number(c) <= 0
        PROVE  ~Dominates(fn, a, c)
    <3>1. \A d \in Blocks(fn) : ~(Number(d) > Number(c))
      BY <1>1, <2>1
    <3>2. QED
      BY <1>3, <2>1, <3>1
  <2>2. QED
    BY <2>1
<1>5. ASSUME NEW k \in Nat, k \in T PROVE k + 1 \in T
  <2>1. ASSUME NEW c \in Blocks(fn), Number(c) > Number(a), n - Number(c) <= k + 1
        PROVE  ~Dominates(fn, a, c)
    <3>1. ASSUME NEW d \in Blocks(fn), Number(d) > Number(c) PROVE ~Dominates(fn, a, d)
      <4>1. Number(d) > Number(a) /\ n - Number(d) <= k
        BY <1>1, <2>1, <3>1
      <4>2. QED
        BY <1>5, <4>1
    <3>2. QED
      BY <1>3, <2>1, <3>1, k + 1 \in Nat
  <2>2. QED
    BY <2>1
<1>6. \A k \in Nat : k \in T
  <2> HIDE DEF T
  <2>1. QED
    BY <1>4, <1>5, AllNaturals
<1>7. n - Number(q) \in Nat /\ n - Number(q) <= n - Number(q)
  BY <1>1
<1>8. ~(Number(q) > Number(a))
  BY <1>6, <1>7
<1>9. QED
  BY <1>1, <1>8

-----------------------------------------------------------------------------
(* The tree, and what intersect finds in it. *)

\* The tree as far as it is built: a dominator found has one itself, a higher
\* number, and whatever strictly dominates the block dominates it.
Tree ==
  /\ idom \in [Blocks(fn) -> Blocks(fn) \cup {0}]
  /\ idom[Entry] = Entry
  /\ \A b \in Found \ {Entry} :
       /\ idom[b] \in Found
       /\ Number(idom[b]) > Number(b)
       /\ \A a \in Blocks(fn) : StrictlyDominates(fn, a, b) => Dominates(fn, a, idom[b])

\* The blocks a climb from c comes through.
Upward(U) == \A y \in U : idom[y] \in U
\* The numbers a climb from c can come through.
Above(c) == {x \in Found : \A U \in SUBSET Found : c \in U /\ Upward(U) => x \in U}

\* The entry has a dominator, itself, and 0 stands for none.
LEMMA FoundIs ==
  ASSUME fn \in Functions, Ordered, Tree
  PROVE  /\ Found \subseteq Blocks(fn) /\ Entry \in Found /\ 0 \notin Found /\ 0 \notin Blocks(fn)
         /\ Upward(Found)
         /\ \A b \in Blocks(fn) : b \in Found <=> idom[b] # 0
<1>1. Entry \in Blocks(fn) /\ 0 \notin Blocks(fn)
  <2>1. Len(fn.blocks) \in Nat /\ Blocks(fn) = 1 .. Len(fn.blocks) /\ Entry \in Blocks(fn)
    BY FunctionShape
  <2>2. QED
    BY <2>1
<1>2. Entry \in Found
  BY <1>1 DEF Tree, Found, Entry
<1>3. Upward(Found)
  BY <1>2 DEF Upward, Tree
<1>4. QED
  BY <1>1, <1>2, <1>3 DEF Found

\* Climbing further from a block above c comes through blocks above c only, and
\* the numbers do not go down.
LEMMA AboveIs ==
  ASSUME fn \in Functions, Ordered, Tree, NEW c \in Found
  PROVE  /\ c \in Above(c) /\ Above(c) \subseteq Found
         /\ Upward(Above(c))
         /\ \A x \in Above(c) : Above(x) \subseteq Above(c)
         /\ idom[c] \in Found
         /\ Above(c) = {c} \cup Above(idom[c])
         /\ \A x \in Above(c) : Number(x) >= Number(c)
<1>1. c \in Above(c) /\ Above(c) \subseteq Found
  BY DEF Above
<1>2. ASSUME NEW d \in Found PROVE Upward(Above(d))
  <2>1. ASSUME NEW y \in Above(d) PROVE idom[y] \in Above(d)
    <3>1. idom[y] \in Found
      BY FoundIs DEF Above, Upward
    <3>2. ASSUME NEW U \in SUBSET Found, d \in U, Upward(U) PROVE idom[y] \in U
      <4>1. y \in U
        BY <3>2 DEF Above
      <4>2. QED
        BY <3>2, <4>1 DEF Upward
    <3>3. QED
      BY <3>1, <3>2 DEF Above
  <2>2. QED
    BY <2>1 DEF Upward
<1>3. idom[c] \in Found
  BY FoundIs DEF Upward
<1>4. ASSUME NEW x \in Above(c) PROVE Above(x) \subseteq Above(c)
  <2>1. Above(c) \in SUBSET Found /\ Upward(Above(c))
    BY <1>1, <1>2
  <2>2. QED
    BY <2>1 DEF Above
<1>5. Above(c) = {c} \cup Above(idom[c])
  <2>1. Above(idom[c]) \subseteq Above(c)
    BY <1>1, <1>2, <1>4 DEF Upward
  <2> DEFINE U == {c} \cup Above(idom[c])
  <2>2. idom[c] \in Above(idom[c]) /\ Above(idom[c]) \subseteq Found
    BY <1>3 DEF Above
  <2>3. Upward(U)
    BY <1>2, <1>3, <2>2 DEF Upward
  <2>4. U \in SUBSET Found /\ c \in U
    BY <2>2
  <2> HIDE DEF U
  <2>5. Above(c) \subseteq U
    BY <2>3, <2>4 DEF Above
  <2>6. QED
    BY <1>1, <2>1, <2>5 DEF U
<1>6. \A x \in Above(c) : Number(x) >= Number(c)
  <2> DEFINE U == {y \in Found : Number(y) >= Number(c)}
  <2>1. \A y \in Found : Number(y) \in Nat
    BY NumberIs, FoundIs
  <2>2. ASSUME NEW y \in U PROVE idom[y] \in U
    <3>1. CASE y = Entry
      BY <3>1 DEF Tree
    <3>2. CASE y # Entry
      <4>1. idom[y] \in Found /\ Number(idom[y]) > Number(y)
        BY <3>2 DEF Tree
      <4>2. QED
        BY <2>1, <4>1
    <3>3. QED
      BY <3>1, <3>2
  <2>3. c \in U
    BY <2>1
  <2>4. U \in SUBSET Found /\ Upward(U)
    BY <2>2 DEF Upward
  <2> HIDE DEF U
  <2>5. Above(c) \subseteq U
    BY <2>3, <2>4 DEF Above
  <2>6. QED
    BY <2>5 DEF U
<1>7. QED
  BY <1>1, <1>2, <1>3, <1>4, <1>5, <1>6

\* Two blocks and what the climb from them is to find: a block above both that
\* all dominators of both dominate.
Meets(b, c, d) ==
  /\ d \in Above(b) /\ d \in Above(c)
  /\ \A a \in Blocks(fn) : Dominates(fn, a, b) /\ Dominates(fn, a, c) => Dominates(fn, a, d)

\* One step of the climb: the lower of the two goes up.
LEMMA StepUp ==
  ASSUME fn \in Functions, Ordered, Tree, NEW b \in Found, NEW c \in Found,
         Number(b) < Number(c)
  PROVE  /\ idom[b] \in Found /\ Number(idom[b]) > Number(b)
         /\ \A d : Meets(idom[b], c, d) => Meets(b, c, d)
<1>1. Number(b) \in 1 .. Len(postorder) /\ Number(c) \in 1 .. Len(postorder)
      /\ Number(Entry) = Len(postorder) /\ Len(postorder) \in Nat
  BY NumberIs, FoundIs
<1>2. b # Entry
  BY <1>1
<1>3. idom[b] \in Found /\ Number(idom[b]) > Number(b)
  BY <1>2 DEF Tree
<1>4. ASSUME NEW d, Meets(idom[b], c, d) PROVE Meets(b, c, d)
  <2>1. d \in Above(b)
    BY <1>4, AboveIs DEF Meets
  <2>2. ASSUME NEW a \in Blocks(fn), Dominates(fn, a, b), Dominates(fn, a, c)
        PROVE  Dominates(fn, a, d)
    <3>1. a # b
      <4>1. Number(a) >= Number(c)
        BY <2>2, DominatorsComeFirst, FoundIs
      <4>2. QED
        BY <1>1, <4>1
    <3>2. Dominates(fn, a, idom[b])
      BY <1>2, <2>2, <3>1 DEF Tree, StrictlyDominates
    <3>3. QED
      BY <1>4, <2>2, <3>2 DEF Meets
  <2>3. QED
    BY <1>4, <2>1, <2>2 DEF Meets
<1>5. QED
  BY <1>3, <1>4

\* Where two climbs meet does not depend on the order.
LEMMA MeetsSymmetric ==
  ASSUME NEW b, NEW c, NEW d, Meets(b, c, d) PROVE Meets(c, b, d)
BY DEF Meets

\* intersect finds a block above both that all dominators of both dominate, and
\* it ends: the lower number goes up until the numbers are the same.
LEMMA MeetIs ==
  ASSUME fn \in Functions, Ordered, Tree, NEW b \in Found, NEW c \in Found
  PROVE  Meets(b, c, Meet(b, c))
<1> DEFINE D == Found \X Found
           up(p) == IF Number(p[1]) < Number(p[2]) THEN <<idom[p[1]], p[2]>> ELSE <<p[1], idom[p[2]]>>
           Body(g) == [p \in D |-> IF p[1] = p[2] THEN p[1]
                                   ELSE IF Number(p[1]) < Number(p[2]) THEN g[<<idom[p[1]], p[2]>>]
                                   ELSE g[<<p[1], idom[p[2]]>>]]
           w == CHOOSE g : g = Body(g)
           n == Len(postorder)
           down(p) == (n - Number(p[1])) + (n - Number(p[2]))
           stop == {p \in D : p[1] = p[2]}
           val == [p \in D |-> p[1]]
           next == [p \in D |-> up(p)]
           m == [p \in D |-> down(p)]
<1>1. n \in Nat /\ \A x \in Found : Number(x) \in Nat /\ Number(x) <= n /\ Number(x) >= 1
  BY NumberIs, FoundIs
<1>2. \A x, y \in Found : Number(x) = Number(y) => x = y
  BY NumberIs, FoundIs
<1>3. \A x \in Found : idom[x] \in Found
  BY FoundIs DEF Upward
<1>4. ASSUME NEW p \in D PROVE /\ p[1] \in Found /\ p[2] \in Found /\ p = <<p[1], p[2]>>
                               /\ up(p) \in D /\ down(p) \in Nat /\ down(p) <= n + n
  BY <1>1, <1>3
<1>5. ASSUME NEW p \in D, p[1] # p[2]
      PROVE  /\ down(up(p)) < down(p)
             /\ \A d : Meets(up(p)[1], up(p)[2], d) => Meets(p[1], p[2], d)
  <2> HIDE DEF n
  <2>0. p[1] \in Found /\ p[2] \in Found
    OBVIOUS
  <2>1. CASE Number(p[1]) < Number(p[2])
    <3>1. idom[p[1]] \in Found /\ Number(idom[p[1]]) > Number(p[1])
          /\ \A d : Meets(idom[p[1]], p[2], d) => Meets(p[1], p[2], d)
      BY <2>0, <2>1, StepUp
    <3>2. up(p) = <<idom[p[1]], p[2]>>
      BY <2>1
    <3>3. up(p)[1] = idom[p[1]] /\ up(p)[2] = p[2]
      BY <3>2
    <3> HIDE DEF up
    <3>4. down(up(p)) < down(p)
      BY <1>1, <2>0, <3>1, <3>3
    <3>5. QED
      BY <3>1, <3>3, <3>4
  <2>2. CASE ~(Number(p[1]) < Number(p[2]))
    <3>0. Number(p[2]) < Number(p[1])
      BY <1>1, <1>2, <1>5, <2>0, <2>2
    <3>1. idom[p[2]] \in Found /\ Number(idom[p[2]]) > Number(p[2])
          /\ \A d : Meets(idom[p[2]], p[1], d) => Meets(p[2], p[1], d)
      BY <2>0, <3>0, StepUp
    <3>2. up(p) = <<p[1], idom[p[2]]>>
      BY <2>2
    <3>3. up(p)[1] = p[1] /\ up(p)[2] = idom[p[2]]
      BY <3>2
    <3> HIDE DEF up
    <3>4. down(up(p)) < down(p)
      BY <1>1, <2>0, <3>1, <3>3
    <3>5. \A d : Meets(p[1], idom[p[2]], d) => Meets(p[1], p[2], d)
      BY <3>1, MeetsSymmetric
    <3>6. QED
      BY <3>3, <3>4, <3>5
  <2>3. QED
    BY <2>1, <2>2
<1>6. Meet(b, c) = w[<<b, c>>]
  BY DEF Meet
<1>7. w = Body(w)
  <2>1. \E g : Climbing(g, D, Found, stop, val, next)
    <3>1. val \in [D -> Found]
      OBVIOUS
    <3>2. next \in [D -> D] /\ m \in [D -> Nat]
      <4> HIDE DEF up, down
      <4>1. QED
        BY <1>4
    <3>3. \A p \in D : m[p] <= n + n
      <4> HIDE DEF up, down
      <4>1. QED
        BY <1>4
    <3>4. \A p \in D : p \notin stop => m[next[p]] < m[p]
      <4>1. ASSUME NEW p \in D, p \notin stop PROVE m[next[p]] < m[p]
        <5>1. up(p) \in D /\ down(up(p)) < down(p)
          BY <1>4, <1>5, <4>1
        <5> HIDE DEF up, down
        <5>2. next[p] = up(p) /\ m[p] = down(p)
          OBVIOUS
        <5>3. m[up(p)] = down(up(p))
          BY <5>1
        <5>4. QED
          BY <5>1, <5>2, <5>3
      <4>2. QED
        BY <4>1
    <3>5. n + n \in Nat
      BY <1>1
    <3> DEFINE K == n + n
    <3> HIDE DEF D, stop, val, next, m, K
    <3>6. K \in Nat /\ \A p \in D : m[p] <= K
      BY <3>3, <3>5 DEF K
    <3>7. QED
      BY <3>1, <3>2, <3>4, <3>6, ClimbEnds
  <2>2. ASSUME NEW g, Climbing(g, D, Found, stop, val, next) PROVE g = Body(g)
    <3>1. g \in [D -> Found]
      BY <2>2 DEF Climbing
    <3>2. ASSUME NEW p \in D PROVE g[p] = Body(g)[p]
      <4>1. g[p] = IF p[1] = p[2] THEN p[1] ELSE g[up(p)]
        <5>1. g[p] = IF p \in stop THEN val[p] ELSE g[next[p]]
          BY <2>2 DEF Climbing
        <5> HIDE DEF up
        <5>2. val[p] = p[1] /\ next[p] = up(p) /\ (p \in stop <=> p[1] = p[2])
          OBVIOUS
        <5>3. QED
          BY <5>1, <5>2
      <4>2. QED
        BY <4>1
    <3>3. DOMAIN Body(g) = D /\ Body(g) = [p \in D |-> Body(g)[p]]
      OBVIOUS
    <3> HIDE DEF Body, D
    <3>4. QED
      BY <3>1, <3>2, <3>3
  <2> HIDE DEF Body
  <2>3. QED
    BY <2>1, <2>2
<1>8. ASSUME NEW p \in D PROVE w[p] = IF p[1] = p[2] THEN p[1] ELSE w[up(p)]
  <2> HIDE DEF w
  <2>1. Body(w)[p] = IF p[1] = p[2] THEN p[1] ELSE w[up(p)]
    OBVIOUS
  <2> HIDE DEF Body
  <2>2. QED
    BY <1>7, <2>1
<1> HIDE DEF w
<1> DEFINE T == {k \in Nat : \A p \in D : down(p) < k => Meets(p[1], p[2], w[p])}
<1>9. 0 \in T
  <2>1. ASSUME NEW p \in D PROVE ~(down(p) < 0)
    <3>1. down(p) \in Nat
      BY <1>4
    <3> HIDE DEF down
    <3>2. QED
      BY <3>1
  <2> HIDE DEF down, D
  <2>2. QED
    BY <2>1
<1>10. ASSUME NEW k \in Nat, k \in T PROVE k + 1 \in T
  <2>1. ASSUME NEW p \in D, down(p) < k + 1 PROVE Meets(p[1], p[2], w[p])
    <3>1. CASE p[1] = p[2]
      <4>1. p[1] \in Above(p[1])
        BY <1>4, AboveIs
      <4>2. w[p] = p[1]
        BY <1>8, <3>1
      <4>3. QED
        BY <3>1, <4>1, <4>2 DEF Meets
    <3>2. CASE p[1] # p[2]
      <4>1. up(p) \in D /\ down(up(p)) < down(p) /\ down(p) \in Nat /\ down(up(p)) \in Nat
        BY <1>4, <1>5, <3>2
      <4>2. \A d : Meets(up(p)[1], up(p)[2], d) => Meets(p[1], p[2], d)
        BY <1>5, <3>2
      <4>3. w[p] = w[up(p)]
        BY <1>8, <3>2
      <4> HIDE DEF down, up, D
      <4>4. down(up(p)) < k
        BY <2>1, <4>1
      <4>5. Meets(up(p)[1], up(p)[2], w[up(p)])
        BY <1>10, <4>1, <4>4
      <4>6. QED
        BY <4>2, <4>3, <4>5
    <3>3. QED
      BY <3>1, <3>2
  <2> HIDE DEF down, D
  <2>2. QED
    BY <2>1
<1>11. \A k \in Nat : k \in T
  <2> HIDE DEF T
  <2>1. QED
    BY <1>9, <1>10, AllNaturals
<1>12. <<b, c>> \in D /\ down(<<b, c>>) \in Nat
  BY <1>1
<1> HIDE DEF down, D
<1>13. down(<<b, c>>) + 1 \in T /\ down(<<b, c>>) < down(<<b, c>>) + 1
  BY <1>11, <1>12
<1>14. Meets(<<b, c>>[1], <<b, c>>[2], w[<<b, c>>])
  BY <1>12, <1>13
<1>15. QED
  BY <1>6, <1>14

\* What a block's turn finds for it: a block above all predecessors that have
\* a dominator, which whatever dominates all predecessors dominates.
LEMMA NewIdomIs ==
  ASSUME fn \in Functions, Ordered, Tree, NEW b \in Blocks(fn)
  PROVE  /\ NewIdom(b) \in Found \cup {0}
         /\ (\E p \in Found : b \in Succs(fn, p)) => NewIdom(b) # 0
         /\ NewIdom(b) # 0 => \A p \in Found : b \in Succs(fn, p) => NewIdom(b) \in Above(p)
         /\ NewIdom(b) # 0 => \A a \in Blocks(fn) :
              (\A p \in Blocks(fn) : b \in Succs(fn, p) => Dominates(fn, a, p))
                => Dominates(fn, a, NewIdom(b))
         /\ Len(Preds(fn, b)) = 1 /\ Preds(fn, b)[1] \in Found => NewIdom(b) = Preds(fn, b)[1]
<1> DEFINE P == Preds(fn, b)
           N == Len(P)
           V == Found \cup {0}
           new(i, d) == IF P[i] \notin Found THEN d ELSE IF d = 0 THEN P[i] ELSE Meet(P[i], d)
           Body(g) == [i \in 0 .. N |-> IF i = 0 THEN 0
                                        ELSE IF P[i] \notin Found THEN g[i - 1]
                                        ELSE IF g[i - 1] = 0 THEN P[i]
                                        ELSE Meet(P[i], g[i - 1])]
           w == CHOOSE g : g = Body(g)
<1>1. P \in Seq(Blocks(fn)) /\ ToSet(P) = {c \in Blocks(fn) : b \in Succs(fn, c)}
  BY PredsAre
<1>2. NewIdom(b) = w[N]
  BY DEF NewIdom
<1> HIDE DEF P
<1>3. N \in Nat /\ DOMAIN P = 1 .. N /\ \A i \in 1 .. N : P[i] \in Blocks(fn) /\ b \in Succs(fn, P[i])
  BY <1>1 DEF ToSet
<1>4. \A p \in Blocks(fn) : b \in Succs(fn, p) => \E i \in 1 .. N : P[i] = p
  BY <1>1, <1>3 DEF ToSet
<1> HIDE DEF N
<1>5. 0 \notin Found
  BY FoundIs
<1>6. ASSUME NEW i \in 1 .. N, NEW d \in Found, P[i] \in Found
      PROVE  Meets(P[i], d, Meet(P[i], d)) /\ Meet(P[i], d) \in Found
  <2>1. Meets(P[i], d, Meet(P[i], d))
    BY <1>6, MeetIs
  <2>2. QED
    BY <1>6, <2>1, AboveIs DEF Meets
<1>7. ASSUME NEW i \in 1 .. N, NEW d \in V PROVE new(i, d) \in V
  BY <1>6
<1>8. w = Body(w)
  <2> DEFINE step == [p \in (1 .. N) \X V |-> new(p[1], p[2])]
             zero == 0
  <2>1. step \in [(1 .. N) \X V -> V]
    <3>1. ASSUME NEW p \in (1 .. N) \X V PROVE new(p[1], p[2]) \in V
      <4>1. p[1] \in 1 .. N /\ p[2] \in V
        OBVIOUS
      <4> HIDE DEF new, V
      <4>2. QED
        BY <1>7, <4>1
    <3> HIDE DEF new, V
    <3>2. QED
      BY <3>1
  <2>2. ASSUME NEW i \in 1 .. N, NEW d \in V PROVE step[<<i, d>>] = new(i, d)
    <3> HIDE DEF new, V
    <3>1. <<i, d>> \in (1 .. N) \X V /\ <<i, d>>[1] = i /\ <<i, d>>[2] = d
      OBVIOUS
    <3>2. QED
      BY <3>1
  <2>3. \E g : Stepwise(g, N, V, zero, step)
    <3>1. zero \in V
      OBVIOUS
    <3> HIDE DEF step, V, zero
    <3>2. QED
      BY <1>3, <2>1, <3>1, StepByStep
  <2> HIDE DEF step
  <2>4. ASSUME NEW g, Stepwise(g, N, V, zero, step) PROVE g = Body(g)
    <3>1. g \in [0 .. N -> V] /\ g[0] = 0
      BY <2>4 DEF Stepwise
    <3>2. ASSUME NEW i \in 0 .. N PROVE g[i] = Body(g)[i]
      <4>1. CASE i = 0
        BY <3>1, <4>1
      <4>2. CASE i # 0
        <5>1. i \in 1 .. N /\ i - 1 \in 0 .. N
          BY <1>3, <4>2
        <5>2. g[i] = step[<<i, g[i - 1]>>]
          BY <2>4, <5>1 DEF Stepwise
        <5>3. g[i - 1] \in V
          BY <3>1, <5>1
        <5>4. step[<<i, g[i - 1]>>] = new(i, g[i - 1])
          <6> HIDE DEF new, V
          <6>1. QED
            BY <2>2, <5>1, <5>3
        <5>5. Body(g)[i] = new(i, g[i - 1])
          BY <4>2
        <5>6. QED
          <6> HIDE DEF new, Body
          <6>1. QED
            BY <5>2, <5>4, <5>5
      <4>3. QED
        BY <4>1, <4>2
    <3>3. DOMAIN Body(g) = 0 .. N /\ Body(g) = [i \in 0 .. N |-> Body(g)[i]]
      OBVIOUS
    <3> HIDE DEF Body, V
    <3>4. QED
      BY <3>1, <3>2, <3>3
  <2> HIDE DEF Body
  <2>5. QED
    BY <2>3, <2>4
<1>9. w[0] = 0 /\ \A i \in 1 .. N : w[i] = new(i, w[i - 1])
  <2> HIDE DEF w
  <2>1. Body(w)[0] = 0 /\ \A i \in 1 .. N : Body(w)[i] = new(i, w[i - 1])
    BY <1>3
  <2> HIDE DEF Body, new
  <2>2. QED
    BY <1>8, <2>1
<1> HIDE DEF w
<1> DEFINE Good(i, d) ==
             /\ d \in V
             /\ (\E j \in 1 .. i : P[j] \in Found) => d # 0
             /\ d # 0 => \A j \in 1 .. i : P[j] \in Found => d \in Above(P[j])
             /\ d # 0 => \A a \in Blocks(fn) :
                  (\A j \in 1 .. N : Dominates(fn, a, P[j])) => Dominates(fn, a, d)
           T == {i \in Nat : i <= N => Good(i, w[i])}
<1>10. 0 \in T
  BY <1>9
<1>11. ASSUME NEW i \in Nat, i \in T PROVE i + 1 \in T
  <2>1. SUFFICES ASSUME i + 1 <= N PROVE Good(i + 1, w[i + 1])
    OBVIOUS
  <2>2. i + 1 \in 1 .. N /\ (i + 1) - 1 = i /\ i <= N
    BY <1>3, <2>1
  <2>3. w[i + 1] = new(i + 1, w[i]) /\ Good(i, w[i])
    <3> HIDE DEF new, Good
    <3>1. QED
      BY <1>9, <1>11, <2>2
  <2>4. \A j \in 1 .. (i + 1) : j \in 1 .. i \/ j = i + 1
    OBVIOUS
  <2> DEFINE q == P[i + 1]
             d == w[i]
  <2>5. q \in Blocks(fn)
    BY <1>3, <2>2
  <2>6. CASE q \notin Found
    BY <2>3, <2>4, <2>6
  <2>7. CASE q \in Found /\ d = 0
    <3>1. w[i + 1] = q
      BY <2>3, <2>7
    <3>2. \A j \in 1 .. i : P[j] \notin Found
      BY <2>3, <2>7
    <3>3. q \in Above(q)
      BY <2>7, AboveIs
    <3>4. QED
      BY <1>5, <2>2, <2>4, <2>7, <3>1, <3>2, <3>3
  <2>8. CASE q \in Found /\ d # 0
    <3>1. w[i + 1] = Meet(q, d) /\ d \in Found
      BY <2>3, <2>8
    <3>2. Meets(q, d, Meet(q, d)) /\ Meet(q, d) \in Found
      BY <1>6, <2>2, <2>8, <3>1
    <3>4. ASSUME NEW j \in 1 .. i, P[j] \in Found PROVE Meet(q, d) \in Above(P[j])
      <4>1. d \in Above(P[j])
        BY <2>3, <2>8, <3>4
      <4>2. Above(d) \subseteq Above(P[j])
        BY <3>4, <4>1, AboveIs
      <4>3. QED
        BY <3>2, <4>2 DEF Meets
    <3>5. ASSUME NEW a \in Blocks(fn), \A j \in 1 .. N : Dominates(fn, a, P[j])
          PROVE  Dominates(fn, a, Meet(q, d))
      <4>1. Dominates(fn, a, d) /\ Dominates(fn, a, q)
        BY <2>2, <2>3, <2>8, <3>5
      <4>2. QED
        BY <3>2, <4>1 DEF Meets
    <3>6. Meet(q, d) # 0 /\ Meet(q, d) \in Above(q)
      BY <1>5, <3>2 DEF Meets
    <3> DEFINE x == Meet(q, d)
    <3> HIDE DEF x
    <3>7. \A j \in 1 .. (i + 1) : P[j] \in Found => x \in Above(P[j])
      BY <2>4, <3>4, <3>6 DEF x
    <3>8. Good(i + 1, x)
      BY <3>2, <3>5, <3>6, <3>7 DEF x
    <3>9. QED
      BY <3>1, <3>8 DEF x
  <2>9. QED
    BY <2>6, <2>7, <2>8
<1>12. Good(N, w[N])
  <2> HIDE DEF Good
  <2>1. \A i \in Nat : i \in T
    <3> HIDE DEF T
    <3>1. QED
      BY <1>10, <1>11, AllNaturals
  <2>2. QED
    BY <1>3, <2>1
<1>13. N = 1 /\ P[1] \in Found => w[N] = P[1]
  BY <1>9
<1>14. \A a \in Blocks(fn) :
         (\A p \in Blocks(fn) : b \in Succs(fn, p) => Dominates(fn, a, p))
           => \A j \in 1 .. N : Dominates(fn, a, P[j])
  BY <1>3
<1>15. ASSUME NEW p \in Found, b \in Succs(fn, p)
       PROVE  w[N] # 0 /\ w[N] \in Above(p)
  <2>1. PICK j \in 1 .. N : P[j] = p
    BY <1>4, <1>15, FoundIs
  <2>2. QED
    BY <1>12, <2>1
<1>16. QED
  BY <1>2, <1>12, <1>13, <1>14, <1>15 DEF P, N

-----------------------------------------------------------------------------
(* The sweeps. *)

\* The blocks the sweep has been at have a dominator, and as long as the sweep
\* has changed nothing the one their turn found.
Sweeping ==
  /\ turn \in 2 .. (Len(postorder) + 1)
  /\ changed \in BOOLEAN
  /\ \A b \in Blocks(fn) : Number(b) > Len(postorder) - turn + 1 =>
       b \in Found /\ (~changed /\ b # Entry => idom[b] = NewIdom(b))

\* A sweep would change nothing.
Complete ==
  \A b \in Blocks(fn) : b \in Found /\ (b # Entry => idom[b] = NewIdom(b))

\* Numbers change only with the postorder, and the tree with the dominators.
LEMMA SameNumbers ==
  ASSUME UNCHANGED <<fn, postorder>>
  PROVE  /\ Ordered => Ordered'
         /\ \A b : Number(b)' = Number(b)
<1>1. Ordered => Ordered'
  BY DEF Ordered, Left
<1>2. \A b : Number(b)' = Number(b)
  BY DEF Number
<1>3. QED
  BY <1>1, <1>2

\* What a step that leaves the tree alone keeps.
LEMMA SameTree ==
  ASSUME UNCHANGED <<fn, postorder, idom>>
  PROVE  /\ Ordered => Ordered'
         /\ Tree => Tree'
         /\ Found' = Found
         /\ \A b : NewIdom(b)' = NewIdom(b)
         /\ \A b : Above(b)' = Above(b)
         /\ Complete => Complete'
<1>1. Found' = Found
  BY DEF Found
<1>2. \A b : Number(b)' = Number(b)
  BY DEF Number
<1>3. Tree => Tree'
  BY <1>1, <1>2 DEF Tree
<1>4. \A b : NewIdom(b)' = NewIdom(b)
  BY DEF NewIdom, Meet, Found, Number
<1>5. \A b : Above(b)' = Above(b)
  BY DEF Above, Upward, Found
<1>6. QED
  BY <1>1, <1>3, <1>4, <1>5, SameNumbers DEF Complete

\* The tree starts as the entry alone.
LEMMA StartTree ==
  ASSUME fn \in Functions, Ordered, turn = 2, changed = FALSE,
         idom = [b \in Blocks(fn) |-> 0],
         idom' = [idom EXCEPT ![Entry] = Entry], UNCHANGED <<fn, postorder, turn, changed>>
  PROVE  Tree' /\ Sweeping'
<1>1. Entry \in Blocks(fn) /\ 0 \notin Blocks(fn)
  <2>1. Len(fn.blocks) \in Nat /\ Blocks(fn) = 1 .. Len(fn.blocks) /\ Entry \in Blocks(fn)
    BY FunctionShape
  <2>2. QED
    BY <2>1
<1>2. /\ idom' \in [Blocks(fn) -> Blocks(fn) \cup {0}]
      /\ idom'[Entry] = Entry
      /\ \A b \in Blocks(fn) : b # Entry => idom'[b] = 0
  BY <1>1
<1>3. Found' = {Entry}
  <2>1. Found' = {b \in Blocks(fn) : idom'[b] # 0}
    BY DEF Found
  <2>2. \A b \in Blocks(fn) : idom'[b] # 0 <=> b = Entry
    BY <1>1, <1>2
  <2>3. QED
    BY <1>1, <2>1, <2>2
<1>4. Tree'
  BY <1>2, <1>3 DEF Tree
<1>5. ASSUME NEW b \in Blocks(fn), Number(b) > Len(postorder) - 2 + 1 PROVE b = Entry
  <2>1. Number(b) \in 1 .. Len(postorder) /\ Len(postorder) \in Nat
        /\ Number(Entry) = Len(postorder)
        /\ \A c, d \in Blocks(fn) : Number(c) = Number(d) => c = d
    BY NumberIs
  <2>2. Number(b) = Len(postorder)
    BY <1>5, <2>1
  <2>3. QED
    BY <1>1, <2>1, <2>2
<1>6. Sweeping'
  <2>1. \A b : Number(b)' = Number(b)
    BY SameNumbers
  <2>2. 2 \in 2 .. (Len(postorder) + 1)
    BY DEF Ordered
  <2>3. QED
    BY <1>3, <1>5, <2>1, <2>2 DEF Sweeping
<1>7. QED
  BY <1>4, <1>6

\* A block's turn adds it to the tree, or moves it up to where all dominators of
\* the block still dominate its place.
LEMMA FindIdomKeepsTree ==
  ASSUME fn \in Functions, Ordered, Tree, Sweeping, FindIdom
  PROVE  Ordered' /\ Tree' /\ Sweeping'
<1> DEFINE n == Len(postorder)
           b == ReversePostorder[turn]
           d == NewIdom(b)
<1>1. /\ fn' = fn /\ postorder' = postorder /\ turn' = turn + 1
      /\ idom' = [idom EXCEPT ![b] = d] /\ changed' = (changed \/ idom[b] # d)
      /\ turn <= n
  BY DEF FindIdom
<1>2. n \in Nat /\ turn \in 2 .. n
  BY <1>1, NumberIs DEF Sweeping
<1>3. b = postorder[n - turn + 1] /\ n - turn + 1 \in 1 .. n
  BY <1>2 DEF ReversePostorder, Reverse
<1> HIDE DEF b
<1>4. b \in Blocks(fn) /\ Number(b) = n - turn + 1
  BY <1>3, NumberIs
<1>5. b # Entry
  BY <1>2, <1>4, NumberIs
\* A predecessor with a higher number has had its turn already.
<1>6. PICK p \in Blocks(fn) : b \in Succs(fn, p) /\ Number(p) > Number(b)
  BY <1>4, <1>5, NumberIs
<1>7. p \in Found
  BY <1>4, <1>6 DEF Sweeping
<1>8. d \in Found /\ d \in Above(p)
  BY <1>4, <1>6, <1>7, NewIdomIs
<1>9. Number(d) > Number(b)
  <2>1. Number(d) >= Number(p)
    BY <1>7, <1>8, AboveIs
  <2>2. Number(d) \in Nat /\ Number(p) \in Nat /\ Number(b) \in Nat
    BY <1>4, <1>8, NumberIs, FoundIs
  <2>3. QED
    BY <1>6, <2>1, <2>2
<1>10. ASSUME NEW a \in Blocks(fn), StrictlyDominates(fn, a, b) PROVE Dominates(fn, a, d)
  <2>1. \A q \in Blocks(fn) : b \in Succs(fn, q) => Dominates(fn, a, q)
    BY <1>10, DominatesPredecessors DEF StrictlyDominates
  <2>2. d # 0
    BY <1>8, FoundIs
  <2>3. QED
    BY <1>4, <2>1, <2>2, NewIdomIs
<1> HIDE DEF d
<1>11. /\ idom' \in [Blocks(fn) -> Blocks(fn) \cup {0}]
       /\ idom'[b] = d
       /\ \A c \in Blocks(fn) : c # b => idom'[c] = idom[c]
  BY <1>1, <1>4, <1>8, FoundIs DEF Tree
<1>12. Found' = Found \cup {b} /\ d # 0 /\ 0 \notin Found
  <2>1. Found' = {c \in Blocks(fn) : idom'[c] # 0}
    BY <1>1 DEF Found
  <2>2. d # 0 /\ 0 \notin Found
    BY <1>8, FoundIs
  <2>3. QED
    BY <1>4, <1>11, <2>1, <2>2 DEF Found
<1>13. Ordered' /\ \A c : Number(c)' = Number(c)
  BY <1>1, SameNumbers
<1>14. Tree'
  <2>1. idom'[Entry] = Entry
    <3>1. Entry \in Blocks(fn)
      BY FunctionShape
    <3>2. QED
      BY <1>5, <1>11, <3>1 DEF Tree
  <2>2. ASSUME NEW c \in Found', c # Entry
        PROVE  /\ idom'[c] \in Found'
               /\ Number(idom'[c]) > Number(c)
               /\ \A a \in Blocks(fn) : StrictlyDominates(fn, a, c) => Dominates(fn, a, idom'[c])
    <3>1. CASE c = b
      BY <1>8, <1>9, <1>10, <1>11, <1>12, <3>1
    <3>2. CASE c # b
      <4>1. c \in Found /\ idom'[c] = idom[c]
        BY <1>11, <1>12, <3>2, FoundIs
      <4>2. QED
        BY <1>12, <2>2, <4>1 DEF Tree
    <3>3. QED
      BY <3>1, <3>2
  <2>3. \A c \in Found' \ {Entry} :
          /\ idom'[c] \in Found'
          /\ Number(idom[c])' > Number(c)'
          /\ \A a \in Blocks(fn) : StrictlyDominates(fn, a, c) => Dominates(fn, a, idom'[c])
    <3>1. \A c : Number(idom[c])' = Number(idom'[c])
      BY <1>1 DEF Number
    <3>2. QED
      BY <1>13, <2>2, <3>1
  <2>4. QED
    BY <1>1, <1>11, <2>1, <2>3 DEF Tree
<1>15. Sweeping'
  <2>1. turn' \in 2 .. (n + 1) /\ changed' \in BOOLEAN
    BY <1>1, <1>2 DEF Sweeping
  <2>2. ASSUME ~changed' PROVE ~changed /\ idom' = idom /\ idom[b] = d
    BY <1>1, <1>4, <2>2 DEF Tree
  <2>3. ASSUME NEW c \in Blocks(fn), Number(c) > n - turn' + 1
        PROVE  c \in Found' /\ (~changed' /\ c # Entry => idom'[c] = NewIdom(c)')
    <3>1. Number(c) \in Nat
      BY NumberIs
    <3>2. c = b \/ Number(c) > n - turn + 1
      <4>1. Number(c) = n - turn + 1 \/ Number(c) > n - turn + 1
        BY <1>1, <1>2, <2>3, <3>1
      <4>2. QED
        BY <1>4, <4>1, NumberIs
    <3>3. c \in Found'
      BY <1>12, <3>2 DEF Sweeping
    <3>4. ASSUME ~changed', c # Entry PROVE idom'[c] = NewIdom(c)'
      <4>1. NewIdom(c)' = NewIdom(c)
        BY <1>1, <2>2, <3>4, SameTree
      <4>2. idom[c] = NewIdom(c)
        BY <2>2, <3>2, <3>4 DEF Sweeping, d
      <4>3. QED
        BY <2>2, <3>4, <4>1, <4>2
    <3>5. QED
      BY <3>3, <3>4
  <2>4. QED
    BY <1>1, <1>13, <2>1, <2>3 DEF Sweeping
<1>16. QED
  BY <1>13, <1>14, <1>15

\* After a whole sweep that has changed nothing.
LEMMA SettledIsComplete ==
  ASSUME fn \in Functions, Ordered, Tree, Sweeping, turn > Len(postorder), ~changed
  PROVE  Complete
<1>1. Len(postorder) \in Nat /\ turn = Len(postorder) + 1
  BY NumberIs DEF Sweeping
<1>2. ASSUME NEW b \in Blocks(fn) PROVE Number(b) > Len(postorder) - turn + 1
  <2>1. Number(b) \in 1 .. Len(postorder)
    BY NumberIs
  <2>2. QED
    BY <1>1, <2>1
<1>3. QED
  BY <1>2 DEF Sweeping, Complete

\* Nothing is above the entry.
LEMMA AboveEntry ==
  ASSUME fn \in Functions, Ordered, Tree, NEW x \in Above(Entry)
  PROVE  x = Entry
<1>1. Entry \in Found /\ x \in Found /\ Found \subseteq Blocks(fn)
  BY FoundIs DEF Above
<1>2. Number(x) >= Number(Entry)
  BY <1>1, AboveIs
<1>3. Number(x) = Number(Entry)
  BY <1>1, <1>2, NumberIs
<1>4. QED
  BY <1>1, <1>3, NumberIs

\* A climb comes through every dominator.
LEMMA DominatorsAreAbove ==
  ASSUME fn \in Functions, Ordered, Tree, Found = Blocks(fn),
         NEW a \in Blocks(fn), NEW c \in Blocks(fn), Dominates(fn, a, c)
  PROVE  a \in Above(c)
<1> DEFINE n == Len(postorder)
           T == {k \in Nat : \A x \in Blocks(fn) :
                   n - Number(x) <= k /\ Dominates(fn, a, x) => a \in Above(x)}
<1>1. n \in Nat /\ \A b \in Blocks(fn) : Number(b) \in Nat /\ Number(b) <= n
  BY NumberIs
<1> HIDE DEF n
<1>2. ASSUME NEW x \in Blocks(fn), Dominates(fn, a, x),
             \A y \in Blocks(fn) : Number(y) > Number(x) /\ Dominates(fn, a, y) => a \in Above(y)
      PROVE  a \in Above(x)
  <2>1. CASE a = x
    BY <2>1, AboveIs
  <2>2. CASE a # x
    <3>1. x # Entry
      BY <1>2, <2>2, DominatesEntry
    <3>2. idom[x] \in Blocks(fn) /\ Number(idom[x]) > Number(x) /\ Dominates(fn, a, idom[x])
      BY <1>2, <2>2, <3>1 DEF Tree, StrictlyDominates
    <3>3. a \in Above(idom[x])
      BY <1>2, <3>2
    <3>4. QED
      BY <3>3, AboveIs
  <2>3. QED
    BY <2>1, <2>2
<1>3. 0 \in T
  <2>1. ASSUME NEW x \in Blocks(fn), n - Number(x) <= 0, Dominates(fn, a, x)
        PROVE  a \in Above(x)
    <3>1. \A y \in Blocks(fn) : ~(Number(y) > Number(x))
      BY <1>1, <2>1
    <3>2. QED
      BY <1>2, <2>1, <3>1
  <2>2. QED
    BY <2>1
<1>4. ASSUME NEW k \in Nat, k \in T PROVE k + 1 \in T
  <2>1. ASSUME NEW x \in Blocks(fn), n - Number(x) <= k + 1, Dominates(fn, a, x)
        PROVE  a \in Above(x)
    <3>1. ASSUME NEW y \in Blocks(fn), Number(y) > Number(x), Dominates(fn, a, y)
          PROVE  a \in Above(y)
      <4>1. n - Number(y) <= k
        BY <1>1, <2>1, <3>1
      <4>2. QED
        BY <1>4, <3>1, <4>1
    <3>2. QED
      BY <1>2, <2>1, <3>1
  <2>2. QED
    BY <2>1
<1>5. \A k \in Nat : k \in T
  <2> HIDE DEF T
  <2>1. QED
    BY <1>3, <1>4, AllNaturals
<1>6. n - Number(c) \in Nat /\ n - Number(c) <= n - Number(c)
  BY <1>1
<1>7. QED
  BY <1>5, <1>6

\* When the sweeps have settled, a climb comes through dominators only: what
\* is missed by the climb from a block can be avoided on a path to it.
LEMMA AboveIsDominance ==
  ASSUME fn \in Functions, Ordered, Tree, Complete,
         NEW a \in Blocks(fn), NEW c \in Blocks(fn)
  PROVE  a \in Above(c) <=> Dominates(fn, a, c)
<1>1. Found = Blocks(fn)
  BY FoundIs DEF Complete
<1>2. ASSUME a \in Above(c) PROVE Dominates(fn, a, c)
  <2> DEFINE Y == {d \in Blocks(fn) : a \notin Above(d)}
  <2>1. Entry \in Blocks(fn)
    BY FunctionShape
  <2>2. Entry # a => Entry \in Y
    BY <2>1, AboveEntry
  <2>3. ASSUME NEW d \in Y, NEW s \in Succs(fn, d), s # a PROVE s \in Y
    <3>1. s \in Blocks(fn) /\ s # Entry
      BY <2>3, FunctionShape
    <3>2. idom[s] = NewIdom(s) /\ idom[s] # 0
      BY <1>1, <3>1, FoundIs DEF Complete
    <3>3. idom[s] \in Above(d)
      BY <1>1, <2>3, <3>1, <3>2, NewIdomIs
    <3>4. Above(idom[s]) \subseteq Above(d)
      BY <1>1, <3>3, AboveIs
    <3>5. Above(s) = {s} \cup Above(idom[s])
      BY <1>1, <3>1, AboveIs
    <3>6. QED
      BY <2>3, <3>1, <3>4, <3>5
  <2>4. Closed(fn, a, Y)
    BY <2>2, <2>3 DEF Closed
  <2>5. ~Dominates(fn, a, c) => c \in Y
    <3> HIDE DEF Y
    <3>1. Y \in SUBSET Blocks(fn)
      BY DEF Y
    <3>2. QED
      BY <2>4, <3>1, MissedAreClosed
  <2>6. QED
    BY <1>2, <2>5
<1>3. QED
  BY <1>1, <1>2, DominatorsAreAbove

\* A tree the sweeps leave unchanged is the dominator tree.
LEMMA CompleteIsExact ==
  ASSUME fn \in Functions, Ordered, Tree, Complete
  PROVE  DominatorsExact
<1> SUFFICES ASSUME NEW b \in Blocks(fn), b # Entry
             PROVE  /\ StrictlyDominates(fn, idom[b], b)
                    /\ \A c \in Blocks(fn) : StrictlyDominates(fn, c, b) => Dominates(fn, c, idom[b])
  BY DEF DominatorsExact
<1>1. Found = Blocks(fn) /\ b \in Found
  BY FoundIs DEF Complete
<1>2. /\ idom[b] \in Blocks(fn) /\ Number(idom[b]) > Number(b)
      /\ \A a \in Blocks(fn) : StrictlyDominates(fn, a, b) => Dominates(fn, a, idom[b])
  BY <1>1 DEF Tree
<1>3. idom[b] # b
  <2>1. Number(b) \in 1 .. Len(postorder)
    BY NumberIs
  <2>2. QED
    BY <1>2, <2>1
<1>4. idom[b] \in Above(b)
  BY <1>1, AboveIs DEF Upward
<1>5. Dominates(fn, idom[b], b)
  BY <1>2, <1>4, AboveIsDominance
<1>6. QED
  BY <1>2, <1>3, <1>5 DEF StrictlyDominates

-----------------------------------------------------------------------------
(* The frontiers. *)

\* The edges the frontiers are found from: those into blocks with several.
LEMMA JoinEdgesAre ==
  ASSUME fn \in Functions
  PROVE  /\ JoinEdges \in Seq(Blocks(fn) \X Blocks(fn))
         /\ \A c, p : <<c, p>> \in ToSet(JoinEdges) <=>
              /\ c \in Blocks(fn) /\ p \in Blocks(fn) /\ c \in Succs(fn, p)
              /\ Len(Preds(fn, c)) >= 2
<1> DEFINE S == Blocks(fn) \X Blocks(fn)
           from(b) == IF Len(Preds(fn, b)) < 2 THEN << >>
                      ELSE [k \in DOMAIN Preds(fn, b) |-> <<b, Preds(fn, b)[k]>>]
           ss == [b \in Blocks(fn) |-> from(b)]
<1>1. ASSUME NEW b \in Blocks(fn)
      PROVE  /\ from(b) \in Seq(S)
             /\ \A c, p : <<c, p>> \in ToSet(from(b)) <=>
                  /\ c = b /\ p \in Blocks(fn) /\ c \in Succs(fn, p)
                  /\ Len(Preds(fn, c)) >= 2
  <2> DEFINE P == Preds(fn, b)
  <2>1. P \in Seq(Blocks(fn)) /\ ToSet(P) = {c \in Blocks(fn) : b \in Succs(fn, c)}
    BY PredsAre
  <2>2. CASE Len(P) < 2
    <3>1. from(b) = << >>
      BY <2>2
    <3>2. ToSet(<< >>) = {}
      BY DEF ToSet
    <3>3. \A c : c = b => ~(Len(Preds(fn, c)) >= 2)
      BY <2>1, <2>2
    <3>4. << >> \in Seq(S)
      OBVIOUS
    <3> HIDE DEF from
    <3>5. QED
      BY <3>1, <3>2, <3>3, <3>4
  <2>3. CASE ~(Len(P) < 2)
    <3> HIDE DEF P
    <3> DEFINE t == [k \in DOMAIN P |-> <<b, P[k]>>]
    <3>1. from(b) = t
      BY <2>3 DEF P
    <3>2. DOMAIN t = DOMAIN P /\ t \in Seq(S)
      <4>1. DOMAIN P = 1 .. Len(P) /\ Len(P) \in Nat /\ \A k \in DOMAIN P : <<b, P[k]>> \in S
        BY <2>1
      <4>2. QED
        BY <4>1
    <3>3. ASSUME NEW c, NEW p, <<c, p>> \in ToSet(t) PROVE c = b /\ p \in ToSet(P)
      <4>1. PICK k \in DOMAIN P : <<c, p>> = <<b, P[k]>>
        BY <3>3 DEF ToSet
      <4>2. QED
        BY <4>1 DEF ToSet
    <3>4. ASSUME NEW p \in ToSet(P) PROVE <<b, p>> \in ToSet(t)
      <4>1. PICK k \in DOMAIN P : p = P[k]
        BY DEF ToSet
      <4>2. QED
        BY <4>1 DEF ToSet
    <3>5. Len(Preds(fn, b)) >= 2
      BY <2>1, <2>3 DEF P
    <3> HIDE DEF t, from
    <3>6. QED
      BY <2>1, <3>1, <3>2, <3>3, <3>4, <3>5
  <2>4. QED
    BY <2>2, <2>3
<1>2. JoinEdges = FlattenSeq(ss)
  BY DEF JoinEdges
<1> HIDE DEF from
<1>3. ss \in Seq(Seq(S)) /\ DOMAIN ss = Blocks(fn) /\ \A b \in Blocks(fn) : ss[b] = from(b)
  BY <1>1, FunctionShape
<1> HIDE DEF ss, S
<1>4. FlattenSeq(ss) \in Seq(S) /\ ToSet(FlattenSeq(ss)) = UNION {ToSet(ss[b]) : b \in DOMAIN ss}
  BY <1>3, Flattened
<1>5. \A c, p : <<c, p>> \in ToSet(FlattenSeq(ss)) <=> \E b \in Blocks(fn) : <<c, p>> \in ToSet(from(b))
  BY <1>3, <1>4
<1>6. QED
  BY <1>1, <1>2, <1>4, <1>5 DEF S

\* What climbing from p and stopping before top comes through.
Passed(p, top) == Above(p) \ Above(top)

\* The joins the climbs that are over, and the one that is not, have put into
\* the frontier of b.
Done(b) == {c \in Blocks(fn) : \E e \in 1 .. (edge - 1) :
              JoinEdges[e][1] = c /\ b \in Passed(JoinEdges[e][2], idom[c])}
\* The joins whose edge the climb is at and that have b in front of it.
Doing(b) == {c \in Blocks(fn) : /\ edge \in DOMAIN JoinEdges
                                /\ JoinEdges[edge][1] = c
                                /\ b \in Passed(JoinEdges[edge][2], runner)}

\* The frontiers hold what the climbs so far have come through.
FrontiersGrow ==
  /\ edge \in 1 .. (Len(JoinEdges) + 1)
  /\ edge \in DOMAIN JoinEdges => /\ runner \in Above(JoinEdges[edge][2])
                                  /\ idom[JoinEdges[edge][1]] \in Above(runner)
  /\ frontier \in [Blocks(fn) -> SUBSET Blocks(fn)]
  /\ \A b \in Blocks(fn) : frontier[b] = Done(b) \cup Doing(b)

\* The climb from a predecessor of a join reaches the join's dominator.
LEMMA EdgeStarts ==
  ASSUME fn \in Functions, Ordered, Tree, Complete, NEW e \in DOMAIN JoinEdges
  PROVE  LET c == JoinEdges[e][1]
             p == JoinEdges[e][2]
         IN  /\ c \in Blocks(fn) /\ p \in Blocks(fn) /\ c # Entry /\ c \in Succs(fn, p)
             /\ p \in Above(p) /\ idom[c] \in Above(p)
<1> DEFINE c == JoinEdges[e][1]
           p == JoinEdges[e][2]
<1>1. JoinEdges[e] \in ToSet(JoinEdges) /\ JoinEdges[e] \in Blocks(fn) \X Blocks(fn)
  BY JoinEdgesAre DEF ToSet
<1>2. JoinEdges[e] = <<c, p>> /\ c \in Blocks(fn) /\ p \in Blocks(fn)
  BY <1>1
<1> HIDE DEF c, p
<1>3. c \in Succs(fn, p)
  BY <1>1, <1>2, JoinEdgesAre
<1>4. c # Entry
  BY <1>2, <1>3, FunctionShape
<1>5. Found = Blocks(fn)
  BY FoundIs DEF Complete
<1>6. idom[c] = NewIdom(c) /\ idom[c] # 0
  BY <1>2, <1>4, <1>5, FoundIs DEF Complete
<1>7. p \in Above(p) /\ idom[c] \in Above(p)
  BY <1>2, <1>3, <1>5, <1>6, NewIdomIs, AboveIs
<1>8. QED
  BY <1>2, <1>3, <1>4, <1>7 DEF c, p

\* The climbs start with empty frontiers.
LEMMA StartFrontiers ==
  ASSUME fn \in Functions, Ordered, Tree, Complete,
         edge = 1, frontier = [b \in Blocks(fn) |-> {}], runner' = StartAt(1),
         UNCHANGED <<fn, postorder, idom, edge, frontier>>
  PROVE  FrontiersGrow'
<1>1. JoinEdges' = JoinEdges /\ \A b : Above(b)' = Above(b)
  BY SameTree DEF JoinEdges
<1>2. edge \in DOMAIN JoinEdges => runner' = JoinEdges[edge][2]
  BY DEF StartAt
<1>3. edge \in DOMAIN JoinEdges =>
        /\ runner' \in Above(JoinEdges[edge][2])
        /\ idom[JoinEdges[edge][1]] \in Above(runner')
  BY <1>2, EdgeStarts
<1>4. \A b : Above(runner)' = Above(runner')
  BY <1>1 DEF Above, Found, Upward
<1>5. \A b \in Blocks(fn) : Done(b)' = {}
  <2>1. 1 .. (edge - 1) = {}
    OBVIOUS
  <2>2. QED
    BY <2>1 DEF Done
<1>6. ASSUME NEW b \in Blocks(fn) PROVE Doing(b)' = {}
  <2>1. \A c : ~(edge \in DOMAIN JoinEdges /\ JoinEdges[edge][1] = c
                  /\ b \in Above(JoinEdges[edge][2]) \ Above(runner'))
    BY <1>2
  <2>2. Above(JoinEdges[edge][2])' = Above(JoinEdges[edge][2])
    BY <1>1 DEF Above, Found, Upward
  <2>3. QED
    BY <1>1, <1>4, <2>1, <2>2 DEF Doing, Passed
<1>7. edge \in 1 .. (Len(JoinEdges) + 1)
  <2>1. Len(JoinEdges) \in Nat
    BY JoinEdgesAre
  <2>2. QED
    BY <2>1
<1>8. QED
  BY <1>1, <1>3, <1>4, <1>5, <1>6, <1>7 DEF FrontiersGrow

\* Above a block, itself aside, are the blocks above its dominator.
LEMMA OneUp ==
  ASSUME fn \in Functions, Ordered, Tree, NEW x \in Found, x # Entry
  PROVE  Above(x) = {x} \cup Above(idom[x]) /\ x \notin Above(idom[x])
<1>1. Above(x) = {x} \cup Above(idom[x]) /\ idom[x] \in Found
  BY AboveIs
<1>2. Number(idom[x]) > Number(x) /\ Number(x) \in Nat /\ Number(idom[x]) \in Nat
  BY <1>1, NumberIs, FoundIs DEF Tree
<1>3. ASSUME x \in Above(idom[x]) PROVE FALSE
  <2>1. Number(x) >= Number(idom[x])
    BY <1>1, <1>3, AboveIs
  <2>2. QED
    BY <1>2, <2>1
<1>4. QED
  BY <1>1, <1>3

\* One step of a climb adds the join to the frontier of the block it leaves.
LEMMA ClimbKeeps ==
  ASSUME fn \in Functions, Ordered, Tree, Complete, FrontiersGrow, Climb
  PROVE  FrontiersGrow'
<1> DEFINE c == JoinEdges[edge][1]
           p == JoinEdges[edge][2]
<1>1. /\ edge \in DOMAIN JoinEdges /\ runner # idom[c]
      /\ frontier' = [frontier EXCEPT ![runner] = @ \cup {c}]
      /\ runner' = idom[runner]
      /\ UNCHANGED <<fn, postorder, idom, edge>>
  BY DEF Climb
<1>2. JoinEdges' = JoinEdges /\ \A b : Above(b)' = Above(b)
  BY <1>1, SameTree DEF JoinEdges
<1>3. Found = Blocks(fn)
  BY FoundIs DEF Complete
<1>4. c \in Blocks(fn) /\ p \in Blocks(fn)
  BY <1>1, EdgeStarts
<1>5. runner \in Above(p) /\ idom[c] \in Above(runner) /\ runner \in Found
  BY <1>1, <1>3, <1>4, AboveIs DEF FrontiersGrow
<1>6. runner # Entry
  BY <1>1, <1>5, AboveEntry DEF Tree
<1>7. /\ Above(runner) = {runner} \cup Above(idom[runner])
      /\ runner \notin Above(idom[runner])
  BY <1>5, <1>6, OneUp
<1>8. idom[runner] \in Above(p) /\ idom[c] \in Above(idom[runner])
  BY <1>1, <1>3, <1>4, <1>5, <1>7, AboveIs DEF Upward
<1>9. Above(idom[runner]) \subseteq Above(runner) /\ Above(runner) \subseteq Above(p)
  BY <1>3, <1>4, <1>5, <1>7, AboveIs
<1>10. Passed(p, idom[runner]) = Passed(p, runner) \cup {runner}
  BY <1>5, <1>7, <1>9 DEF Passed
<1>11. frontier' \in [Blocks(fn) -> SUBSET Blocks(fn)]
  BY <1>1, <1>3, <1>4, <1>5 DEF FrontiersGrow
<1>12. \A d, e : Passed(d, e)' = Passed(d', e')
  BY <1>2 DEF Passed, Above, Found, Upward
<1>13. ASSUME NEW b \in Blocks(fn) PROVE Done(b)' = Done(b)
  <2>1. \A e : JoinEdges[e]' = JoinEdges[e'] /\ idom[e]' = idom[e']
    BY <1>1, <1>2
  <2>2. \A d, e : Passed(d, e)' = Passed(d', e')
    BY <1>12
  <2>3. Done(b)' = {d \in Blocks(fn) : \E e \in 1 .. (edge - 1) :
              JoinEdges[e][1] = d /\ b \in Passed(JoinEdges[e][2], idom[d])}
    BY <1>1, <1>2 DEF Done, Passed, Above, Upward, Found
  <2>4. QED
    BY <2>3 DEF Done
<1>14. ASSUME NEW b \in Blocks(fn)
       PROVE  /\ Doing(b) = IF b \in Passed(p, runner) THEN {c} ELSE {}
              /\ Doing(b)' = IF b \in Passed(p, idom[runner]) THEN {c} ELSE {}
  <2>1. Doing(b) = {d \in Blocks(fn) : c = d /\ b \in Passed(p, runner)}
    BY <1>1 DEF Doing
  <2>2. Doing(b)' = {d \in Blocks(fn) : c = d /\ b \in Passed(p, idom[runner])}
    BY <1>1, <1>2 DEF Doing, Passed, Above, Upward, Found
  <2> HIDE DEF c, p
  <2>3. QED
    BY <1>4, <2>1, <2>2
<1>15. ASSUME NEW b \in Blocks(fn) PROVE frontier'[b] = Done(b)' \cup Doing(b)'
  <2>1. frontier[b] = Done(b) \cup Doing(b) /\ frontier \in [Blocks(fn) -> SUBSET Blocks(fn)]
    BY DEF FrontiersGrow
  <2> HIDE DEF c, p
  <2>2. frontier'[b] = IF b = runner THEN frontier[b] \cup {c} ELSE frontier[b]
    BY <1>1, <2>1
  <2>3. Doing(b)' = IF b = runner THEN Doing(b) \cup {c} ELSE Doing(b)
    <3>1. CASE b = runner
      BY <1>10, <1>14, <3>1
    <3>2. CASE b # runner
      BY <1>10, <1>14, <3>2
    <3>3. QED
      BY <3>1, <3>2
  <2>4. QED
    BY <1>13, <2>1, <2>2, <2>3
<1>16. /\ runner' \in Above(JoinEdges[edge][2])
       /\ idom[JoinEdges[edge][1]] \in Above(runner')
  BY <1>1, <1>8
<1>17. \A b : Above(runner)' = Above(runner')
  BY <1>1, <1>2 DEF Above, Found, Upward
<1>18. Above(JoinEdges[edge][2])' = Above(JoinEdges[edge][2])
  BY <1>1, <1>2 DEF Above, Found, Upward
<1>19. edge \in 1 .. (Len(JoinEdges) + 1)
  BY DEF FrontiersGrow
<1>20. QED
  BY <1>1, <1>2, <1>11, <1>15, <1>16, <1>17, <1>18, <1>19 DEF FrontiersGrow

\* A climb that has come to the dominator of its join is over.
LEMMA NextEdgeKeeps ==
  ASSUME fn \in Functions, Ordered, Tree, Complete, FrontiersGrow, NextEdge
  PROVE  FrontiersGrow'
<1> DEFINE c == JoinEdges[edge][1]
           p == JoinEdges[edge][2]
<1>1. /\ edge \in DOMAIN JoinEdges /\ runner = idom[c]
      /\ edge' = edge + 1 /\ runner' = StartAt(edge + 1)
      /\ UNCHANGED <<fn, postorder, idom, frontier>>
  BY DEF NextEdge
<1>2. JoinEdges' = JoinEdges /\ \A b : Above(b)' = Above(b)
  BY <1>1, SameTree DEF JoinEdges
<1>3. /\ Len(JoinEdges) \in Nat /\ DOMAIN JoinEdges = 1 .. Len(JoinEdges)
      /\ edge \in 1 .. Len(JoinEdges)
  BY <1>1, JoinEdgesAre
<1>4. edge + 1 \in DOMAIN JoinEdges => runner' = JoinEdges[edge + 1][2]
  BY <1>1 DEF StartAt
<1>5. edge + 1 \in DOMAIN JoinEdges =>
        /\ runner' \in Above(JoinEdges[edge + 1][2])
        /\ idom[JoinEdges[edge + 1][1]] \in Above(runner')
  BY <1>4, EdgeStarts
<1>6. Above(runner)' = Above(runner') /\ \A e : Above(JoinEdges[edge][2])' = Above(JoinEdges[edge + 1][2])
  BY <1>1, <1>2 DEF Above, Found, Upward
<1>7. ASSUME NEW b \in Blocks(fn) PROVE Doing(b)' = {}
  <2>1. Doing(b)' = {d \in Blocks(fn) :
                       /\ edge + 1 \in DOMAIN JoinEdges
                       /\ JoinEdges[edge + 1][1] = d
                       /\ b \in Above(JoinEdges[edge + 1][2]) \ Above(runner')}
    BY <1>1, <1>2, <1>6 DEF Doing, Passed
  <2>2. QED
    BY <1>4, <2>1
<1>8. ASSUME NEW b \in Blocks(fn) PROVE Done(b)' = Done(b) \cup Doing(b)
  <2> DEFINE at(e, d) == JoinEdges[e][1] = d /\ b \in Passed(JoinEdges[e][2], idom[d])
  <2>1. Done(b)' = {d \in Blocks(fn) : \E e \in 1 .. edge : at(e, d)}
    <3>1. edge' - 1 = edge
      BY <1>1, <1>3
    <3>2. QED
      BY <1>1, <1>2, <3>1 DEF Done, Passed, Above, Upward, Found
  <2>2. Done(b) = {d \in Blocks(fn) : \E e \in 1 .. (edge - 1) : at(e, d)}
    BY DEF Done
  <2>3. Doing(b) = {d \in Blocks(fn) : at(edge, d)}
    <3>1. \A d : at(edge, d) <=> c = d /\ b \in Passed(p, runner)
      BY <1>1
    <3>2. QED
      BY <1>1, <3>1 DEF Doing
  <2>4. \A e : e \in 1 .. edge <=> e \in 1 .. (edge - 1) \/ e = edge
    BY <1>3
  <2> HIDE DEF at
  <2>5. QED
    BY <2>1, <2>2, <2>3, <2>4
<1>9. edge' \in 1 .. (Len(JoinEdges) + 1)
  BY <1>1, <1>3
<1>10. \A b \in Blocks(fn) : frontier[b] = Done(b)' \cup Doing(b)'
  BY <1>7, <1>8 DEF FrontiersGrow
<1>11. frontier \in [Blocks(fn) -> SUBSET Blocks(fn)]
  BY DEF FrontiersGrow
<1>12. edge' \in DOMAIN JoinEdges' =>
        /\ runner' \in Above(JoinEdges[edge][2])'
        /\ idom'[JoinEdges'[edge'][1]] \in Above(runner)'
  BY <1>1, <1>2, <1>5, <1>6
<1>13. QED
  BY <1>1, <1>2, <1>9, <1>10, <1>11, <1>12 DEF FrontiersGrow

\* The climb from a predecessor of a block stops where strict dominance starts.
LEMMA AboveDominator ==
  ASSUME fn \in Functions, Ordered, Tree, Complete,
         NEW b \in Blocks(fn), NEW c \in Blocks(fn), c # Entry
  PROVE  b \in Above(idom[c]) <=> StrictlyDominates(fn, b, c)
<1>1. Found = Blocks(fn)
  BY FoundIs DEF Complete
<1>2. Above(c) = {c} \cup Above(idom[c]) /\ c \notin Above(idom[c])
  BY <1>1, OneUp
<1>3. b \in Above(c) <=> Dominates(fn, b, c)
  BY AboveIsDominance
<1>4. QED
  BY <1>2, <1>3 DEF StrictlyDominates

\* When all climbs are over, the frontiers are those of the definition.  A block
\* with one edge into it is in no frontier: its predecessor is its dominator.
LEMMA FrontiersFinal ==
  ASSUME fn \in Functions, Ordered, Tree, Complete, stage = "frontiers" => FrontiersGrow
  PROVE  FrontiersExact
<1> SUFFICES ASSUME FrontiersFound, NEW b \in Blocks(fn)
             PROVE  frontier[b] = {c \in Blocks(fn) :
                       /\ \E p \in ToSet(Preds(fn, c)) : Dominates(fn, b, p)
                       /\ ~StrictlyDominates(fn, b, c)}
  BY DEF FrontiersExact
<1>1. FrontiersGrow /\ edge \notin DOMAIN JoinEdges
  BY DEF FrontiersFound
<1>2. /\ Len(JoinEdges) \in Nat /\ DOMAIN JoinEdges = 1 .. Len(JoinEdges)
      /\ edge \in 1 .. (Len(JoinEdges) + 1)
  BY <1>1, JoinEdgesAre DEF FrontiersGrow
<1>3. edge - 1 = Len(JoinEdges)
  BY <1>1, <1>2
<1>4. Found = Blocks(fn)
  BY FoundIs DEF Complete
<1>5. frontier[b] = {c \in Blocks(fn) : \E e \in DOMAIN JoinEdges :
                       JoinEdges[e][1] = c /\ b \in Passed(JoinEdges[e][2], idom[c])}
  <2>1. Doing(b) = {}
    BY <1>1 DEF Doing
  <2>2. frontier[b] = Done(b) \cup Doing(b)
    BY <1>1 DEF FrontiersGrow
  <2>3. QED
    BY <1>2, <1>3, <2>1, <2>2 DEF Done
<1>6. ASSUME NEW c \in Blocks(fn), NEW p \in Blocks(fn), c # Entry
      PROVE  b \in Passed(p, idom[c]) <=> Dominates(fn, b, p) /\ ~StrictlyDominates(fn, b, c)
  BY <1>6, AboveDominator, AboveIsDominance DEF Passed
<1>7. ASSUME NEW c \in Blocks(fn), c \in frontier[b]
      PROVE  /\ \E p \in ToSet(Preds(fn, c)) : Dominates(fn, b, p)
             /\ ~StrictlyDominates(fn, b, c)
  <2>1. PICK e \in DOMAIN JoinEdges : JoinEdges[e][1] = c /\ b \in Passed(JoinEdges[e][2], idom[c])
    BY <1>5, <1>7
  <2>2. c # Entry /\ JoinEdges[e][2] \in Blocks(fn) /\ c \in Succs(fn, JoinEdges[e][2])
    BY <2>1, EdgeStarts
  <2>3. JoinEdges[e][2] \in ToSet(Preds(fn, c))
    BY <2>2, PredsAre
  <2>4. Dominates(fn, b, JoinEdges[e][2]) /\ ~StrictlyDominates(fn, b, c)
    BY <1>6, <2>1, <2>2
  <2>5. QED
    BY <2>3, <2>4
<1>8. ASSUME NEW c \in Blocks(fn), NEW p \in ToSet(Preds(fn, c)), Dominates(fn, b, p),
             ~StrictlyDominates(fn, b, c)
      PROVE  c \in frontier[b]
  <2>1. p \in Blocks(fn) /\ c \in Succs(fn, p) /\ c # Entry
    <3>1. p \in Blocks(fn) /\ c \in Succs(fn, p)
      BY PredsAre
    <3>2. QED
      BY <3>1, FunctionShape
  <2>2. b \in Passed(p, idom[c])
    BY <1>6, <1>8, <2>1
  <2>3. Preds(fn, c) \in Seq(Blocks(fn)) /\ Len(Preds(fn, c)) \in Nat
    BY PredsAre
  <2>4. Len(Preds(fn, c)) >= 2
    <3>1. ASSUME Len(Preds(fn, c)) < 2 PROVE FALSE
      <4>1. PICK k \in DOMAIN Preds(fn, c) : Preds(fn, c)[k] = p
        BY DEF ToSet
      <4>2. Len(Preds(fn, c)) = 1 /\ k = 1
        <5> DEFINE P == Preds(fn, c)
        <5>1. P \in Seq(Blocks(fn)) /\ Len(P) < 2 /\ k \in DOMAIN P
          BY <2>3, <3>1
        <5> HIDE DEF P
        <5>2. DOMAIN P = 1 .. Len(P) /\ Len(P) \in Nat
          BY <5>1
        <5> DEFINE N == Len(P)
        <5>3. N \in Nat /\ N < 2 /\ k \in 1 .. N
          BY <5>1, <5>2
        <5> HIDE DEF N
        <5>4. N = 1 /\ k = 1
          BY <5>3
        <5>5. QED
          BY <5>4 DEF P, N
      <4>3. NewIdom(c) = p
        BY <1>4, <2>1, <4>1, <4>2, NewIdomIs
      <4>4. idom[c] = p
        BY <2>1, <4>3 DEF Complete
      <4>5. QED
        BY <2>2, <4>4 DEF Passed
    <3>2. QED
      BY <2>3, <3>1
  <2>5. <<c, p>> \in ToSet(JoinEdges)
    BY <2>1, <2>4, JoinEdgesAre
  <2>6. PICK e \in DOMAIN JoinEdges : JoinEdges[e] = <<c, p>>
    BY <2>5 DEF ToSet
  <2>7. QED
    BY <1>5, <2>2, <2>6
<1>9. frontier[b] \subseteq Blocks(fn)
  BY <1>5
<1>10. QED
  BY <1>7, <1>8, <1>9

-----------------------------------------------------------------------------
(* The theorems. *)

\* What the analysis has, stage by stage.
DomInv ==
  /\ stage = "ordering" =>
       /\ fn \in Functions /\ Searching /\ turn = 2 /\ changed = FALSE /\ edge = 1
       /\ idom = [b \in Blocks(fn) |-> 0]
       /\ frontier = [b \in Blocks(fn) |-> {}]
  /\ stage = "dominators" =>
       /\ fn \in Functions /\ Ordered /\ Tree /\ Sweeping /\ edge = 1
       /\ frontier = [b \in Blocks(fn) |-> {}]
  /\ stage = "frontiers" =>
       fn \in Functions /\ Ordered /\ Tree /\ Complete /\ FrontiersGrow

\* The pass starts there.
LEMMA InitDomInv == Init => DomInv
<1> SUFFICES ASSUME DomInit PROVE DomInv
  BY DEF Init
<1>1. stage = "ordering"
  BY DEF DomInit
<1>2. QED
  BY <1>1, InitSearching DEF DomInit, DomInv

\* The steps of the analysis preserve what is to be shown of it.
LEMMA DomNextKeeps ==
  ASSUME DomInv, DomNext
  PROVE  DomInv'
<1>1. CASE FollowEdge
  <2>1. stage = "ordering" /\ stage' = "ordering"
    BY <1>1 DEF FollowEdge
  <2>2. Searching'
    BY <1>1, <2>1, FollowSearching DEF DomInv
  <2>3. UNCHANGED <<fn, turn, changed, edge, idom, frontier>>
    BY <1>1 DEF FollowEdge
  <2>4. QED
    BY <2>1, <2>2, <2>3 DEF DomInv
<1>2. CASE LeaveBlock
  <2>1. stage = "ordering" /\ stage' = "ordering"
    BY <1>2 DEF LeaveBlock
  <2>2. Searching'
    BY <1>2, <2>1, LeaveSearching DEF DomInv
  <2>3. UNCHANGED <<fn, turn, changed, edge, idom, frontier>>
    BY <1>2 DEF LeaveBlock
  <2>4. QED
    BY <2>1, <2>2, <2>3 DEF DomInv
<1>3. CASE OrderingDone
  <2>1. stage = "ordering" /\ stage' = "dominators" /\ visiting = << >>
    BY <1>3 DEF OrderingDone
  <2>2. /\ idom' = [idom EXCEPT ![Entry] = Entry]
        /\ UNCHANGED <<fn, postorder, turn, changed, frontier, edge>>
    BY <1>3 DEF OrderingDone
  <2>3. Ordered
    BY <2>1, SearchingOrders DEF DomInv
  <2>4. Tree' /\ Sweeping'
    BY <2>1, <2>2, <2>3, StartTree DEF DomInv
  <2>5. Ordered'
    BY <2>2, <2>3, SameNumbers
  <2>6. QED
    BY <2>1, <2>2, <2>4, <2>5 DEF DomInv
<1>4. CASE FindIdom
  <2>1. stage = "dominators" /\ stage' = "dominators" /\ UNCHANGED <<fn, frontier, edge>>
    BY <1>4 DEF FindIdom
  <2>2. Ordered' /\ Tree' /\ Sweeping'
    BY <1>4, <2>1, FindIdomKeepsTree DEF DomInv
  <2>3. QED
    BY <2>1, <2>2 DEF DomInv
<1>5. CASE SweepAgain
  <2>1. /\ stage = "dominators" /\ stage' = "dominators" /\ turn' = 2 /\ changed' = FALSE
        /\ UNCHANGED <<fn, frontier, edge, postorder, idom>>
    BY <1>5 DEF SweepAgain
  <2>2. fn \in Functions /\ Ordered /\ Tree
    BY <2>1 DEF DomInv
  <2>3. Ordered' /\ Tree' /\ Found' = Found /\ \A b : Number(b)' = Number(b)
    BY <2>1, <2>2, SameTree, SameNumbers
  <2>4. Len(postorder) \in Nat /\ 2 \in 2 .. (Len(postorder) + 1)
    BY <2>2, NumberIs DEF Ordered
  <2>5. ASSUME NEW b \in Blocks(fn), Number(b) > Len(postorder) - 2 + 1 PROVE b = Entry
    <3>1. Number(b) \in 1 .. Len(postorder) /\ Number(Entry) = Len(postorder)
      BY <2>2, NumberIs
    <3>2. Number(b) = Number(Entry)
      BY <2>4, <2>5, <3>1
    <3>3. Entry \in Blocks(fn)
      BY <2>2, FunctionShape
    <3>4. QED
      BY <2>2, <3>2, <3>3, NumberIs
  <2>6. Sweeping'
    <3>1. Entry \in Found
      BY <2>2, FoundIs
    <3>2. QED
      BY <2>1, <2>3, <2>4, <2>5, <3>1 DEF Sweeping
  <2>7. QED
    BY <2>1, <2>2, <2>3, <2>6 DEF DomInv
<1>6. CASE DominatorsDone
  <2>1. /\ stage = "dominators" /\ stage' = "frontiers" /\ turn > Len(postorder) /\ ~changed
        /\ runner' = StartAt(1)
        /\ UNCHANGED <<fn, postorder, idom, edge, frontier>>
    BY <1>6 DEF DominatorsDone
  <2>2. /\ fn \in Functions /\ Ordered /\ Tree /\ Sweeping /\ edge = 1
        /\ frontier = [b \in Blocks(fn) |-> {}]
    BY <2>1 DEF DomInv
  <2>3. Complete
    BY <2>1, <2>2, SettledIsComplete
  <2>4. FrontiersGrow'
    BY <2>1, <2>2, <2>3, StartFrontiers
  <2>5. Ordered' /\ Tree' /\ Complete'
    BY <2>1, <2>2, <2>3, SameTree
  <2>6. QED
    BY <2>1, <2>2, <2>4, <2>5 DEF DomInv
<1>7. CASE Climb
  <2>1. stage = "frontiers" /\ stage' = "frontiers" /\ UNCHANGED <<fn, postorder, idom>>
    BY <1>7 DEF Climb
  <2>2. fn \in Functions /\ Ordered /\ Tree /\ Complete /\ FrontiersGrow
    BY <2>1 DEF DomInv
  <2>3. FrontiersGrow'
    BY <1>7, <2>2, ClimbKeeps
  <2>4. Ordered' /\ Tree' /\ Complete'
    BY <2>1, <2>2, SameTree
  <2>5. QED
    BY <2>1, <2>2, <2>3, <2>4 DEF DomInv
<1>8. CASE NextEdge
  <2>1. stage = "frontiers" /\ stage' = "frontiers" /\ UNCHANGED <<fn, postorder, idom>>
    BY <1>8 DEF NextEdge
  <2>2. fn \in Functions /\ Ordered /\ Tree /\ Complete /\ FrontiersGrow
    BY <2>1 DEF DomInv
  <2>3. FrontiersGrow'
    BY <1>8, <2>2, NextEdgeKeeps
  <2>4. Ordered' /\ Tree' /\ Complete'
    BY <2>1, <2>2, SameTree
  <2>5. QED
    BY <2>1, <2>2, <2>3, <2>4 DEF DomInv
<1>9. QED
  BY <1>1, <1>2, <1>3, <1>4, <1>5, <1>6, <1>7, <1>8 DEF DomNext

\* So does a step that leaves the analysis alone.
LEMMA SameDomInv ==
  ASSUME DomInv, UNCHANGED domVars
  PROVE  DomInv'
<1>1. UNCHANGED <<fn, stage, visiting, postorder, idom, turn, changed, frontier, edge, runner>>
  BY DEF domVars
<1>2. Ordered => Ordered'
  BY <1>1, SameNumbers
<1>3. (Tree => Tree') /\ (Complete => Complete')
  BY <1>1, SameTree
<1>4. Searching => Searching'
  BY <1>1 DEF Searching, Seen, OnStack, Left
<1>5. Sweeping => Sweeping'
  BY <1>1, SameTree, SameNumbers DEF Sweeping
<1>6. FrontiersGrow => FrontiersGrow'
  <2>1. JoinEdges' = JoinEdges /\ Found' = Found
    BY <1>1 DEF JoinEdges, Found
  <2>2. \A b : Done(b)' = Done(b) /\ Doing(b)' = Doing(b)
    BY <1>1, <2>1 DEF Done, Doing, Passed, Above, Upward
  <2>3. Above(runner)' = Above(runner)
    BY <1>1, <2>1 DEF Above, Upward
  <2>4. Above(JoinEdges[edge][2])' = Above(JoinEdges[edge][2])
    BY <1>1, <2>1 DEF Above, Upward
  <2>5. QED
    BY <1>1, <2>1, <2>2, <2>3, <2>4 DEF FrontiersGrow
<1>7. QED
  BY <1>1, <1>2, <1>3, <1>4, <1>5, <1>6 DEF DomInv

\* The rest of the pass leaves the analysis behind, or does not touch it.
LEMMA NextKeepsDom ==
  ASSUME DomInv, [Next]_vars
  PROVE  DomInv'
<1> DEFINE Elsewhere == stage' \notin {"ordering", "dominators", "frontiers"}
<1>1. Elsewhere => DomInv'
  BY DEF DomInv
<1>2. CASE DomNext
  BY <1>2, DomNextKeeps
<1>3. CASE UNCHANGED domVars
  BY <1>3, SameDomInv
<1>4. CASE CollectPromotable \/ ChooseVariable \/ VariableDone \/ StartRenaming \/ Cleanup
  BY <1>1, <1>4 DEF CollectPromotable, ChooseVariable, VariableDone, StartRenaming, Cleanup
<1>5. CASE \E b \in Blocks(fn) : InsertPhis(b)
  BY <1>1, <1>5 DEF InsertPhis
<1>6. CASE RewriteLoad \/ FillPhis
  BY <1>1, <1>6 DEF RewriteLoad, FillPhis, RenamingInst, Renaming
<1>7. CASE DefineVariable \/ KeepInst \/ RenameChild \/ PopVariables
  BY <1>3, <1>7 DEF DefineVariable, KeepInst, RenameChild, PopVariables
<1>8. CASE \E given \in [Params(fn) -> Literals] : Start(given)
  BY <1>1, <1>8 DEF Start
<1>9. CASE Access \/ (\E result \in Literals : Compute(result)) \/ (\E c \in Blocks(fn) : Goto(c))
           \/ Return
  BY <1>3, <1>9 DEF Access, Compute, Goto, Return
<1>10. CASE UNCHANGED vars
  BY <1>3, <1>10 DEF vars
<1>11. QED
  BY <1>2, <1>4, <1>5, <1>6, <1>7, <1>8, <1>9, <1>10 DEF Next, Pass, Over

\* What is to be shown of the analysis always holds.
LEMMA AlwaysDomInv == Spec => []DomInv
BY InitDomInv, NextKeepsDom, PTL DEF Spec

\* DominatorTree::analyze, for every function whose blocks can all be reached:
\* the tree that intersect climbs while it is being built ends as the dominator
\* tree, idom[b] being the strict dominator of b that all others dominate.
THEOREM DominatorsAreExact == Spec => []DominatorsExact
<1>1. DomInv => DominatorsExact
  <2> SUFFICES ASSUME DomInv, stage = "frontiers" PROVE DominatorsExact
    BY DEF DominatorsExact
  <2>1. QED
    BY CompleteIsExact DEF DomInv
<1>2. QED
  BY <1>1, AlwaysDomInv, PTL

\* The runner algorithm of DominatorTree::analyze: when the climbs from the edges
\* into joins are over, each block has its dominance frontier, the joins where
\* its dominance ends, and nothing else.
THEOREM FrontiersAreExact == Spec => []FrontiersExact
<1>1. DomInv => FrontiersExact
  <2> SUFFICES ASSUME DomInv, stage = "frontiers" PROVE FrontiersExact
    BY DEF FrontiersExact, FrontiersFound
  <2>1. QED
    BY FrontiersFinal DEF DomInv
<1>2. QED
  BY <1>1, AlwaysDomInv, PTL

\* What a sequence is, as a function.
LEMMA SequenceIs ==
  ASSUME NEW S, NEW s \in Seq(S)
  PROVE  Len(s) \in Nat /\ DOMAIN s = 1 .. Len(s) /\ \A i \in DOMAIN s : s[i] \in S
OBVIOUS

\* A sequence is over whatever its elements are in.
LEMMA SequenceOf ==
  ASSUME NEW S, NEW s \in Seq(S), NEW T, \A i \in DOMAIN s : s[i] \in T
  PROVE  s \in Seq(T)
OBVIOUS

\* Dominance is a matter of the edges.
LEMMA SameDominance ==
  ASSUME NEW f, NEW g, Shaped(f), Shaped(g), Len(f.blocks) = Len(g.blocks),
         \A b \in Blocks(f) : Succs(g, b) = Succs(f, b), NEW b, NEW c
  PROVE  /\ Dominates(g, b, c) <=> Dominates(f, b, c)
         /\ StrictlyDominates(g, b, c) <=> StrictlyDominates(f, b, c)
<1>1. Blocks(g) = Blocks(f)
  BY DEF Shaped
<1>2. \A X \in SUBSET Blocks(f) : Closed(g, b, X) <=> Closed(f, b, X)
  BY DEF Closed
<1>3. PICK X \in SUBSET Blocks(f) :
        /\ \A e : Dominates(f, b, e) <=> e \notin X
        /\ Closed(f, b, X)
        /\ \A Y \in SUBSET Blocks(f) : Closed(f, b, Y) => X \subseteq Y
  BY MissedAreLeast
<1>4. PICK Z \in SUBSET Blocks(f) :
        /\ \A e : Dominates(g, b, e) <=> e \notin Z
        /\ Closed(g, b, Z)
        /\ \A Y \in SUBSET Blocks(f) : Closed(g, b, Y) => Z \subseteq Y
  <2>1. \E Z \in SUBSET Blocks(g) :
          /\ \A e : Dominates(g, b, e) <=> e \notin Z
          /\ Closed(g, b, Z)
          /\ \A Y \in SUBSET Blocks(g) : Closed(g, b, Y) => Z \subseteq Y
    BY MissedAreLeast
  <2>2. QED
    BY <1>1, <2>1, Zenon
<1>5. X = Z
  BY <1>2, <1>3, <1>4
<1>6. Dominates(g, b, c) <=> Dominates(f, b, c)
  BY <1>3, <1>4, <1>5
<1>7. QED
  BY <1>6 DEF StrictlyDominates

-----------------------------------------------------------------------------
(* The dominator tree, as the rest of the pass uses it. *)

\* d is the dominator tree of f: what strictly dominates a block is its parent
\* or strictly dominates it, and whatever is passed on from parents to children
\* holds everywhere.
DomTree(f, d) ==
  /\ Entry \in Blocks(f)
  /\ d \in [Blocks(f) -> Blocks(f)]
  /\ \A b \in Blocks(f) \ {Entry}, c \in Blocks(f) :
       StrictlyDominates(f, c, b) <=> c = d[b] \/ StrictlyDominates(f, c, d[b])
  /\ \A a, b, c \in Blocks(f) :
       StrictlyDominates(f, a, b) /\ StrictlyDominates(f, b, c) => StrictlyDominates(f, a, c)
  /\ \A a \in Blocks(f) : ~StrictlyDominates(f, a, a) /\ ~StrictlyDominates(f, a, Entry)
  /\ \A a, p \in Blocks(f) : \A c \in Succs(f, p) :
       StrictlyDominates(f, a, c) => a = p \/ StrictlyDominates(f, a, p)
  /\ \A S \in SUBSET Blocks(f) :
       Entry \in S /\ (\A c \in Blocks(f) \ {Entry} : d[c] \in S => c \in S) => S = Blocks(f)

\* ch lists the children of each block.
ChildrenListed(f, d, ch) ==
  /\ DOMAIN ch = Blocks(f)
  /\ \A b \in Blocks(f) :
       /\ ch[b] \in Seq(Blocks(f) \ {Entry})
       /\ \A i, j \in DOMAIN ch[b] : ch[b][i] = ch[b][j] => i = j
       /\ \A i \in DOMAIN ch[b] : d[ch[b][i]] = b
  /\ \A c \in Blocks(f) \ {Entry} : \E i \in DOMAIN ch[d[c]] : ch[d[c]][i] = c

\* A block has in its frontier the joins its dominance ends at.
FrontiersListed(f, fr) ==
  /\ fr \in [Blocks(f) -> SUBSET (Blocks(f) \ {Entry})]
  /\ \A b, p \in Blocks(f) : \A c \in Succs(f, p) :
       (b = p \/ StrictlyDominates(f, b, p)) /\ ~StrictlyDominates(f, b, c) => c \in fr[b]

\* A finished tree is one the renaming can walk.
LEMMA TreeIsFound ==
  ASSUME fn \in Functions, Ordered, Tree, Complete
  PROVE  DomTree(fn, idom)
<1>1. Found = Blocks(fn) /\ Entry \in Blocks(fn)
  BY FoundIs DEF Complete
<1>2. idom \in [Blocks(fn) -> Blocks(fn)]
  <2>1. \A b \in Blocks(fn) : idom[b] \in Blocks(fn)
    BY <1>1, FoundIs DEF Upward
  <2>2. QED
    BY <2>1 DEF Tree
<1>3. ASSUME NEW a \in Blocks(fn), NEW b \in Blocks(fn), StrictlyDominates(fn, a, b)
      PROVE  Number(a) > Number(b) /\ a \in Above(b)
  <2>1. Number(a) >= Number(b) /\ a # b
    BY <1>3, DominatorsComeFirst DEF StrictlyDominates
  <2>2. Number(a) \in 1 .. Len(postorder) /\ Number(b) \in 1 .. Len(postorder)
        /\ Number(a) # Number(b)
    BY <2>1, NumberIs
  <2>3. a \in Above(b)
    BY <1>3, AboveIsDominance DEF StrictlyDominates
  <2>4. QED
    BY <2>1, <2>2, <2>3
<1>4. ASSUME NEW b \in Blocks(fn) \ {Entry}, NEW c \in Blocks(fn)
      PROVE  StrictlyDominates(fn, c, b) <=> c = idom[b] \/ StrictlyDominates(fn, c, idom[b])
  <2>1. c \in Above(idom[b]) <=> StrictlyDominates(fn, c, b)
    BY AboveDominator
  <2>2. c \in Above(idom[b]) <=> Dominates(fn, c, idom[b])
    BY <1>2, AboveIsDominance
  <2>3. Dominates(fn, idom[b], idom[b])
    BY <1>2, DominatesItself
  <2>4. QED
    BY <2>1, <2>2, <2>3 DEF StrictlyDominates
<1>5. ASSUME NEW a \in Blocks(fn), NEW b \in Blocks(fn), NEW c \in Blocks(fn),
             StrictlyDominates(fn, a, b), StrictlyDominates(fn, b, c)
      PROVE  StrictlyDominates(fn, a, c)
  <2>1. a \in Above(b) /\ b \in Above(c) /\ Number(a) > Number(b) /\ Number(b) > Number(c)
    BY <1>3, <1>5
  <2>2. a \in Above(c)
    BY <1>1, <2>1, AboveIs
  <2>3. Dominates(fn, a, c)
    BY <2>2, AboveIsDominance
  <2>4. Number(a) \in 1 .. Len(postorder) /\ Number(b) \in 1 .. Len(postorder)
        /\ Number(c) \in 1 .. Len(postorder)
    BY NumberIs
  <2>5. a # c
    BY <2>1, <2>4
  <2>6. QED
    BY <2>3, <2>5 DEF StrictlyDominates
<1>6. ASSUME NEW a \in Blocks(fn)
      PROVE  ~StrictlyDominates(fn, a, a) /\ ~StrictlyDominates(fn, a, Entry)
  BY DominatesEntry DEF StrictlyDominates
<1>7. ASSUME NEW a \in Blocks(fn), NEW p \in Blocks(fn), NEW c \in Succs(fn, p),
             StrictlyDominates(fn, a, c)
      PROVE  a = p \/ StrictlyDominates(fn, a, p)
  BY <1>7, DominatesPredecessors DEF StrictlyDominates
<1>8. ASSUME NEW S \in SUBSET Blocks(fn), Entry \in S,
             \A c \in Blocks(fn) \ {Entry} : idom[c] \in S => c \in S
      PROVE  S = Blocks(fn)
  <2> DEFINE n == Len(postorder)
             T == {k \in Nat : \A c \in Blocks(fn) : n - Number(c) <= k => c \in S}
  <2>1. n \in Nat /\ \A c \in Blocks(fn) : Number(c) \in Nat /\ Number(c) <= n
    BY NumberIs
  <2>2. \A c \in Blocks(fn) : Number(c) = n => c = Entry
    BY <1>1, NumberIs
  <2>3. \A c \in Blocks(fn) \ {Entry} : idom[c] \in Blocks(fn) /\ Number(idom[c]) > Number(c)
    BY <1>1 DEF Tree
  <2> HIDE DEF n
  <2>4. 0 \in T
    <3>1. ASSUME NEW c \in Blocks(fn), n - Number(c) <= 0 PROVE c \in S
      <4>1. Number(c) = n
        BY <2>1, <3>1
      <4>2. QED
        BY <1>8, <2>2, <4>1
    <3>2. QED
      BY <3>1
  <2>5. ASSUME NEW k \in Nat, k \in T PROVE k + 1 \in T
    <3>1. ASSUME NEW c \in Blocks(fn), n - Number(c) <= k + 1, c # Entry PROVE c \in S
      <4>1. n - Number(idom[c]) <= k
        BY <2>1, <2>3, <3>1
      <4>2. idom[c] \in S
        BY <2>3, <2>5, <3>1, <4>1
      <4>3. QED
        BY <1>8, <3>1, <4>2
    <3>2. QED
      BY <1>8, <3>1
  <2>6. ASSUME NEW c \in Blocks(fn) PROVE c \in S
    <3>1. n - Number(c) \in Nat /\ n - Number(c) <= n - Number(c)
      BY <2>1
    <3>2. n - Number(c) \in T
      <4> HIDE DEF T
      <4>1. QED
        BY <2>4, <2>5, <3>1, AllNaturals
    <3>3. QED
      BY <3>1, <3>2
  <2>7. QED
    BY <2>6
<1>9. QED
  BY <1>1, <1>2, <1>4, <1>5, <1>6, <1>7, <1>8 DEF DomTree

\* The children read off a finished tree are its children, each once.
LEMMA ChildrenAre ==
  ASSUME fn \in Functions, Ordered, Tree, Complete
  PROVE  ChildrenListed(fn, idom, [b \in Blocks(fn) |-> Children(b)])
<1> DEFINE r == ReversePostorder
           N == Len(postorder)
           P(b) == {i \in DOMAIN r : r[i] # Entry /\ idom[r[i]] = b}
<1>1. N \in Nat /\ r \in Seq(Blocks(fn)) /\ DOMAIN r = 1 .. N /\ \A i \in 1 .. N : r[i] = postorder[N - i + 1]
  <2>1. N \in Nat /\ \A i \in 1 .. N : postorder[i] \in Blocks(fn)
    BY NumberIs
  <2>2. r = [i \in 1 .. N |-> postorder[(N - i) + 1]]
    BY DEF ReversePostorder, Reverse
  <2> HIDE DEF N, r
  <2>3. \A i \in 1 .. N : N - i + 1 \in 1 .. N
    BY <2>1
  <2>4. QED
    BY <2>1, <2>2, <2>3
<1>2. ASSUME NEW c \in Blocks(fn) PROVE \E i \in 1 .. N : r[i] = c
  <2>1. N \in Nat /\ Number(c) \in 1 .. N /\ postorder[Number(c)] = c
    BY NumberIs
  <2> HIDE DEF N, r
  <2>2. N - Number(c) + 1 \in 1 .. N /\ N - (N - Number(c) + 1) + 1 = Number(c)
    BY <2>1
  <2>3. r[N - Number(c) + 1] = c
    BY <1>1, <2>1, <2>2
  <2>4. QED
    BY <2>2, <2>3
<1>3. ASSUME NEW i \in 1 .. N, NEW j \in 1 .. N, r[i] = r[j] PROVE i = j
  <2>1. \A k \in 1 .. N : Number(postorder[k]) = k
    BY NumberIs
  <2> HIDE DEF N, r
  <2>2. N - i + 1 \in 1 .. N /\ N - j + 1 \in 1 .. N
    BY <1>1
  <2>3. N - i + 1 = N - j + 1
    BY <1>1, <1>3, <2>1, <2>2
  <2>4. QED
    BY <1>1, <2>3
<1>4. ASSUME NEW b \in Blocks(fn)
      PROVE  Children(b) \in Seq(Blocks(fn)) /\ PickedFrom(Children(b), r, P(b))
  <2>1. Children(b) = Picked(r, P(b))
    BY DEF Children
  <2>2. P(b) \in SUBSET DOMAIN r
    OBVIOUS
  <2> HIDE DEF r, P
  <2>3. QED
    BY <1>1, <2>1, <2>2, PickedIs
<1> HIDE DEF r, N
<1>5. ASSUME NEW b \in Blocks(fn)
      PROVE  /\ Children(b) \in Seq(Blocks(fn) \ {Entry})
             /\ \A i, j \in DOMAIN Children(b) : Children(b)[i] = Children(b)[j] => i = j
             /\ \A i \in DOMAIN Children(b) : idom[Children(b)[i]] = b
  <2>1. ASSUME NEW i \in DOMAIN Children(b)
        PROVE  \E n \in P(b) : Rank(P(b), n) = i /\ Children(b)[i] = r[n]
    <3>1. PickedFrom(Children(b), r, P(b))
      BY <1>4
    <3> HIDE DEF P
    <3>2. i \in 1 .. Cardinality(P(b))
      BY <3>1 DEF PickedFrom
    <3>3. QED
      BY <3>1, <3>2 DEF PickedFrom
  <2>2. ASSUME NEW i \in DOMAIN Children(b)
        PROVE  Children(b)[i] # Entry /\ idom[Children(b)[i]] = b
    BY <2>1
  <2>3. Children(b) \in Seq(Blocks(fn) \ {Entry})
    <3>1. \A i \in DOMAIN Children(b) : Children(b)[i] \in Blocks(fn) \ {Entry}
      <4>1. \A i \in DOMAIN Children(b) : Children(b)[i] \in Blocks(fn)
        BY <1>4, SequenceIs
      <4>2. QED
        BY <2>2, <4>1
    <3>2. QED
      BY <1>4, <3>1, SequenceOf
  <2>4. ASSUME NEW i \in DOMAIN Children(b), NEW j \in DOMAIN Children(b),
               Children(b)[i] = Children(b)[j]
        PROVE  i = j
    <3>1. PICK n \in P(b) : Rank(P(b), n) = i /\ Children(b)[i] = r[n]
      BY <2>1
    <3>2. PICK m \in P(b) : Rank(P(b), m) = j /\ Children(b)[j] = r[m]
      BY <2>1
    <3>3. n = m
      BY <1>1, <1>3, <2>4, <3>1, <3>2
    <3>4. QED
      BY <3>1, <3>2, <3>3
  <2>5. QED
    BY <2>2, <2>3, <2>4
<1>6. ASSUME NEW c \in Blocks(fn) \ {Entry}
      PROVE  idom[c] \in Blocks(fn) /\ \E i \in DOMAIN Children(idom[c]) : Children(idom[c])[i] = c
  <2>1. idom[c] \in Blocks(fn)
    BY TreeIsFound DEF DomTree
  <2>2. PICK n \in 1 .. N : r[n] = c
    BY <1>2
  <2>3. n \in P(idom[c])
    BY <1>1, <2>2
  <2> HIDE DEF P
  <2>4. PickedFrom(Children(idom[c]), r, P(idom[c]))
    BY <1>4, <2>1
  <2>5. PICK q \in DOMAIN Children(idom[c]) : Children(idom[c])[q] = r[n]
    BY <2>3, <2>4, Zenon DEF PickedFrom
  <2>6. QED
    BY <2>1, <2>2, <2>5
<1>7. QED
  BY <1>5, <1>6 DEF ChildrenListed

\* The frontiers are complete.
LEMMA FrontiersAre ==
  ASSUME fn \in Functions, Ordered, Tree, Complete, FrontiersFound, FrontiersExact,
         frontier \in [Blocks(fn) -> SUBSET Blocks(fn)]
  PROVE  FrontiersListed(fn, frontier)
<1>1. ASSUME NEW b \in Blocks(fn)
      PROVE  frontier[b] = {c \in Blocks(fn) : /\ \E p \in ToSet(Preds(fn, c)) : Dominates(fn, b, p)
                                               /\ ~StrictlyDominates(fn, b, c)}
  BY DEF FrontiersExact
<1>2. \A c \in Blocks(fn) : ToSet(Preds(fn, c)) = {p \in Blocks(fn) : c \in Succs(fn, p)}
  BY PredsAre
<1>3. \A p \in Blocks(fn) : Succs(fn, p) \subseteq Blocks(fn) \ {Entry}
  BY FunctionShape
<1>4. ASSUME NEW b \in Blocks(fn) PROVE frontier[b] \in SUBSET (Blocks(fn) \ {Entry})
  BY <1>1, <1>2, <1>3
<1>5. ASSUME NEW b \in Blocks(fn), NEW p \in Blocks(fn), NEW c \in Succs(fn, p),
             b = p \/ StrictlyDominates(fn, b, p), ~StrictlyDominates(fn, b, c)
      PROVE  c \in frontier[b]
  <2>1. Dominates(fn, b, p)
    BY <1>5, DominatesItself DEF StrictlyDominates
  <2>2. c \in Blocks(fn) /\ p \in ToSet(Preds(fn, c))
    BY <1>2, <1>3
  <2>3. QED
    BY <1>1, <1>5, <2>1, <2>2
<1>6. frontier \in [Blocks(fn) -> SUBSET (Blocks(fn) \ {Entry})]
  BY <1>4
<1>7. QED
  BY <1>5, <1>6 DEF FrontiersListed

-----------------------------------------------------------------------------
(* Functions, block by block. *)

\* Every place of a function is a block and an index.
LEMMA SitesAre ==
  ASSUME NEW f
  PROVE  /\ \A b \in Blocks(f) : \A i \in DOMAIN f.blocks[b] :
              <<b, i>> \in Sites(f) /\ At(f, <<b, i>>) = f.blocks[b][i]
         /\ \A s \in Sites(f) : /\ s = <<s[1], s[2]>> /\ s[1] \in Blocks(f)
                                /\ s[2] \in DOMAIN f.blocks[s[1]]
                                /\ At(f, s) = f.blocks[s[1]][s[2]]
<1>1. ASSUME NEW b \in Blocks(f), NEW i \in DOMAIN f.blocks[b]
      PROVE  <<b, i>> \in Sites(f) /\ At(f, <<b, i>>) = f.blocks[b][i]
  BY DEF Sites, At
<1>2. ASSUME NEW s \in Sites(f)
      PROVE  /\ s = <<s[1], s[2]>> /\ s[1] \in Blocks(f)
             /\ s[2] \in DOMAIN f.blocks[s[1]]
             /\ At(f, s) = f.blocks[s[1]][s[2]]
  <2>1. PICK b \in Blocks(f) : s \in {b} \X DOMAIN f.blocks[b]
    BY DEF Sites
  <2>2. QED
    BY <2>1 DEF At
<1>3. QED
  BY <1>1, <1>2

\* The local variables are what an alloca makes.
LEMMA LocalsAre ==
  ASSUME NEW f, NEW x
  PROVE  x \in Locals(f) <=>
              \E b \in Blocks(f) : \E i \in DOMAIN f.blocks[b] :
                f.blocks[b][i].op = "alloca" /\ f.blocks[b][i].res = x
<1>1. ASSUME x \in Locals(f)
      PROVE  \E b \in Blocks(f) : \E i \in DOMAIN f.blocks[b] :
              f.blocks[b][i].op = "alloca" /\ f.blocks[b][i].res = x
  <2>1. PICK s \in Sites(f) : At(f, s).op = "alloca" /\ x = At(f, s).res
    BY <1>1 DEF Locals
  <2>2. QED
    BY <2>1, SitesAre
<1>2. ASSUME NEW b \in Blocks(f), NEW i \in DOMAIN f.blocks[b],
             f.blocks[b][i].op = "alloca", f.blocks[b][i].res = x
      PROVE  x \in Locals(f)
  <2>1. <<b, i>> \in Sites(f) /\ At(f, <<b, i>>) = f.blocks[b][i]
    BY SitesAre
  <2>2. QED
    BY <1>2, <2>1 DEF Locals
<1>3. QED
  BY <1>1, <1>2

\* A place comes before another in its block or in a block that strictly
\* dominates the other's.
Ahead(f, c, q, b, p) == (c = b /\ q < p) \/ StrictlyDominates(f, c, b)

\* v is available at a place of g: dominance is that of f, whose edges g has.
Available(f, g, v, b, p) ==
  \/ v \in Literals \cup Params(f)
  \/ /\ v # NoValue
     /\ \E c \in Blocks(f) : \E q \in DOMAIN g.blocks[c] :
          g.blocks[c][q].res = v /\ Ahead(f, c, q, b, p)

\* The definition of a value is the place that has it as its result.
LEMMA DefinedIsAvailable ==
  ASSUME NEW f, NEW v, NEW b, NEW p, DefinedAt(f, v, <<b, p>>)
  PROVE  Available(f, f, v, b, p)
<1>1. CASE v \in Literals \cup Params(f)
  BY <1>1 DEF Available
<1>2. CASE v \notin Literals \cup Params(f)
  <2> DEFINE s == DefSite(f, v)
  <2>1. v \in Results(f) /\ (IF s[1] = b THEN s[2] < p ELSE StrictlyDominates(f, s[1], b))
    BY <1>2 DEF DefinedAt
  <2>2. v # NoValue /\ \E t \in Sites(f) : At(f, t).res = v
    BY <2>1 DEF Results
  <2>3. s \in Sites(f) /\ At(f, s).res = v
    BY <2>2 DEF DefSite
  <2> HIDE DEF s
  <2>4. s[1] \in Blocks(f) /\ s[2] \in DOMAIN f.blocks[s[1]] /\ f.blocks[s[1]][s[2]].res = v
    BY <2>3, SitesAre
  <2>5. Ahead(f, s[1], s[2], b, p)
    BY <2>1 DEF Ahead
  <2>6. QED
    BY <2>2, <2>4, <2>5 DEF Available
<1>3. QED
  BY <1>1, <1>2

-----------------------------------------------------------------------------
(* The function with its phis, before the renaming. *)

\* The phi that is put into b for x.
NewPhi(x, b) == [op |-> "phi", res |-> PhiValue(x, b), args |-> << >>, to |-> << >>]
\* A phi the pass has put there.
IsNew(f, inst) == inst.op = "phi" /\ \E x \in Locals(f), b \in Blocks(f) : inst.res = PhiValue(x, b)

\* How many phis have been put into b.
Shift(f, g, b) == Len(g.blocks[b]) - Len(f.blocks[b])

\* g is f with empty phis for local variables at the heads of its blocks.
Layout(f, g) ==
  /\ g = [params |-> f.params, blocks |-> g.blocks, void |-> f.void, opt |-> f.opt]
  /\ DOMAIN g.blocks = Blocks(f) /\ Len(g.blocks) = Len(f.blocks)
  /\ \A b \in Blocks(f) :
       /\ Len(g.blocks[b]) \in Nat /\ DOMAIN g.blocks[b] = 1 .. Len(g.blocks[b])
       /\ g.blocks[b] = [i \in 1 .. Len(g.blocks[b]) |-> g.blocks[b][i]]
       /\ Shift(f, g, b) \in Nat
       /\ \A i \in DOMAIN f.blocks[b] : g.blocks[b][Shift(f, g, b) + i] = f.blocks[b][i]
       /\ \A q \in 1 .. Shift(f, g, b) : \E x \in Locals(f) : g.blocks[b][q] = NewPhi(x, b)
       /\ \A q, r \in 1 .. Shift(f, g, b) : g.blocks[b][q].res = g.blocks[b][r].res => q = r
       /\ b = Entry => Shift(f, g, b) = 0

\* An instruction as the assumptions have it, in f or behind the phis of g.
Record(inst) ==
  /\ inst = [op |-> inst.op, res |-> inst.res, args |-> inst.args, to |-> inst.to]
  /\ inst.op \in Opcodes
  /\ Len(inst.args) \in Nat /\ DOMAIN inst.args = 1 .. Len(inst.args)
  /\ inst.args = [k \in 1 .. Len(inst.args) |-> inst.args[k]]
  /\ Len(inst.to) \in Nat /\ DOMAIN inst.to = 1 .. Len(inst.to)
  /\ inst.to = [k \in 1 .. Len(inst.to) |-> inst.to[k]]

\* What an instruction of its kind looks like, and where it may stand.
Shapely(f, g, b, p) ==
  LET inst == g.blocks[b][p]
  IN  /\ inst.op \in {"alloca", "load", "phi"} => inst.res # NoValue
      /\ inst.op \in {"set", "store", "br", "condbr", "ret"} => inst.res = NoValue
      /\ inst.op = "alloca" => b = Entry
      /\ inst.res \in Locals(f) <=> inst.op = "alloca"
      /\ inst.op = "load" => DOMAIN inst.args = {1}
      /\ inst.op = "set" => DOMAIN inst.args = {1, 2}
      /\ \A k \in DOMAIN inst.args : inst.args[k] \in Locals(f) <=> inst.op \in {"load", "set"} /\ k = 1
      /\ inst.op \in {"br", "condbr", "ret"} => p = Len(g.blocks[b])
      /\ inst.op = "phi" =>
           /\ b # Entry
           /\ \A q \in 1 .. p : g.blocks[b][q].op = "phi"
           /\ DOMAIN inst.args = DOMAIN inst.to
           /\ \A j, k \in DOMAIN inst.to : inst.to[j] = inst.to[k] => j = k
           /\ ToSet(inst.to) = {c \in Blocks(f) : b \in Succs(f, c)}

\* What it reads has been computed.
Supplied(f, g, b, p) ==
  LET inst == g.blocks[b][p]
  IN  \A k \in DOMAIN inst.args :
        IF inst.op = "phi"
        THEN Available(f, g, inst.args[k], inst.to[k], Len(g.blocks[inst.to[k]]) + 1)
        ELSE Available(f, g, inst.args[k], b, p)

\* A function is a record of sequences of records.
LEMMA FunctionRecord ==
  ASSUME NEW f \in Functions
  PROVE  /\ Shaped(f)
         /\ f = [params |-> f.params, blocks |-> f.blocks, void |-> f.void, opt |-> f.opt]
         /\ \A b \in Blocks(f) :
              /\ Len(f.blocks[b]) \in Nat /\ DOMAIN f.blocks[b] = 1 .. Len(f.blocks[b])
              /\ f.blocks[b] = [i \in 1 .. Len(f.blocks[b]) |-> f.blocks[b][i]]
              /\ \A i \in DOMAIN f.blocks[b] : Record(f.blocks[b][i])
<1>1. Shaped(f)
  BY FunctionsShaped
<1>2. f = [params |-> f.params, blocks |-> f.blocks, void |-> f.void, opt |-> f.opt]
  BY InstructionsInOrder
<1>3. ASSUME NEW b \in Blocks(f)
      PROVE  /\ Len(f.blocks[b]) \in Nat /\ DOMAIN f.blocks[b] = 1 .. Len(f.blocks[b])
             /\ f.blocks[b] = [i \in 1 .. Len(f.blocks[b]) |-> f.blocks[b][i]]
             /\ \A i \in DOMAIN f.blocks[b] : Record(f.blocks[b][i])
  <2>1. f.blocks[b] \in Seq(ToSet(f.blocks[b]))
    BY InstructionsInOrder
  <2>2. ASSUME NEW i \in DOMAIN f.blocks[b] PROVE Record(f.blocks[b][i])
    <3> DEFINE inst == f.blocks[b][i]
    <3>1. inst \in ToSet(f.blocks[b])
      BY DEF ToSet
    <3>2. inst \in [op : Opcodes, res : {inst.res}, args : Seq(ToSet(inst.args)),
                       to : Seq(ToSet(inst.to))]
      BY <3>1, InstructionsInOrder
    <3> HIDE DEF inst
    <3>3. /\ inst = [op |-> inst.op, res |-> inst.res, args |-> inst.args, to |-> inst.to]
          /\ inst.op \in Opcodes
          /\ inst.args \in Seq(ToSet(inst.args)) /\ inst.to \in Seq(ToSet(inst.to))
      BY <3>2
    <3>4. /\ Len(inst.args) \in Nat /\ DOMAIN inst.args = 1 .. Len(inst.args)
          /\ inst.args = [k \in 1 .. Len(inst.args) |-> inst.args[k]]
      BY <3>3
    <3>5. /\ Len(inst.to) \in Nat /\ DOMAIN inst.to = 1 .. Len(inst.to)
          /\ inst.to = [k \in 1 .. Len(inst.to) |-> inst.to[k]]
      BY <3>3
    <3>6. Record(inst)
      BY <3>3, <3>4, <3>5 DEF Record
    <3>7. QED
      BY <3>6 DEF inst
  <2>3. /\ Len(f.blocks[b]) \in Nat /\ DOMAIN f.blocks[b] = 1 .. Len(f.blocks[b])
        /\ f.blocks[b] = [i \in 1 .. Len(f.blocks[b]) |-> f.blocks[b][i]]
    BY <2>1
  <2>4. QED
    BY <2>2, <2>3
<1>4. QED
  BY <1>1, <1>2, <1>3

\* The assumptions on functions, one fact at a time.
LEMMA FunctionFacts ==
  ASSUME NEW f \in Functions
  PROVE  /\ \A b, c \in Blocks(f) : \A i \in DOMAIN f.blocks[b], j \in DOMAIN f.blocks[c] :
              f.blocks[b][i].res = f.blocks[c][j].res /\ f.blocks[b][i].res # NoValue
                => b = c /\ i = j
         /\ \A b \in Blocks(f) : \A i \in DOMAIN f.blocks[b] :
              /\ Shapely(f, f, b, i) /\ Supplied(f, f, b, i)
              /\ ~IsNew(f, f.blocks[b][i])
              /\ f.blocks[b][i].res \notin Params(f) \cup Literals
              /\ f.blocks[b][i].res = NoValue \/ f.blocks[b][i].res \in Results(f)
         /\ NoValue \notin Params(f) \cup Literals
         /\ Locals(f) \subseteq Results(f)
         /\ \A x \in Locals(f), b \in Blocks(f) :
              PhiValue(x, b) \notin SsaValues(f) \cup Literals \cup {NoValue}
<1>1. /\ \A s, t \in Sites(f) : At(f, s).res = At(f, t).res => s = t \/ At(f, s).res = NoValue
      /\ Results(f) \cap (Params(f) \cup Literals) = {}
      /\ \A s \in Sites(f) :
           LET inst == At(f, s)
           IN  IF inst.op = "phi"
               THEN /\ DOMAIN inst.args = DOMAIN inst.to
                    /\ \A k \in DOMAIN inst.to :
                         DefinedAt(f, inst.args[k], <<inst.to[k], Len(f.blocks[inst.to[k]]) + 1>>)
               ELSE \A v \in ToSet(inst.args) : DefinedAt(f, v, s)
  BY FunctionsWellFormed DEF SsaForm
<1>2. /\ NoValue \notin Params(f) \cup Literals
      /\ \A x \in Locals(f), b \in Blocks(f) :
           PhiValue(x, b) \notin SsaValues(f) \cup Literals \cup {NoValue}
  BY NamesApart
<1>3. ASSUME NEW b \in Blocks(f), NEW i \in DOMAIN f.blocks[b]
      PROVE  f.blocks[b][i].res = NoValue \/ f.blocks[b][i].res \in Results(f)
  <2>1. <<b, i>> \in Sites(f) /\ At(f, <<b, i>>) = f.blocks[b][i]
    BY SitesAre
  <2>2. QED
    BY <2>1 DEF Results
<1>4. ASSUME NEW b \in Blocks(f), NEW i \in DOMAIN f.blocks[b]
      PROVE  f.blocks[b][i].res \notin Params(f) \cup Literals
  BY <1>1, <1>2, <1>3
<1>5. ASSUME NEW b \in Blocks(f), NEW i \in DOMAIN f.blocks[b]
      PROVE  ~IsNew(f, f.blocks[b][i])
  BY <1>2, <1>3 DEF IsNew, SsaValues
<1>6. ASSUME NEW b \in Blocks(f), NEW c \in Blocks(f), NEW i \in DOMAIN f.blocks[b],
             NEW j \in DOMAIN f.blocks[c], f.blocks[b][i].res = f.blocks[c][j].res,
             f.blocks[b][i].res # NoValue
      PROVE  b = c /\ i = j
  <2>1. <<b, i>> \in Sites(f) /\ At(f, <<b, i>>) = f.blocks[b][i]
        /\ <<c, j>> \in Sites(f) /\ At(f, <<c, j>>) = f.blocks[c][j]
    BY SitesAre
  <2>2. <<b, i>> = <<c, j>>
    BY <1>1, <1>6, <2>1
  <2>3. QED
    BY <2>2
<1>7. ASSUME NEW b \in Blocks(f), NEW i \in DOMAIN f.blocks[b]
      PROVE  Supplied(f, f, b, i)
  <2> DEFINE inst == f.blocks[b][i]
  <2>1. <<b, i>> \in Sites(f) /\ At(f, <<b, i>>) = inst
    BY SitesAre
  <2> HIDE DEF inst
  <2>2. CASE inst.op = "phi"
    <3>1. /\ DOMAIN inst.args = DOMAIN inst.to
          /\ \A k \in DOMAIN inst.to :
               DefinedAt(f, inst.args[k], <<inst.to[k], Len(f.blocks[inst.to[k]]) + 1>>)
      BY <1>1, <2>1, <2>2
    <3>2. \A k \in DOMAIN inst.args :
            Available(f, f, inst.args[k], inst.to[k], Len(f.blocks[inst.to[k]]) + 1)
      BY <3>1, DefinedIsAvailable
    <3>3. QED
      BY <2>2, <3>2 DEF Supplied, inst
  <2>3. CASE inst.op # "phi"
    <3>1. \A v \in ToSet(inst.args) : DefinedAt(f, v, <<b, i>>)
      BY <1>1, <2>1, <2>3
    <3>2. \A k \in DOMAIN inst.args : DefinedAt(f, inst.args[k], <<b, i>>)
      BY <3>1 DEF ToSet
    <3>3. \A k \in DOMAIN inst.args : Available(f, f, inst.args[k], b, i)
      BY <3>2, DefinedIsAvailable
    <3>4. QED
      BY <2>3, <3>3 DEF Supplied, inst
  <2>4. QED
    BY <2>2, <2>3
<1>8. ASSUME NEW b \in Blocks(f), NEW i \in DOMAIN f.blocks[b]
      PROVE  Shapely(f, f, b, i)
  <2> DEFINE inst == f.blocks[b][i]
  <2>1. <<b, i>> \in Sites(f) /\ At(f, <<b, i>>) = inst
    BY SitesAre
  <2>2. Record(inst) /\ DOMAIN f.blocks[b] = 1 .. Len(f.blocks[b]) /\ Len(f.blocks[b]) \in Nat
    BY FunctionRecord
  <2>3. inst.res \in Locals(f) <=> inst.op = "alloca"
    <3>1. inst.op = "alloca" => inst.res \in Locals(f)
      BY LocalsAre
    <3>2. ASSUME inst.res \in Locals(f) PROVE inst.op = "alloca"
      <4>1. PICK c, j : c \in Blocks(f) /\ j \in DOMAIN f.blocks[c] /\
              f.blocks[c][j].op = "alloca" /\ f.blocks[c][j].res = inst.res
        BY <3>2, LocalsAre
      <4>2. f.blocks[c][j].res # NoValue
        <5>1. <<c, j>> \in Sites(f) /\ At(f, <<c, j>>) = f.blocks[c][j]
          BY <4>1, SitesAre
        <5>2. QED
          BY <4>1, <5>1, FunctionsWellFormed
      <4>3. b = c /\ i = j
        BY <1>6, <4>1, <4>2
      <4>4. QED
        BY <4>1, <4>3
    <3>3. QED
      BY <3>1, <3>2
  <2> HIDE DEF inst
  <2>4. /\ inst.op \in {"alloca", "load", "phi"} => inst.res # NoValue
        /\ inst.op \in {"set", "store", "br", "condbr", "ret"} => inst.res = NoValue
        /\ inst.op = "alloca" => b = Entry
        /\ inst.op = "load" => Len(inst.args) = 1
        /\ inst.op = "set" => Len(inst.args) = 2
        /\ \A k \in DOMAIN inst.args :
             inst.args[k] \in Locals(f) <=> inst.op \in {"load", "set"} /\ k = 1
        /\ inst.op \in {"br", "condbr", "ret"} => i = Len(f.blocks[b])
        /\ inst.op = "phi" => /\ b # Entry
                              /\ i \in PhiSites(f, b)
                              /\ IsInjective(inst.to)
                              /\ ToSet(inst.to) = ToSet(Preds(f, b))
    BY <2>1, FunctionsWellFormed
  <2>5. inst.op = "load" => DOMAIN inst.args = {1}
    <3>1. ASSUME Len(inst.args) = 1 PROVE DOMAIN inst.args = {1}
      BY <2>2, <3>1 DEF Record
    <3>2. QED
      BY <2>4, <3>1
  <2>6. inst.op = "set" => DOMAIN inst.args = {1, 2}
    <3>1. ASSUME Len(inst.args) = 2 PROVE DOMAIN inst.args = {1, 2}
      BY <2>2, <3>1 DEF Record
    <3>2. QED
      BY <2>4, <3>1
  <2>7. ASSUME inst.op = "phi"
        PROVE  /\ b # Entry
               /\ \A q \in 1 .. i : f.blocks[b][q].op = "phi"
               /\ DOMAIN inst.args = DOMAIN inst.to
               /\ \A j, k \in DOMAIN inst.to : inst.to[j] = inst.to[k] => j = k
               /\ ToSet(inst.to) = {c \in Blocks(f) : b \in Succs(f, c)}
    <3>1. DOMAIN inst.args = DOMAIN inst.to
      BY <1>1, <2>1, <2>7
    <3>2. ToSet(inst.to) = {c \in Blocks(f) : b \in Succs(f, c)}
      BY <2>4, <2>7, PredsAre
    <3>3. \A q \in 1 .. i : f.blocks[b][q].op = "phi"
      BY <2>4, <2>7 DEF PhiSites
    <3>4. \A j, k \in DOMAIN inst.to : inst.to[j] = inst.to[k] => j = k
      BY <2>4, <2>7 DEF IsInjective
    <3>5. QED
      BY <2>4, <2>7, <3>1, <3>2, <3>3, <3>4
  <2>8. QED
    BY <2>3, <2>4, <2>5, <2>6, <2>7 DEF Shapely, inst
<1>9. Locals(f) \subseteq Results(f)
  <2>1. ASSUME NEW x \in Locals(f) PROVE x \in Results(f)
    <3>1. PICK c, j : c \in Blocks(f) /\ j \in DOMAIN f.blocks[c] /\
              f.blocks[c][j].op = "alloca" /\ f.blocks[c][j].res = x
      BY LocalsAre
    <3>2. x # NoValue
      BY <1>8, <3>1 DEF Shapely
    <3>3. QED
      BY <1>3, <3>1, <3>2
  <2>2. QED
    BY <2>1
<1>10. QED
  BY <1>2, <1>3, <1>4, <1>5, <1>6, <1>7, <1>8, <1>9

\* Where the instructions of g come from.
LEMMA LayoutIs ==
  ASSUME NEW f \in Functions, NEW g, Layout(f, g), NEW b \in Blocks(f)
  PROVE  /\ Shift(f, g, b) \in Nat /\ Len(f.blocks[b]) \in Nat /\ Len(g.blocks[b]) \in Nat
         /\ DOMAIN f.blocks[b] = 1 .. Len(f.blocks[b]) /\ DOMAIN g.blocks[b] = 1 .. Len(g.blocks[b])
         /\ Len(g.blocks[b]) = Shift(f, g, b) + Len(f.blocks[b])
         /\ \A i \in DOMAIN f.blocks[b] :
              /\ Shift(f, g, b) + i \in DOMAIN g.blocks[b]
              /\ g.blocks[b][Shift(f, g, b) + i] = f.blocks[b][i]
              /\ ~IsNew(f, g.blocks[b][Shift(f, g, b) + i])
         /\ \A p \in DOMAIN g.blocks[b] :
              IF p <= Shift(f, g, b)
              THEN \E x \in Locals(f) : g.blocks[b][p] = NewPhi(x, b)
              ELSE \E i \in DOMAIN f.blocks[b] : p = Shift(f, g, b) + i
         /\ \A p \in DOMAIN g.blocks[b] : IsNew(f, g.blocks[b][p]) <=> p <= Shift(f, g, b)
<1> DEFINE m == Len(f.blocks[b])
           n == Len(g.blocks[b])
           s == Shift(f, g, b)
<1>1. /\ s \in Nat /\ m \in Nat /\ n \in Nat /\ s = n - m
      /\ DOMAIN f.blocks[b] = 1 .. m /\ DOMAIN g.blocks[b] = 1 .. n
      /\ \A i \in DOMAIN f.blocks[b] : g.blocks[b][s + i] = f.blocks[b][i]
      /\ \A q \in 1 .. s : \E x \in Locals(f) : g.blocks[b][q] = NewPhi(x, b)
  BY FunctionRecord DEF Layout, Shift
<1>2. \A i \in DOMAIN f.blocks[b] : ~IsNew(f, f.blocks[b][i])
  BY FunctionFacts
<1> HIDE DEF m, n, s
<1>3. n = s + m
  BY <1>1
<1>4. ASSUME NEW i \in DOMAIN f.blocks[b]
      PROVE  s + i \in DOMAIN g.blocks[b] /\ g.blocks[b][s + i] = f.blocks[b][i]
             /\ ~IsNew(f, g.blocks[b][s + i])
  <2>1. s + i \in 1 .. n
    BY <1>1
  <2>2. QED
    BY <1>1, <1>2, <2>1
<1>5. ASSUME NEW p \in DOMAIN g.blocks[b]
      PROVE  IF p <= s
             THEN \E x \in Locals(f) : g.blocks[b][p] = NewPhi(x, b)
             ELSE \E i \in DOMAIN f.blocks[b] : p = s + i
  <2>1. p \in 1 .. n
    BY <1>1
  <2>2. CASE p <= s
    <3>1. p \in 1 .. s
      BY <1>1, <2>1, <2>2
    <3>2. QED
      BY <1>1, <2>2, <3>1
  <2>3. CASE ~(p <= s)
    <3>1. p - s \in 1 .. m /\ p = s + (p - s)
      BY <1>1, <1>3, <2>1, <2>3
    <3>2. QED
      BY <1>1, <2>3, <3>1
  <2>4. QED
    BY <2>2, <2>3
<1>6. ASSUME NEW p \in DOMAIN g.blocks[b] PROVE IsNew(f, g.blocks[b][p]) <=> p <= s
  <2>1. CASE p <= s
    <3>1. \E x \in Locals(f) : g.blocks[b][p] = NewPhi(x, b)
      BY <1>5, <2>1
    <3>2. IsNew(f, g.blocks[b][p])
      BY <3>1 DEF IsNew, NewPhi
    <3>3. QED
      BY <2>1, <3>2
  <2>2. CASE ~(p <= s)
    <3>1. PICK i \in DOMAIN f.blocks[b] : p = s + i
      BY <1>5, <2>2
    <3>2. QED
      BY <1>4, <2>2, <3>1
  <2>3. QED
    BY <2>1, <2>2
<1>7. QED
  BY <1>1, <1>3, <1>4, <1>5, <1>6 DEF m, n, s

\* What is available in f is available at the same place of g.
LEMMA LayoutSupplies ==
  ASSUME NEW f \in Functions, NEW g, Layout(f, g), NEW v, NEW b \in Blocks(f), NEW i \in Int,
         Available(f, f, v, b, i)
  PROVE  Available(f, g, v, b, Shift(f, g, b) + i)
<1>1. CASE v \in Literals \cup Params(f)
  BY <1>1 DEF Available
<1>2. CASE v \notin Literals \cup Params(f)
  <2>1. PICK c, q : /\ c \in Blocks(f) /\ q \in DOMAIN f.blocks[c]
                    /\ f.blocks[c][q].res = v /\ Ahead(f, c, q, b, i) /\ v # NoValue
    BY <1>2 DEF Available
  <2>2. /\ Shift(f, g, c) \in Nat /\ q \in Int /\ Shift(f, g, b) \in Nat
        /\ Shift(f, g, c) + q \in DOMAIN g.blocks[c]
        /\ g.blocks[c][Shift(f, g, c) + q] = f.blocks[c][q]
    BY <2>1, LayoutIs
  <2>3. Ahead(f, c, Shift(f, g, c) + q, b, Shift(f, g, b) + i)
    <3>1. CASE c = b /\ q < i
      <4>1. Shift(f, g, c) = Shift(f, g, b) /\ Shift(f, g, c) + q < Shift(f, g, c) + i
        BY <2>2, <3>1
      <4>2. QED
        BY <3>1, <4>1 DEF Ahead
    <3>2. CASE StrictlyDominates(f, c, b)
      BY <3>2 DEF Ahead
    <3>3. QED
      BY <2>1, <3>1, <3>2 DEF Ahead
  <2>4. QED
    BY <2>1, <2>2, <2>3 DEF Available
<1>3. QED
  BY <1>1, <1>2

\* What the renaming relies on.
Base(f, g) ==
  /\ \A b \in Blocks(f) :
       /\ Len(g.blocks[b]) \in Nat /\ DOMAIN g.blocks[b] = 1 .. Len(g.blocks[b])
       /\ \A p \in DOMAIN g.blocks[b] :
            /\ Record(g.blocks[b][p])
            /\ g.blocks[b][p].res \notin Params(f) \cup Literals
            /\ IF IsNew(f, g.blocks[b][p])
               THEN /\ \E x \in Locals(f) : g.blocks[b][p] = NewPhi(x, b)
                    /\ g.blocks[b][p].res # NoValue
                    /\ \A q \in 1 .. p : IsNew(f, g.blocks[b][q])
                    /\ b # Entry
               ELSE Shapely(f, g, b, p) /\ Supplied(f, g, b, p)
  /\ \A b, c \in Blocks(f) : \A p \in DOMAIN g.blocks[b], q \in DOMAIN g.blocks[c] :
       g.blocks[b][p].res = g.blocks[c][q].res /\ g.blocks[b][p].res # NoValue => b = c /\ p = q

\* Names of new phis are told apart by variable and block.
LEMMA PhiValueIs ==
  ASSUME NEW x, NEW y, NEW b, NEW c, PhiValue(x, b) = PhiValue(y, c)
  PROVE  x = y /\ b = c
BY DEF PhiValue

\* What the renaming relies on holds while phis are being placed.
LEMMA LayoutIsBase ==
  ASSUME NEW f \in Functions, NEW g, Layout(f, g)
  PROVE  Base(f, g)
<1>1. ASSUME NEW b \in Blocks(f), NEW p \in DOMAIN g.blocks[b], p <= Shift(f, g, b)
      PROVE  /\ IsNew(f, g.blocks[b][p]) /\ Record(g.blocks[b][p])
             /\ g.blocks[b][p].res \notin SsaValues(f) \cup Literals \cup {NoValue}
             /\ \E x \in Locals(f) : g.blocks[b][p] = NewPhi(x, b)
             /\ \A q \in 1 .. p : IsNew(f, g.blocks[b][q])
             /\ b # Entry
  <2>1. PICK x \in Locals(f) : g.blocks[b][p] = NewPhi(x, b)
    BY <1>1, LayoutIs
  <2>2. Record(g.blocks[b][p])
    <3>1. "phi" \in Opcodes
      BY DEF Opcodes
    <3>2. QED
      BY <2>1, <3>1 DEF Record, NewPhi
  <2>3. IsNew(f, g.blocks[b][p])
    BY <1>1, LayoutIs
  <2>4. ASSUME NEW q \in 1 .. p PROVE IsNew(f, g.blocks[b][q])
    <3>1. p \in 1 .. Len(g.blocks[b]) /\ Len(g.blocks[b]) \in Nat /\ Shift(f, g, b) \in Nat
      BY LayoutIs
    <3>2. q \in 1 .. Len(g.blocks[b]) /\ q <= Shift(f, g, b)
      BY <1>1, <3>1
    <3>3. QED
      BY <3>2, LayoutIs
  <2>5. b # Entry
    <3>1. b = Entry => Shift(f, g, b) = 0
      BY DEF Layout
    <3>2. p \in 1 .. Len(g.blocks[b]) /\ Len(g.blocks[b]) \in Nat
      BY LayoutIs
    <3>3. QED
      BY <1>1, <3>1, <3>2
  <2>6. g.blocks[b][p].res = PhiValue(x, b)
    BY <2>1 DEF NewPhi
  <2>7. g.blocks[b][p].res \notin SsaValues(f) \cup Literals \cup {NoValue}
    BY <2>6, FunctionFacts
  <2>8. QED
    BY <2>1, <2>2, <2>3, <2>4, <2>5, <2>7
<1>2. ASSUME NEW b \in Blocks(f), NEW i \in DOMAIN f.blocks[b]
      PROVE  /\ Record(f.blocks[b][i])
             /\ f.blocks[b][i].res \notin Params(f) \cup Literals
             /\ Shapely(f, g, b, Shift(f, g, b) + i) /\ Supplied(f, g, b, Shift(f, g, b) + i)
             /\ f.blocks[b][i].res = NoValue \/ f.blocks[b][i].res \in SsaValues(f)
  <2> DEFINE p == Shift(f, g, b) + i
             inst == f.blocks[b][i]
  <2>1. /\ Record(inst) /\ inst.res \notin Params(f) \cup Literals
        /\ inst.res = NoValue \/ inst.res \in SsaValues(f)
        /\ Shapely(f, f, b, i) /\ Supplied(f, f, b, i)
    BY FunctionRecord, FunctionFacts DEF SsaValues
  <2>2. /\ g.blocks[b][p] = inst /\ p \in DOMAIN g.blocks[b]
        /\ Len(g.blocks[b]) = Shift(f, g, b) + Len(f.blocks[b])
    BY LayoutIs
  <2>3. ASSUME inst.op = "phi", NEW q \in 1 .. p PROVE g.blocks[b][q].op = "phi"
    <3>1. /\ Shift(f, g, b) \in Nat /\ DOMAIN g.blocks[b] = 1 .. Len(g.blocks[b])
          /\ DOMAIN f.blocks[b] = 1 .. Len(f.blocks[b]) /\ Len(g.blocks[b]) \in Nat
      BY LayoutIs
    <3>2. q \in DOMAIN g.blocks[b]
      BY <2>2, <2>3, <3>1
    <3>3. CASE q <= Shift(f, g, b)
      BY <1>1, <3>2, <3>3 DEF IsNew
    <3>4. CASE ~(q <= Shift(f, g, b))
      <4>1. PICK j \in DOMAIN f.blocks[b] : q = Shift(f, g, b) + j
        BY <3>2, <3>4, LayoutIs
      <4>2. j \in 1 .. i
        BY <2>3, <3>1, <4>1
      <4>3. f.blocks[b][j].op = "phi"
        BY <2>1, <2>3, <4>2 DEF Shapely
      <4>4. g.blocks[b][q] = f.blocks[b][j]
        BY <4>1, LayoutIs
      <4>5. QED
        BY <4>3, <4>4
    <3>5. QED
      BY <3>3, <3>4
  <2>4. Shapely(f, g, b, p)
    <3>1. i = Len(f.blocks[b]) => p = Len(g.blocks[b])
      BY <2>2
    <3> HIDE DEF p
    <3>2. QED
      BY <2>1, <2>2, <2>3, <3>1 DEF Shapely
  <2>5. Supplied(f, g, b, p)
    <3>1. CASE inst.op = "phi"
      <4>1. ASSUME NEW k \in DOMAIN inst.args
            PROVE  Available(f, g, inst.args[k], inst.to[k], Len(g.blocks[inst.to[k]]) + 1)
        <5>1. Available(f, f, inst.args[k], inst.to[k], Len(f.blocks[inst.to[k]]) + 1)
          BY <2>1, <3>1 DEF Supplied
        <5>2. PICK c \in Blocks(f) : c = inst.to[k]
          <6>1. k \in DOMAIN inst.to /\ ToSet(inst.to) \subseteq Blocks(f)
            BY <2>1, <3>1 DEF Shapely
          <6>2. QED
            BY <6>1 DEF ToSet
        <5>3. /\ Len(f.blocks[c]) \in Nat /\ Shift(f, g, c) \in Nat
              /\ Len(g.blocks[c]) = Shift(f, g, c) + Len(f.blocks[c])
          BY LayoutIs
        <5>4. Available(f, g, inst.args[k], c, Shift(f, g, c) + (Len(f.blocks[c]) + 1))
          <6>1. Len(f.blocks[c]) + 1 \in Int
            BY <5>3
          <6>2. QED
            BY <5>1, <5>2, <6>1, LayoutSupplies
        <5>5. Shift(f, g, c) + (Len(f.blocks[c]) + 1) = Len(g.blocks[c]) + 1
          BY <5>3
        <5>6. QED
          BY <5>2, <5>4, <5>5
      <4> HIDE DEF p, inst
      <4>2. QED
        BY <2>2, <3>1, <4>1 DEF Supplied
    <3>2. CASE inst.op # "phi"
      <4>1. ASSUME NEW k \in DOMAIN inst.args PROVE Available(f, g, inst.args[k], b, p)
        <5>1. Available(f, f, inst.args[k], b, i)
          BY <2>1, <3>2 DEF Supplied
        <5>2. i \in Int
          BY LayoutIs
        <5>3. QED
          BY <5>1, <5>2, LayoutSupplies
      <4> HIDE DEF p, inst
      <4>2. QED
        BY <2>2, <3>2, <4>1 DEF Supplied
    <3>3. QED
      BY <3>1, <3>2
  <2>6. QED
    BY <2>1, <2>4, <2>5
<1>3. ASSUME NEW b \in Blocks(f), NEW p \in DOMAIN g.blocks[b], ~(p <= Shift(f, g, b))
      PROVE  \E i \in DOMAIN f.blocks[b] : p = Shift(f, g, b) + i /\ g.blocks[b][p] = f.blocks[b][i]
  BY <1>3, LayoutIs
<1>4. ASSUME NEW b \in Blocks(f), NEW p \in DOMAIN g.blocks[b]
      PROVE  /\ Record(g.blocks[b][p])
             /\ g.blocks[b][p].res \notin Params(f) \cup Literals
             /\ IF IsNew(f, g.blocks[b][p])
                THEN /\ \E x \in Locals(f) : g.blocks[b][p] = NewPhi(x, b)
                     /\ g.blocks[b][p].res # NoValue
                     /\ \A q \in 1 .. p : IsNew(f, g.blocks[b][q])
                     /\ b # Entry
                ELSE Shapely(f, g, b, p) /\ Supplied(f, g, b, p)
  <2>1. CASE p <= Shift(f, g, b)
    BY <1>1, <2>1 DEF SsaValues
  <2>2. CASE ~(p <= Shift(f, g, b))
    <3>1. PICK i \in DOMAIN f.blocks[b] : p = Shift(f, g, b) + i /\ g.blocks[b][p] = f.blocks[b][i]
      BY <1>3, <2>2
    <3>2. ~IsNew(f, g.blocks[b][p])
      BY <2>2, LayoutIs
    <3>3. QED
      BY <1>2, <3>1, <3>2
  <2>3. QED
    BY <2>1, <2>2
<1>5. ASSUME NEW b \in Blocks(f), NEW c \in Blocks(f), NEW p \in DOMAIN g.blocks[b],
             NEW q \in DOMAIN g.blocks[c], g.blocks[b][p].res = g.blocks[c][q].res,
             g.blocks[b][p].res # NoValue
      PROVE  b = c /\ p = q
  <2>1. CASE p <= Shift(f, g, b) /\ q <= Shift(f, g, c)
    <3>1. PICK x \in Locals(f) : g.blocks[b][p] = NewPhi(x, b)
      BY <1>1, <2>1
    <3>2. PICK y \in Locals(f) : g.blocks[c][q] = NewPhi(y, c)
      BY <1>1, <2>1
    <3>3. b = c
      BY <1>5, <3>1, <3>2, PhiValueIs DEF NewPhi
    <3>4. p \in 1 .. Shift(f, g, b) /\ q \in 1 .. Shift(f, g, c)
      <4>1. /\ p \in 1 .. Len(g.blocks[b]) /\ Len(g.blocks[b]) \in Nat /\ Shift(f, g, b) \in Nat
            /\ q \in 1 .. Len(g.blocks[c]) /\ Len(g.blocks[c]) \in Nat /\ Shift(f, g, c) \in Nat
        BY LayoutIs
      <4>2. QED
        BY <2>1, <4>1
    <3>5. QED
      BY <1>5, <3>3, <3>4 DEF Layout
  <2>2. CASE p <= Shift(f, g, b) /\ ~(q <= Shift(f, g, c))
    <3>1. g.blocks[b][p].res \notin SsaValues(f) \cup {NoValue}
      BY <1>1, <2>2
    <3>2. g.blocks[c][q].res = NoValue \/ g.blocks[c][q].res \in SsaValues(f)
      BY <1>2, <1>3, <2>2
    <3>3. QED
      BY <1>5, <3>1, <3>2
  <2>3. CASE ~(p <= Shift(f, g, b)) /\ q <= Shift(f, g, c)
    <3>1. g.blocks[c][q].res \notin SsaValues(f) \cup {NoValue}
      BY <1>1, <2>3
    <3>2. g.blocks[b][p].res = NoValue \/ g.blocks[b][p].res \in SsaValues(f)
      BY <1>2, <1>3, <2>3
    <3>3. QED
      BY <1>5, <3>1, <3>2
  <2>4. CASE ~(p <= Shift(f, g, b)) /\ ~(q <= Shift(f, g, c))
    <3>1. PICK i \in DOMAIN f.blocks[b] : p = Shift(f, g, b) + i /\ g.blocks[b][p] = f.blocks[b][i]
      BY <1>3, <2>4
    <3>2. PICK j \in DOMAIN f.blocks[c] : q = Shift(f, g, c) + j /\ g.blocks[c][q] = f.blocks[c][j]
      BY <1>3, <2>4
    <3>3. b = c /\ i = j
      BY <1>5, <3>1, <3>2, FunctionFacts
    <3>4. QED
      BY <3>1, <3>2, <3>3
  <2>5. QED
    BY <2>1, <2>2, <2>3, <2>4
<1>6. \A b \in Blocks(f) : Len(g.blocks[b]) \in Nat /\ DOMAIN g.blocks[b] = 1 .. Len(g.blocks[b])
  BY LayoutIs
<1>7. QED
  BY <1>4, <1>5, <1>6 DEF Base

-----------------------------------------------------------------------------
(* What stays as the analysis left it. *)

\* The stages of the analysis.
Early == stage \in {"ordering", "dominators", "frontiers"}

\* All local variables are listed, each once.
PromotableListed(f, names) ==
  /\ names \in Seq(Locals(f))
  /\ \A i, j \in DOMAIN names : names[i] = names[j] => i = j
  /\ \A x \in Locals(f) : \E i \in DOMAIN names : names[i] = x

\* The children of every block.
Kids == [b \in Blocks(original) |-> Children(b)]

\* What the analysis has found.
Analysed ==
  /\ DomTree(original, idom)
  /\ ChildrenListed(original, idom, Kids)
  /\ FrontiersListed(original, frontier)
  /\ PromotableListed(original, promotable)

\* Where the analysis keeps its state.
AnalysisTyped ==
  /\ postorder \in Seq(Blocks(original))
  /\ idom \in [Blocks(original) -> Blocks(original) \cup {0}]
  /\ frontier \in [Blocks(original) -> SUBSET Blocks(original)]
  /\ runner \in Blocks(original) \cup {0}

\* Nothing has been rewritten.
NotBegun ==
  /\ fn = original /\ promotable = << >> /\ variable = 0 /\ worklist = {} /\ stacks = << >>
  /\ walk = << >> /\ pc = <<Entry, 1>> /\ before = << >> /\ after = << >>

\* What is known of the analysis at every stage.
Known ==
  /\ original \in Functions
  /\ AnalysisTyped
  /\ Early => NotBegun
  /\ ~Early => Analysed

\* The allocas of the entry: nothing but loads and stores takes their address.
LEMMA AllAreCollected ==
  ASSUME fn \in Functions, CollectPromotable
  PROVE  PromotableListed(fn, promotable')
<1> DEFINE insts == fn.blocks[Entry]
           found == {i \in DOMAIN insts :
                       /\ insts[i].op = "alloca"
                       /\ \A u \in Uses(fn, insts[i].res) : At(fn, u[1]).op \in {"load", "set"}}
           names == [i \in DOMAIN insts |-> insts[i].res]
           list == Picked(names, found)
<1>1. promotable' = list
  BY DEF CollectPromotable
<1>2. /\ Len(insts) \in Nat /\ DOMAIN insts = 1 .. Len(insts)
      /\ Entry \in Blocks(fn)
  BY FunctionRecord, FunctionsShaped DEF Shaped
<1>3. \A b \in Blocks(fn) : \A i \in DOMAIN fn.blocks[b] : Shapely(fn, fn, b, i)
  BY FunctionFacts
<1>4. ASSUME NEW i \in DOMAIN insts, insts[i].op = "alloca" PROVE i \in found
  <2>1. insts[i].res \in Locals(fn)
    BY <1>2, <1>4, LocalsAre
  <2>2. ASSUME NEW u \in Uses(fn, insts[i].res) PROVE At(fn, u[1]).op \in {"load", "set"}
    <3>1. PICK s \in Sites(fn) : u \in {s} \X DOMAIN At(fn, s).args
      BY DEF Uses
    <3>2. u[1] = s /\ u[2] \in DOMAIN At(fn, s).args /\ At(fn, s).args[u[2]] = insts[i].res
      BY <3>1 DEF Uses
    <3>3. /\ s[1] \in Blocks(fn) /\ s[2] \in DOMAIN fn.blocks[s[1]]
          /\ At(fn, s) = fn.blocks[s[1]][s[2]]
      BY SitesAre
    <3>4. Shapely(fn, fn, s[1], s[2])
      BY <1>3, <3>3
    <3>5. QED
      BY <2>1, <3>2, <3>3, <3>4 DEF Shapely
  <2>3. QED
    BY <1>4, <2>2
<1>5. ASSUME NEW x \in Locals(fn) PROVE \E i \in found : names[i] = x
  <2>1. PICK b \in Blocks(fn) : \E i \in DOMAIN fn.blocks[b] :
               fn.blocks[b][i].op = "alloca" /\ fn.blocks[b][i].res = x
    BY LocalsAre
  <2>2. PICK i \in DOMAIN fn.blocks[b] : fn.blocks[b][i].op = "alloca" /\ fn.blocks[b][i].res = x
    BY <2>1
  <2>3. b = Entry
    BY <1>3, <2>2 DEF Shapely
  <2>4. QED
    BY <1>4, <2>2, <2>3
<1>6. ASSUME NEW i \in found
      PROVE  /\ i \in DOMAIN insts /\ names[i] = insts[i].res
              /\ names[i] \in Locals(fn) /\ insts[i].res # NoValue
  <2>1. i \in DOMAIN insts /\ insts[i].op = "alloca"
    OBVIOUS
  <2>2. insts[i].res \in Locals(fn)
    BY <1>2, <2>1, LocalsAre
  <2>3. Shapely(fn, fn, Entry, i)
    BY <1>2, <1>3, <2>1
  <2>4. QED
    BY <2>1, <2>2, <2>3 DEF Shapely
<1>7. ASSUME NEW i \in found, NEW j \in found, names[i] = names[j] PROVE i = j
  <2>1. /\ i \in DOMAIN insts /\ j \in DOMAIN insts
        /\ insts[i].res = insts[j].res /\ insts[i].res # NoValue
    BY <1>6, <1>7
  <2>2. \A k, l \in DOMAIN insts : insts[k].res = insts[l].res /\ insts[k].res # NoValue => k = l
    BY <1>2, FunctionFacts
  <2> HIDE DEF insts, found, names
  <2>3. QED
    BY <2>1, <2>2
<1>8. found \in SUBSET DOMAIN names /\ names \in Seq({names[i] : i \in DOMAIN insts})
  BY <1>2
<1> HIDE DEF found, names, insts
<1>9. PickedFrom(list, names, found)
  BY <1>8, PickedIs
<1> HIDE DEF list
<1>10. /\ Len(list) = Cardinality(found) /\ DOMAIN list = 1 .. Cardinality(found)
       /\ \A n \in found : Rank(found, n) \in DOMAIN list /\ list[Rank(found, n)] = names[n]
       /\ \A k \in DOMAIN list : \E n \in found : Rank(found, n) = k /\ list[k] = names[n]
  BY <1>9 DEF PickedFrom
<1>11. \A k \in DOMAIN list : list[k] \in Locals(fn)
  BY <1>6, <1>10
<1>12. list \in Seq(Locals(fn))
  <2>1. list \in Seq({names[i] : i \in DOMAIN insts})
    BY <1>8, PickedIs DEF list
  <2>2. QED
    BY <1>11, <2>1, SequenceOf
<1>13. ASSUME NEW i \in DOMAIN list, NEW j \in DOMAIN list, list[i] = list[j] PROVE i = j
  BY <1>7, <1>10, <1>13
<1>14. ASSUME NEW x \in Locals(fn) PROVE \E i \in DOMAIN list : list[i] = x
  BY <1>5, <1>10
<1>15. PromotableListed(fn, list)
  BY <1>12, <1>13, <1>14 DEF PromotableListed
<1>16. QED
  BY <1>1, <1>15

\* A step that leaves the analysis alone keeps what it has found.
LEMMA AnalysedKept ==
  ASSUME UNCHANGED <<original, idom, postorder, frontier, promotable>>
  PROVE  Analysed => Analysed'
<1>1. \A b : Children(b)' = Children(b)
  BY DEF Children, ReversePostorder
<1>2. Kids' = Kids
  BY <1>1 DEF Kids
<1>3. QED
  BY <1>2 DEF Analysed

\* What an early step keeps.
LEMMA RunnerTyped ==
  ASSUME DomInv, fn \in Functions, runner \in Blocks(fn) \cup {0}, DomNext
  PROVE  runner' \in Blocks(fn) \cup {0}
<1>1. ASSUME NEW e, fn \in Functions, Ordered, Tree, Complete PROVE StartAt(e) \in Blocks(fn) \cup {0}
  BY <1>1, EdgeStarts DEF StartAt
<1>2. CASE DominatorsDone
  <2>1. Ordered /\ Tree /\ Complete
    BY <1>2, SettledIsComplete DEF DomInv, DominatorsDone
  <2>2. QED
    BY <1>1, <1>2, <2>1 DEF DominatorsDone
<1>3. CASE NextEdge
  <2>1. Ordered /\ Tree /\ Complete
    BY <1>3 DEF DomInv, NextEdge
  <2>2. QED
    BY <1>1, <1>3, <2>1 DEF NextEdge
<1>4. CASE Climb
  <2>1. Tree /\ FrontiersGrow
    BY <1>4 DEF DomInv, Climb
  <2>2. runner \in Found
    BY <1>4, <2>1 DEF FrontiersGrow, Climb, Above
  <2>3. idom[runner] \in Blocks(fn) \cup {0}
    BY <2>1, <2>2 DEF Tree, Found
  <2>4. QED
    BY <1>4, <2>3 DEF Climb
<1>5. QED
  BY <1>2, <1>3, <1>4
     DEF DomNext, FollowEdge, LeaveBlock, OrderingDone, FindIdom, SweepAgain

\* The types of the analysis, while it runs.
LEMMA EarlyTypes ==
  ASSUME DomInv, Early
  PROVE  /\ fn \in Functions
         /\ postorder \in Seq(Blocks(fn))
         /\ idom \in [Blocks(fn) -> Blocks(fn) \cup {0}]
         /\ frontier \in [Blocks(fn) -> SUBSET Blocks(fn)]
BY DEF DomInv, Early, Searching, Ordered, Tree, FrontiersGrow

\* Nothing has been rewritten at first.
LEMMA InitKnown == Init => Known
<1> SUFFICES ASSUME Init PROVE Known
  OBVIOUS
<1>1. DomInv /\ Early /\ fn = original /\ NotBegun /\ runner = 0
  BY InitDomInv DEF Init, DomInit, Early, NotBegun
<1>2. QED
  BY <1>1, EarlyTypes DEF Known, AnalysisTyped

\* Every step keeps what is known of the analysis.
LEMMA NextKnown ==
  ASSUME DomInv, Known, [Next]_vars
  PROVE  Known'
<1>d. DomInv'
  BY NextKeepsDom
<1>1. CASE DomNext /\ UNCHANGED <<passVars, runVars>>
  <2>1. Early /\ Early' /\ fn' = fn
    BY <1>1 DEF DomNext, FollowEdge, LeaveBlock, OrderingDone, FindIdom, SweepAgain,
                DominatorsDone, Climb, NextEdge, Early
  <2>2. original' = original /\ NotBegun /\ NotBegun'
    BY <1>1, <2>1 DEF Known, NotBegun, passVars, runVars
  <2>3. fn = original /\ fn' = original'
    BY <2>2 DEF NotBegun
  <2>4. runner' \in Blocks(original) \cup {0}
    BY <1>1, <2>3, RunnerTyped DEF Known, AnalysisTyped
  <2>5. /\ postorder' \in Seq(Blocks(fn')) /\ idom' \in [Blocks(fn') -> Blocks(fn') \cup {0}]
        /\ frontier' \in [Blocks(fn') -> SUBSET Blocks(fn')]
    <3>1. (DomInv /\ Early) => /\ postorder \in Seq(Blocks(fn))
                               /\ idom \in [Blocks(fn) -> Blocks(fn) \cup {0}]
                               /\ frontier \in [Blocks(fn) -> SUBSET Blocks(fn)]
      BY EarlyTypes
    <3>2. (DomInv /\ Early)' => /\ postorder' \in Seq(Blocks(fn'))
                                /\ idom' \in [Blocks(fn') -> Blocks(fn') \cup {0}]
                                /\ frontier' \in [Blocks(fn') -> SUBSET Blocks(fn')]
      BY DEF DomInv, Early, Searching, Ordered, Tree, FrontiersGrow
    <3>3. QED
      BY <1>d, <2>1, <3>2
  <2>6. QED
    BY <2>1, <2>2, <2>3, <2>4, <2>5 DEF Known, AnalysisTyped
<1>2. CASE CollectPromotable
  <2>1. Early /\ ~Early' /\ FrontiersFound /\ stage = "frontiers"
    BY <1>2 DEF CollectPromotable, FrontiersFound, Early
  <2>2. UNCHANGED <<fn, postorder, idom, frontier, runner, original>>
    BY <1>2 DEF CollectPromotable
  <2>3. fn = original /\ fn \in Functions
    BY <2>1 DEF Known, NotBegun
  <2>4. Ordered /\ Tree /\ Complete /\ FrontiersGrow
    BY <2>1 DEF DomInv
  <2>5. FrontiersExact
    BY <2>3, <2>4, <2>1, FrontiersFinal DEF FrontiersExact
  <2>6. DomTree(original, idom) /\ ChildrenListed(original, idom, Kids)
        /\ FrontiersListed(original, frontier)
    <3>1. Kids = [b \in Blocks(fn) |-> Children(b)]
      BY <2>3 DEF Kids
    <3>2. frontier \in [Blocks(fn) -> SUBSET Blocks(fn)]
      BY <2>4 DEF FrontiersGrow
    <3>3. QED
      BY <2>1, <2>3, <2>4, <2>5, <3>1, <3>2, TreeIsFound, ChildrenAre, FrontiersAre
  <2>7. Kids' = Kids
    <3>1. \A b : Children(b)' = Children(b)
      BY <2>2 DEF Children, ReversePostorder
    <3>2. QED
      BY <2>2, <3>1 DEF Kids
  <2>8. PromotableListed(original', promotable')
    BY <1>2, <2>2, <2>3, AllAreCollected
  <2>9. Analysed'
    BY <2>2, <2>6, <2>7, <2>8 DEF Analysed
  <2>10. QED
    BY <2>1, <2>2, <2>9 DEF Known, AnalysisTyped
<1>3. CASE /\ UNCHANGED <<original, idom, postorder, frontier, promotable, runner>>
           /\ ~Early /\ ~Early'
  BY <1>3, AnalysedKept DEF Known, AnalysisTyped
<1>4. CASE UNCHANGED vars
  <2>1. UNCHANGED <<original, idom, postorder, frontier, promotable, runner, stage, fn, variable,
                    worklist, stacks, walk, pc, before, after>>
    BY <1>4 DEF vars, domVars, passVars, runVars
  <2>2. QED
    BY <2>1, AnalysedKept DEF Known, AnalysisTyped, NotBegun, Early
<1>5. CASE ChooseVariable \/ VariableDone \/ StartRenaming \/ (\E b \in Blocks(fn) : InsertPhis(b))
  <2>1. ~Early /\ ~Early' /\ UNCHANGED <<original, idom, postorder, frontier, promotable, runner>>
    BY <1>5 DEF ChooseVariable, VariableDone, StartRenaming, InsertPhis, Early
  <2>2. QED
    BY <1>3, <2>1
<1>6. CASE DefineVariable \/ RewriteLoad \/ KeepInst \/ FillPhis \/ RenameChild \/ PopVariables \/ Cleanup
  <2>1. ~Early /\ ~Early' /\ UNCHANGED <<original, idom, postorder, frontier, promotable, runner>>
    BY <1>6 DEF DefineVariable, RewriteLoad, KeepInst, FillPhis, RenameChild, PopVariables, Cleanup,
                RenamingInst, Renaming, RenamingChildren, Early, domVars, passVars
  <2>2. QED
    BY <1>3, <2>1
<1>7. CASE (\E given \in [Params(fn) -> Literals] : Start(given)) \/ Access
           \/ (\E result \in Literals : Compute(result)) \/ (\E c \in Blocks(fn) : Goto(c)) \/ Return
  <2>1. ~Early /\ ~Early' /\ UNCHANGED <<original, idom, postorder, frontier, promotable, runner>>
    BY <1>7 DEF Start, Access, Compute, Goto, Return, Running, Early, domVars, passVars
  <2>2. QED
    BY <1>3, <2>1
<1>8. QED
  BY <1>1, <1>2, <1>4, <1>5, <1>6, <1>7 DEF Next, Pass, Over

-----------------------------------------------------------------------------
(* Where the phis go. *)

\* A phi for x has been put into c.
HasPhi(f, g, x, c) == \E q \in 1 .. Shift(f, g, c) : g.blocks[c][q] = NewPhi(x, c)
\* Block b stores to x.
Stores(f, x, b) == \E i \in DOMAIN f.blocks[b] : f.blocks[b][i].op = "set" /\ f.blocks[b][i].args[1] = x

\* The blocks behind a store or a phi have phis in their frontiers, those of W
\* excepted.
ClosedBut(f, g, fr, x, W) ==
  \A b \in Blocks(f) : Stores(f, x, b) \/ HasPhi(f, g, x, b) =>
    b \in W \/ \A c \in fr[b] : HasPhi(f, g, x, c)

\* The variables before k are done with, k is being worked on, the others not begun.
PhisPlaced(f, g, fr, names, k, W) ==
  \A i \in DOMAIN names :
    /\ i < k => ClosedBut(f, g, fr, names[i], {})
    /\ i = k => ClosedBut(f, g, fr, names[i], W)
    /\ i > k => \A c \in Blocks(f) : ~HasPhi(f, g, names[i], c)

\* No phis are in place at first.
LEMMA LayoutSelf ==
  ASSUME NEW f \in Functions
  PROVE  Layout(f, f) /\ \A x : \A c \in Blocks(f) : ~HasPhi(f, f, x, c)
<1>1. /\ f = [params |-> f.params, blocks |-> f.blocks, void |-> f.void, opt |-> f.opt]
      /\ \A b \in Blocks(f) :
              /\ Len(f.blocks[b]) \in Nat /\ DOMAIN f.blocks[b] = 1 .. Len(f.blocks[b])
              /\ f.blocks[b] = [i \in 1 .. Len(f.blocks[b]) |-> f.blocks[b][i]]
  BY FunctionRecord
<1>2. ASSUME NEW b \in Blocks(f) PROVE Shift(f, f, b) = 0 /\ 1 .. Shift(f, f, b) = {}
  <2> DEFINE n == Len(f.blocks[b])
  <2>1. n \in Nat
    BY <1>1
  <2> HIDE DEF n
  <2>2. n - n = 0
    BY <2>1
  <2>3. Shift(f, f, b) = 0
    BY <2>2 DEF Shift, n
  <2>4. QED
    BY <2>3
<1>3. ASSUME NEW b \in Blocks(f)
      PROVE  /\ Shift(f, f, b) \in Nat
             /\ \A i \in DOMAIN f.blocks[b] : f.blocks[b][Shift(f, f, b) + i] = f.blocks[b][i]
             /\ \A q \in 1 .. Shift(f, f, b) : \E x \in Locals(f) : f.blocks[b][q] = NewPhi(x, b)
             /\ \A q, r \in 1 .. Shift(f, f, b) : f.blocks[b][q].res = f.blocks[b][r].res => q = r
             /\ b = Entry => Shift(f, f, b) = 0
  <2>1. \A i \in DOMAIN f.blocks[b] : 0 + i = i
    BY <1>1
  <2>2. QED
    BY <1>2, <2>1
<1>4. Layout(f, f)
  BY <1>1, <1>3 DEF Layout, Blocks
<1>5. QED
  BY <1>2, <1>4 DEF HasPhi

\* What the code asks to see whether a phi is there already.
LEMMA ResultsHavePhi ==
  ASSUME NEW f \in Functions, NEW g, Layout(f, g), NEW x \in Locals(f), NEW c \in Blocks(f)
  PROVE  PhiValue(x, c) \in Results(g) <=> HasPhi(f, g, x, c)
<1>b. Blocks(g) = Blocks(f)
  BY DEF Layout, Blocks
<1>1. ASSUME PhiValue(x, c) \in Results(g) PROVE HasPhi(f, g, x, c)
  <2>1. PICK s \in Sites(g) : At(g, s).res = PhiValue(x, c)
    BY <1>1 DEF Results
  <2>2. PICK b \in Blocks(f) : b = s[1]
    BY <1>b, SitesAre
  <2>3. PICK p \in DOMAIN g.blocks[b] : p = s[2] /\ g.blocks[b][p].res = PhiValue(x, c)
    BY <2>1, <2>2, SitesAre
  <2>4. CASE p <= Shift(f, g, b)
    <3>1. PICK y \in Locals(f) : g.blocks[b][p] = NewPhi(y, b)
      BY <2>4, LayoutIs
    <3>2. PhiValue(y, b) = PhiValue(x, c)
      BY <2>3, <3>1 DEF NewPhi
    <3>3. y = x /\ b = c
      BY <3>2, PhiValueIs
    <3>4. p \in 1 .. Shift(f, g, b)
      BY <2>4, LayoutIs
    <3>5. QED
      BY <3>1, <3>3, <3>4 DEF HasPhi
  <2>5. CASE ~(p <= Shift(f, g, b))
    <3>1. PICK i \in DOMAIN f.blocks[b] : p = Shift(f, g, b) + i
      BY <2>5, LayoutIs
    <3>2. g.blocks[b][p] = f.blocks[b][i]
      BY <3>1, LayoutIs
    <3>3. f.blocks[b][i].res = NoValue \/ f.blocks[b][i].res \in Results(f)
      BY FunctionFacts
    <3>4. PhiValue(x, c) \notin SsaValues(f) \cup Literals \cup {NoValue}
      BY FunctionFacts
    <3>5. QED
      BY <2>3, <3>2, <3>3, <3>4 DEF SsaValues
  <2>6. QED
    BY <2>4, <2>5
<1>2. ASSUME HasPhi(f, g, x, c) PROVE PhiValue(x, c) \in Results(g)
  <2>1. PICK q \in 1 .. Shift(f, g, c) : g.blocks[c][q] = NewPhi(x, c)
    BY <1>2 DEF HasPhi
  <2>2. q \in DOMAIN g.blocks[c]
    BY <2>1, LayoutIs
  <2>3. <<c, q>> \in Sites(g) /\ At(g, <<c, q>>).res = PhiValue(x, c)
    BY <1>b, <2>1, <2>2, SitesAre DEF NewPhi
  <2>4. PhiValue(x, c) # NoValue
    BY FunctionFacts
  <2>5. QED
    BY <2>3, <2>4 DEF Results
<1>3. QED
  BY <1>1, <1>2

\* A phi for x is put before the other instructions of each of the heads.
Headed(g, x, heads) ==
  [g EXCEPT !.blocks = [c \in Blocks(g) |->
     IF c \in heads THEN <<NewPhi(x, c)>> \o g.blocks[c] ELSE g.blocks[c]]]

\* What putting an element in front does.
LEMMA PrependIs ==
  ASSUME NEW s, NEW n \in Nat, s = [i \in 1 .. n |-> s[i]], NEW e
  PROVE  /\ Len(<<e>> \o s) = n + 1
         /\ <<e>> \o s = [i \in 1 .. n + 1 |-> IF i = 1 THEN e ELSE s[i - 1]]
OBVIOUS

\* What putting phis at the heads of blocks does.
LEMMA HeadedIs ==
  ASSUME NEW f \in Functions, NEW g, Layout(f, g), NEW x, NEW heads
  PROVE  LET g2 == Headed(g, x, heads)
         IN  /\ g2 = [params |-> f.params, blocks |-> g2.blocks, void |-> f.void, opt |-> f.opt]
             /\ DOMAIN g2.blocks = Blocks(f) /\ Len(g2.blocks) = Len(f.blocks)
             /\ \A c \in Blocks(f) : g2.blocks[c] =
                  IF c \in heads THEN <<NewPhi(x, c)>> \o g.blocks[c] ELSE g.blocks[c]
<1> DEFINE g2 == Headed(g, x, heads)
<1>1. /\ g = [params |-> f.params, blocks |-> g.blocks, void |-> f.void, opt |-> f.opt]
      /\ Blocks(g) = Blocks(f)
  BY DEF Layout, Blocks
<1>2. g2 = [params |-> f.params, blocks |-> g2.blocks, void |-> f.void, opt |-> f.opt]
      /\ g2.blocks = [c \in Blocks(f) |->
           IF c \in heads THEN <<NewPhi(x, c)>> \o g.blocks[c] ELSE g.blocks[c]]
  <2> DEFINE put == [c \in Blocks(g) |->
                      IF c \in heads THEN <<NewPhi(x, c)>> \o g.blocks[c] ELSE g.blocks[c]]
  <2>1. g2 = [g EXCEPT !.blocks = put]
    BY DEF Headed
  <2>2. put = [c \in Blocks(f) |->
           IF c \in heads THEN <<NewPhi(x, c)>> \o g.blocks[c] ELSE g.blocks[c]]
    BY <1>1
  <2> HIDE DEF put, g2
  <2>3. g2 = [params |-> f.params, blocks |-> g2.blocks, void |-> f.void, opt |-> f.opt]
        /\ g2.blocks = put
    BY <1>1, <2>1
  <2>4. QED
    BY <2>2, <2>3 DEF g2
<1> HIDE DEF g2
<1>3. Len(f.blocks) \in Nat /\ Blocks(f) = 1 .. Len(f.blocks)
  BY BlocksInOrder DEF Blocks
<1>4. g2.blocks = [c \in 1 .. Len(f.blocks) |-> g2.blocks[c]]
  BY <1>2, <1>3
<1>5. Len(g2.blocks) = Len(f.blocks)
  BY <1>3, <1>4
<1>6. QED
  BY <1>2, <1>5 DEF g2

\* That leaves a function with empty phis, those of x among them.
LEMMA HeadedLayout ==
  ASSUME NEW f \in Functions, NEW g, Layout(f, g), NEW x \in Locals(f),
         NEW heads, heads \subseteq Blocks(f) \ {Entry}, \A c \in heads : ~HasPhi(f, g, x, c)
  PROVE  /\ Layout(f, Headed(g, x, heads))
         /\ \A y : \A c \in Blocks(f) : HasPhi(f, Headed(g, x, heads), y, c)
                                     <=> HasPhi(f, g, y, c) \/ (y = x /\ c \in heads)
<1> DEFINE g2 == Headed(g, x, heads)
<1>1. /\ g2 = [params |-> f.params, blocks |-> g2.blocks, void |-> f.void, opt |-> f.opt]
      /\ DOMAIN g2.blocks = Blocks(f) /\ Len(g2.blocks) = Len(f.blocks)
      /\ \A c \in Blocks(f) : g2.blocks[c] =
           IF c \in heads THEN <<NewPhi(x, c)>> \o g.blocks[c] ELSE g.blocks[c]
  BY HeadedIs
<1> HIDE DEF g2
<1>l. ASSUME NEW b \in Blocks(f)
      PROVE  /\ Len(g.blocks[b]) \in Nat /\ DOMAIN g.blocks[b] = 1 .. Len(g.blocks[b])
             /\ g.blocks[b] = [i \in 1 .. Len(g.blocks[b]) |-> g.blocks[b][i]]
             /\ Shift(f, g, b) \in Nat
             /\ \A i \in DOMAIN f.blocks[b] : g.blocks[b][Shift(f, g, b) + i] = f.blocks[b][i]
             /\ \A q \in 1 .. Shift(f, g, b) : \E y \in Locals(f) : g.blocks[b][q] = NewPhi(y, b)
             /\ \A q, r \in 1 .. Shift(f, g, b) : g.blocks[b][q].res = g.blocks[b][r].res => q = r
             /\ b = Entry => Shift(f, g, b) = 0
  BY DEF Layout
<1>2. ASSUME NEW b \in Blocks(f), b \notin heads
      PROVE  g2.blocks[b] = g.blocks[b] /\ Shift(f, g2, b) = Shift(f, g, b)
  BY <1>1, <1>2 DEF Shift
<1>3. ASSUME NEW b \in Blocks(f), b \in heads
      PROVE  /\ Len(g2.blocks[b]) = Len(g.blocks[b]) + 1
             /\ g2.blocks[b] = [i \in 1 .. Len(g.blocks[b]) + 1 |->
                                  IF i = 1 THEN NewPhi(x, b) ELSE g.blocks[b][i - 1]]
             /\ Shift(f, g2, b) = Shift(f, g, b) + 1
  <2>1. g2.blocks[b] = <<NewPhi(x, b)>> \o g.blocks[b]
    BY <1>1, <1>3
  <2> DEFINE s == g.blocks[b]
             n == Len(s)
             e == NewPhi(x, b)
             m == Len(f.blocks[b])
  <2>2. n \in Nat /\ s = [i \in 1 .. n |-> s[i]]
    BY <1>l
  <2>3. m \in Nat
    BY LayoutIs
  <2>4. Shift(f, g, b) = n - m /\ Shift(f, g2, b) = Len(g2.blocks[b]) - m
    BY DEF Shift
  <2> HIDE DEF s, n, e, m
  <2>5. Len(<<e>> \o s) = n + 1 /\ <<e>> \o s = [i \in 1 .. n + 1 |-> IF i = 1 THEN e ELSE s[i - 1]]
    BY <2>2, PrependIs
  <2>6. Len(g2.blocks[b]) = n + 1
    BY <2>1, <2>5 DEF s, e
  <2>7. Shift(f, g2, b) = Shift(f, g, b) + 1
    BY <2>2, <2>3, <2>4, <2>6
  <2>8. QED
    BY <2>1, <2>5, <2>6, <2>7 DEF s, e, n
<1>4. ASSUME NEW b \in Blocks(f)
      PROVE  /\ Len(g2.blocks[b]) \in Nat /\ DOMAIN g2.blocks[b] = 1 .. Len(g2.blocks[b])
             /\ g2.blocks[b] = [i \in 1 .. Len(g2.blocks[b]) |-> g2.blocks[b][i]]
             /\ Shift(f, g2, b) \in Nat
             /\ \A i \in DOMAIN f.blocks[b] : g2.blocks[b][Shift(f, g2, b) + i] = f.blocks[b][i]
             /\ \A q \in 1 .. Shift(f, g2, b) : \E y \in Locals(f) : g2.blocks[b][q] = NewPhi(y, b)
             /\ \A q, r \in 1 .. Shift(f, g2, b) : g2.blocks[b][q].res = g2.blocks[b][r].res => q = r
             /\ b = Entry => Shift(f, g2, b) = 0
             /\ \A y : HasPhi(f, g2, y, b) <=> HasPhi(f, g, y, b) \/ (y = x /\ b \in heads)
  <2>1. CASE b \notin heads
    <3>1. g2.blocks[b] = g.blocks[b] /\ Shift(f, g2, b) = Shift(f, g, b)
      BY <1>2, <2>1
    <3>2. \A y : HasPhi(f, g2, y, b) <=> HasPhi(f, g, y, b)
      BY <3>1 DEF HasPhi
    <3>3. QED
      BY <1>l, <2>1, <3>1, <3>2
  <2>2. CASE b \in heads
    <3> DEFINE s == Shift(f, g, b)
               n == Len(g.blocks[b])
               m == Len(f.blocks[b])
    <3>1. /\ Len(g2.blocks[b]) = n + 1
          /\ g2.blocks[b] = [i \in 1 .. n + 1 |-> IF i = 1 THEN NewPhi(x, b) ELSE g.blocks[b][i - 1]]
          /\ Shift(f, g2, b) = s + 1
      BY <1>3, <2>2
    <3>2. n \in Nat /\ s \in Nat /\ m \in Nat /\ n = s + m /\ DOMAIN f.blocks[b] = 1 .. m
      BY LayoutIs
    <3>3. b # Entry
      BY <2>2
    <3>l. /\ \A i \in DOMAIN f.blocks[b] : g.blocks[b][s + i] = f.blocks[b][i]
          /\ \A q \in 1 .. s : \E y \in Locals(f) : g.blocks[b][q] = NewPhi(y, b)
          /\ \A q, r \in 1 .. s : g.blocks[b][q].res = g.blocks[b][r].res => q = r
      BY <1>l
    <3>h. \A q \in 1 .. s : g.blocks[b][q] # NewPhi(x, b)
      BY <2>2 DEF HasPhi
    <3>y. \A y : (HasPhi(f, g2, y, b) <=> \E q \in 1 .. s + 1 : g2.blocks[b][q] = NewPhi(y, b))
                 /\ (HasPhi(f, g, y, b) <=> \E q \in 1 .. s : g.blocks[b][q] = NewPhi(y, b))
      BY <3>1 DEF HasPhi
    <3> HIDE DEF s, n, m
    <3>4. Len(g2.blocks[b]) \in Nat /\ DOMAIN g2.blocks[b] = 1 .. Len(g2.blocks[b])
          /\ g2.blocks[b] = [i \in 1 .. Len(g2.blocks[b]) |-> g2.blocks[b][i]]
      BY <3>1, <3>2
    <3>5. ASSUME NEW i \in DOMAIN f.blocks[b] PROVE g2.blocks[b][(s + 1) + i] = f.blocks[b][i]
      <4>1. (s + 1) + i \in 1 .. n + 1 /\ (s + 1) + i # 1 /\ ((s + 1) + i) - 1 = s + i
        BY <3>2
      <4>2. QED
        BY <3>1, <3>l, <4>1
    <3>6. ASSUME NEW q \in 1 .. s + 1
          PROVE  /\ q = 1 => g2.blocks[b][q] = NewPhi(x, b)
                 /\ q # 1 => q - 1 \in 1 .. s /\ g2.blocks[b][q] = g.blocks[b][q - 1]
      <4>1. q \in 1 .. n + 1 /\ (q # 1 => q - 1 \in 1 .. s)
        BY <3>2
      <4>2. QED
        BY <3>1, <4>1
    <3>7. ASSUME NEW q \in 1 .. s + 1 PROVE \E y \in Locals(f) : g2.blocks[b][q] = NewPhi(y, b)
      BY <3>6, <3>l
    <3>8. ASSUME NEW q \in 1 .. s + 1, NEW r \in 1 .. s + 1,
                 g2.blocks[b][q].res = g2.blocks[b][r].res
          PROVE  q = r
      <4>1. ASSUME NEW k \in 1 .. s PROVE g.blocks[b][k].res # NewPhi(x, b).res
        <5>1. PICK y \in Locals(f) : g.blocks[b][k] = NewPhi(y, b)
          BY <3>l
        <5>2. y # x
          BY <3>h, <5>1
        <5>3. PhiValue(y, b) # PhiValue(x, b)
          BY <5>2, PhiValueIs
        <5>4. QED
          BY <5>1, <5>3 DEF NewPhi
      <4>2. CASE q = 1 /\ r = 1
        BY <4>2
      <4>3. CASE q = 1 /\ r # 1
        BY <3>6, <3>8, <4>1, <4>3
      <4>4. CASE q # 1 /\ r = 1
        BY <3>6, <3>8, <4>1, <4>4
      <4>5. CASE q # 1 /\ r # 1
        <5>1. q - 1 \in 1 .. s /\ r - 1 \in 1 .. s
              /\ g.blocks[b][q - 1].res = g.blocks[b][r - 1].res
          BY <3>6, <3>8, <4>5
        <5>2. q - 1 = r - 1
          BY <3>l, <5>1
        <5>3. q \in Int /\ r \in Int
          OBVIOUS
        <5>4. QED
          BY <5>2, <5>3
      <4>6. QED
        BY <4>2, <4>3, <4>4, <4>5
    <3>9. ASSUME NEW y
          PROVE  (\E q \in 1 .. s + 1 : g2.blocks[b][q] = NewPhi(y, b))
                   <=> (\E q \in 1 .. s : g.blocks[b][q] = NewPhi(y, b)) \/ y = x
      <4>1. ASSUME NEW q \in 1 .. s + 1, g2.blocks[b][q] = NewPhi(y, b)
            PROVE  (\E r \in 1 .. s : g.blocks[b][r] = NewPhi(y, b)) \/ y = x
        <5>1. CASE q = 1
          <6>1. NewPhi(x, b) = NewPhi(y, b)
            BY <3>6, <4>1, <5>1
          <6>2. PhiValue(x, b) = PhiValue(y, b)
            BY <6>1 DEF NewPhi
          <6>3. QED
            BY <6>2, PhiValueIs
        <5>2. CASE q # 1
          BY <3>6, <4>1, <5>2
        <5>3. QED
          BY <5>1, <5>2
      <4>2. ASSUME NEW r \in 1 .. s, g.blocks[b][r] = NewPhi(y, b)
            PROVE  \E q \in 1 .. s + 1 : g2.blocks[b][q] = NewPhi(y, b)
        <5>1. r + 1 \in 1 .. s + 1 /\ r + 1 # 1 /\ (r + 1) - 1 = r
          BY <3>2
        <5>2. g2.blocks[b][r + 1] = g.blocks[b][r]
          BY <3>6, <5>1
        <5>3. QED
          BY <4>2, <5>1, <5>2
      <4>3. ASSUME y = x PROVE \E q \in 1 .. s + 1 : g2.blocks[b][q] = NewPhi(y, b)
        <5>1. 1 \in 1 .. s + 1
          BY <3>2
        <5>2. QED
          BY <3>6, <4>3, <5>1
      <4>4. QED
        BY <4>1, <4>2, <4>3
    <3>10. s + 1 \in Nat
      BY <3>2
    <3>11. \A y : HasPhi(f, g2, y, b) <=> HasPhi(f, g, y, b) \/ (y = x /\ b \in heads)
      BY <2>2, <3>9, <3>y
    <3>12. QED
      BY <3>1, <3>3, <3>4, <3>5, <3>7, <3>8, <3>10, <3>11
  <2>3. QED
    BY <2>1, <2>2
<1>5. Layout(f, g2)
  BY <1>1, <1>4 DEF Layout
<1>6. \A y : \A c \in Blocks(f) : HasPhi(f, g2, y, c) <=> HasPhi(f, g, y, c) \/ (y = x /\ c \in heads)
  BY <1>4
<1>7. QED
  BY <1>5, <1>6 DEF g2

\* The stages that put phis in their places.
Placing == stage \in {"choosing", "inserting"}
\* The blocks whose frontiers are still to be given phis.
Waiting == IF stage = "choosing" THEN {} ELSE worklist

\* While phis are being put in their places.
Inserting ==
  Placing =>
    /\ Layout(original, fn)
    /\ variable \in 0 .. Len(promotable)
    /\ stage = "inserting" => variable \in DOMAIN promotable
    /\ worklist \subseteq Blocks(original)
    /\ PhisPlaced(original, fn, frontier, promotable, variable, Waiting)
    /\ stacks = << >> /\ walk = << >>

\* The blocks that store to a variable are where its phis come from.
LEMMA StoresAreWaiting ==
  ASSUME NEW f \in Functions, NEW g, Layout(f, g), NEW x \in Locals(f)
  PROVE  LET W == {s[1] : s \in {u[1] : u \in Uses(g, x)} \cap {s \in Sites(g) : At(g, s).op = "set"}}
         IN  W \subseteq Blocks(f) /\ \A b \in Blocks(f) : Stores(f, x, b) => b \in W
<1> DEFINE sets == {s \in Sites(g) : At(g, s).op = "set"}
           W == {s[1] : s \in {u[1] : u \in Uses(g, x)} \cap sets}
<1>b. Blocks(g) = Blocks(f)
  BY DEF Layout, Blocks
<1>1. ASSUME NEW b \in W PROVE b \in Blocks(f)
  <2>1. PICK s \in sets : b = s[1]
    OBVIOUS
  <2>2. QED
    BY <1>b, <2>1, SitesAre
<1>2. ASSUME NEW b \in Blocks(f), Stores(f, x, b) PROVE b \in W
  <2>1. PICK i \in DOMAIN f.blocks[b] : f.blocks[b][i].op = "set" /\ f.blocks[b][i].args[1] = x
    BY <1>2 DEF Stores
  <2>2. PICK p \in DOMAIN g.blocks[b] : g.blocks[b][p] = f.blocks[b][i]
    BY LayoutIs
  <2>3. <<b, p>> \in Sites(g) /\ At(g, <<b, p>>) = f.blocks[b][i]
    BY <1>b, <2>2, SitesAre
  <2>4. <<b, p>> \in sets
    BY <2>1, <2>3
  <2>5. 1 \in DOMAIN f.blocks[b][i].args
    <3>1. Shapely(f, f, b, i)
      BY FunctionFacts
    <3>2. QED
      BY <2>1, <3>1 DEF Shapely
  <2>6. <<<<b, p>>, 1>> \in Uses(g, x)
    <3> DEFINE u == <<<<b, p>>, 1>>
    <3>1. u[1] = <<b, p>> /\ u[2] = 1
      OBVIOUS
    <3>2. u \in {<<b, p>>} \X DOMAIN At(g, <<b, p>>).args
      BY <2>3, <2>5
    <3>3. At(g, u[1]).args[u[2]] = x
      BY <2>1, <2>3, <3>1
    <3> HIDE DEF u
    <3>4. QED
      BY <2>3, <3>2, <3>3 DEF Uses, u
  <2>7. <<b, p>> \in {u[1] : u \in Uses(g, x)}
    <3>1. <<b, p>> = (<<<<b, p>>, 1>>)[1]
      OBVIOUS
    <3>2. QED
      BY <2>6, <3>1
  <2>8. b = (<<b, p>>)[1]
    OBVIOUS
  <2>9. QED
    BY <2>4, <2>7, <2>8
<1>3. QED
  BY <1>1, <1>2

\* One round: the frontier of a block of the worklist.
LEMMA RoundPlaces ==
  ASSUME NEW f \in Functions, NEW g, Layout(f, g), NEW fr, FrontiersListed(f, fr),
         NEW names, PromotableListed(f, names), NEW k \in DOMAIN names,
         NEW W, W \subseteq Blocks(f), PhisPlaced(f, g, fr, names, k, W), NEW b \in W
  PROVE  LET heads == {c \in fr[b] : PhiValue(names[k], c) \notin Results(g)}
             g2 == Headed(g, names[k], heads)
         IN  /\ Layout(f, g2) /\ (W \ {b}) \cup heads \subseteq Blocks(f)
             /\ PhisPlaced(f, g2, fr, names, k, (W \ {b}) \cup heads)
<1> DEFINE x == names[k]
           heads == {c \in fr[b] : PhiValue(names[k], c) \notin Results(g)}
           g2 == Headed(g, x, heads)
           W2 == (W \ {b}) \cup heads
<1>1. x \in Locals(f) /\ b \in Blocks(f)
  BY SequenceIs DEF PromotableListed
<1>2. fr[b] \subseteq Blocks(f) \ {Entry} /\ \A c \in Blocks(f) : fr[c] \subseteq Blocks(f)
  BY <1>1 DEF FrontiersListed
<1>3. \A c \in fr[b] : c \in heads <=> ~HasPhi(f, g, x, c)
  BY <1>1, <1>2, ResultsHavePhi
<1>4. heads \subseteq Blocks(f) \ {Entry} /\ heads \subseteq fr[b]
  BY <1>2
<1>n. \A i, j \in DOMAIN names : names[i] = names[j] => i = j
  BY DEF PromotableListed
<1>w. /\ \A i \in DOMAIN names : /\ i < k => ClosedBut(f, g, fr, names[i], {})
                                 /\ i = k => ClosedBut(f, g, fr, names[i], W)
                                 /\ i > k => \A c \in Blocks(f) : ~HasPhi(f, g, names[i], c)
  BY DEF PhisPlaced
<1>k. /\ k \in Nat /\ \A i \in DOMAIN names : i \in Nat
  BY SequenceIs DEF PromotableListed
<1> HIDE DEF heads, x
<1>5. /\ Layout(f, g2)
      /\ \A y : \A c \in Blocks(f) : HasPhi(f, g2, y, c) <=> HasPhi(f, g, y, c) \/ (y = x /\ c \in heads)
  BY <1>1, <1>3, <1>4, HeadedLayout
<1> HIDE DEF g2
<1>6. ClosedBut(f, g2, fr, x, W2)
  <2>1. ClosedBut(f, g, fr, x, W)
    BY <1>k, <1>w DEF x
  <2>2. ASSUME NEW c \in Blocks(f), Stores(f, x, c) \/ HasPhi(f, g2, x, c), c \notin W2
        PROVE  \A e \in fr[c] : HasPhi(f, g2, x, e)
    <3>1. c \notin heads /\ (c \notin W \/ c = b)
      BY <2>2
    <3>2. Stores(f, x, c) \/ HasPhi(f, g, x, c)
      BY <1>5, <2>2, <3>1
    <3>3. CASE c = b
      BY <1>2, <1>3, <1>5, <3>3
    <3>4. CASE c \notin W
      <4>1. \A e \in fr[c] : HasPhi(f, g, x, e)
        BY <2>1, <3>2, <3>4 DEF ClosedBut
      <4>2. QED
        BY <1>2, <1>5, <4>1
    <3>5. QED
      BY <3>1, <3>3, <3>4
  <2>3. QED
    BY <2>2 DEF ClosedBut
<1>7. ASSUME NEW i \in DOMAIN names, i # k
      PROVE  /\ names[i] # x
             /\ \A c \in Blocks(f) : HasPhi(f, g2, names[i], c) <=> HasPhi(f, g, names[i], c)
  BY <1>5, <1>7, <1>n DEF x
<1>8. ASSUME NEW i \in DOMAIN names, i < k PROVE ClosedBut(f, g2, fr, names[i], {})
  <2>1. i # k
    BY <1>8, <1>k
  <2>2. ClosedBut(f, g, fr, names[i], {})
    BY <1>8, <1>w
  <2>3. QED
    BY <1>2, <1>7, <2>1, <2>2 DEF ClosedBut
<1>9. ASSUME NEW i \in DOMAIN names, i > k PROVE \A c \in Blocks(f) : ~HasPhi(f, g2, names[i], c)
  <2>1. i # k
    BY <1>9, <1>k
  <2>2. QED
    BY <1>7, <1>9, <1>w, <2>1
<1>10. PhisPlaced(f, g2, fr, names, k, W2)
  BY <1>6, <1>8, <1>9 DEF PhisPlaced, x
<1>11. W2 \subseteq Blocks(f)
  BY <1>4
<1>12. QED
  BY <1>5, <1>10, <1>11 DEF heads, x, g2

\* Every step keeps what is to be shown of placing phis.
LEMMA NextInserting ==
  ASSUME DomInv, Known, Inserting, [Next]_vars
  PROVE  Inserting'
<1>1. CASE CollectPromotable
  <2>1. /\ stage = "frontiers" /\ stage' = "choosing"
        /\ UNCHANGED <<fn, original, variable, worklist, stacks, walk, frontier>>
    BY <1>1 DEF CollectPromotable, FrontiersFound
  <2>2. fn = original /\ variable = 0 /\ worklist = {} /\ stacks = << >> /\ walk = << >>
        /\ original \in Functions
    BY <2>1 DEF Known, NotBegun, Early
  <2>3. PromotableListed(original, promotable')
    BY <1>1, <2>2, AllAreCollected
  <2>4. /\ Len(promotable') \in Nat /\ \A i \in DOMAIN promotable' : i \in Nat /\ i > 0
    BY <2>3, SequenceIs DEF PromotableListed
  <2>5. Layout(original, fn) /\ \A x : \A c \in Blocks(original) : ~HasPhi(original, fn, x, c)
    BY <2>2, LayoutSelf
  <2>6. PhisPlaced(original, fn, frontier', promotable', 0, {})
    BY <2>4, <2>5 DEF PhisPlaced
  <2>7. Waiting' = {}
    BY <2>1 DEF Waiting
  <2>8. QED
    BY <2>1, <2>2, <2>4, <2>5, <2>6, <2>7 DEF Inserting
<1>2. CASE ChooseVariable
  <2>1. /\ stage = "choosing" /\ stage' = "inserting" /\ variable < Len(promotable)
        /\ variable' = variable + 1
        /\ UNCHANGED <<fn, original, promotable, stacks, walk, frontier>>
    BY <1>2 DEF ChooseVariable
  <2>2. /\ Layout(original, fn) /\ variable \in 0 .. Len(promotable)
        /\ PhisPlaced(original, fn, frontier, promotable, variable, {})
        /\ stacks = << >> /\ walk = << >>
    BY <2>1 DEF Inserting, Placing, Waiting
  <2>3. original \in Functions /\ PromotableListed(original, promotable)
    BY <2>1 DEF Known, Early, Analysed
  <2>4. Len(promotable) \in Nat /\ DOMAIN promotable = 1 .. Len(promotable)
        /\ \A i \in DOMAIN promotable : promotable[i] \in Locals(original)
    BY <2>3, SequenceIs DEF PromotableListed
  <2> DEFINE k == variable + 1
             x == promotable[k]
  <2>5. k \in DOMAIN promotable /\ x \in Locals(original) /\ k \in 0 .. Len(promotable)
    BY <2>1, <2>2, <2>4
  <2>6. worklist' = {s[1] : s \in {u[1] : u \in Uses(fn, x)} \cap {s \in Sites(fn) : At(fn, s).op = "set"}}
    BY <1>2 DEF ChooseVariable
  <2> HIDE DEF x
  <2>7. worklist' \subseteq Blocks(original)
        /\ \A b \in Blocks(original) : Stores(original, x, b) => b \in worklist'
    BY <2>2, <2>3, <2>5, <2>6, StoresAreWaiting
  <2>8. variable \in Int /\ k > variable /\ \A i \in DOMAIN promotable : i \in Int
    BY <2>2, <2>4
  <2>w. \A i \in DOMAIN promotable :
          /\ i < variable => ClosedBut(original, fn, frontier, promotable[i], {})
          /\ i = variable => ClosedBut(original, fn, frontier, promotable[i], {})
          /\ i > variable => \A c \in Blocks(original) : ~HasPhi(original, fn, promotable[i], c)
    BY <2>2 DEF PhisPlaced
  <2>9. ClosedBut(original, fn, frontier, x, worklist')
    BY <2>5, <2>7, <2>8, <2>w DEF ClosedBut, x
  <2>10. \A i \in DOMAIN promotable :
           /\ i < k => ClosedBut(original, fn, frontier, promotable[i], {})
           /\ i > k => \A c \in Blocks(original) : ~HasPhi(original, fn, promotable[i], c)
    <3>1. \A i \in DOMAIN promotable : (i < k => i < variable \/ i = variable) /\ (i > k => i > variable)
      BY <2>8
    <3>2. QED
      BY <2>w, <3>1
  <2>11. PhisPlaced(original, fn, frontier, promotable, k, worklist')
    BY <2>9, <2>10 DEF PhisPlaced, x
  <2>12. Waiting' = worklist'
    BY <2>1 DEF Waiting
  <2>13. QED
    BY <2>1, <2>2, <2>5, <2>7, <2>11, <2>12 DEF Inserting
<1>3. CASE VariableDone
  <2>1. stage = "inserting" /\ stage' = "choosing" /\ worklist = {}
        /\ UNCHANGED <<fn, original, promotable, variable, worklist, stacks, walk, frontier>>
    BY <1>3 DEF VariableDone
  <2>2. Waiting = {} /\ Waiting' = {}
    BY <2>1 DEF Waiting
  <2>3. QED
    BY <2>1, <2>2 DEF Inserting, Placing
<1>4. ASSUME NEW b \in Blocks(fn), InsertPhis(b) PROVE Inserting'
  <2> DEFINE x == promotable[variable]
             heads == {c \in frontier[b] : PhiValue(x, c) \notin Results(fn)}
  <2>1. /\ stage = "inserting" /\ stage' = "inserting" /\ b \in worklist
        /\ worklist' = (worklist \ {b}) \cup heads
        /\ UNCHANGED <<original, promotable, variable, stacks, walk, frontier>>
    BY <1>4 DEF InsertPhis
  <2>2. fn' = Headed(fn, x, heads)
    BY <1>4 DEF InsertPhis, Headed, NewPhi
  <2>3. original \in Functions /\ PromotableListed(original, promotable)
        /\ FrontiersListed(original, frontier)
    BY <2>1 DEF Known, Early, Analysed
  <2>4. /\ Layout(original, fn) /\ variable \in DOMAIN promotable /\ worklist \subseteq Blocks(original)
        /\ PhisPlaced(original, fn, frontier, promotable, variable, worklist)
        /\ variable \in 0 .. Len(promotable) /\ stacks = << >> /\ walk = << >>
    BY <2>1 DEF Inserting, Placing, Waiting
  <2>5. /\ Layout(original, fn') /\ worklist' \subseteq Blocks(original)
        /\ PhisPlaced(original, fn', frontier, promotable, variable, worklist')
    BY <2>1, <2>2, <2>3, <2>4, RoundPlaces
  <2>6. Waiting' = worklist'
    BY <2>1 DEF Waiting
  <2> HIDE DEF x, heads
  <2>7. QED
    BY <2>1, <2>4, <2>5, <2>6 DEF Inserting
<1>5. CASE UNCHANGED vars
  <2>1. UNCHANGED <<original, fn, frontier, promotable, stage, variable, worklist, stacks, walk>>
    BY <1>5 DEF vars, domVars, passVars, runVars
  <2>2. QED
    BY <2>1 DEF Inserting, Placing, Waiting
<1>6. CASE DomNext
  BY <1>6 DEF DomNext, FollowEdge, LeaveBlock, OrderingDone, FindIdom, SweepAgain,
              DominatorsDone, Climb, NextEdge, Inserting, Placing
<1>7. CASE StartRenaming \/ DefineVariable \/ RewriteLoad \/ KeepInst \/ FillPhis \/ RenameChild
           \/ PopVariables \/ Cleanup
  BY <1>7 DEF StartRenaming, DefineVariable, RewriteLoad, KeepInst, FillPhis, RenameChild,
              PopVariables, Cleanup, RenamingInst, Renaming, RenamingChildren, domVars,
              Inserting, Placing
<1>8. CASE (\E given \in [Params(fn) -> Literals] : Start(given)) \/ Access
           \/ (\E result \in Literals : Compute(result)) \/ (\E c \in Blocks(fn) : Goto(c)) \/ Return
  BY <1>8 DEF Start, Access, Compute, Goto, Return, Running, domVars, Inserting, Placing
<1>9. QED
  BY <1>1, <1>2, <1>3, <1>4, <1>5, <1>6, <1>7, <1>8 DEF Next, Pass, Over
=============================================================================
