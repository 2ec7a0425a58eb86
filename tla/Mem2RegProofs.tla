---------------------------- MODULE Mem2RegProofs ----------------------------
(***************************************************************************)
(* What mem2reg makes of a function is in SSA form and computes what the   *)
(* function computed, for every function of any size.                      *)
(*                                                                         *)
(* When the renaming is over it has been everywhere, and what Cleanup      *)
(* leaves follows from its solution alone (Finished).  That is in SSA      *)
(* form, and the two runs agree (Agree): a variable holds what the         *)
(* solution has for it, a value is that of what it has become.  Where      *)
(* control joins, either a phi was placed or the variable has on every     *)
(* edge what it has at the end of the join's parent: no block between the  *)
(* two defines it, for its frontier would have put a phi there.            *)
(*                                                                         *)
(* PassInv is the whole of the inductive invariant.                        *)
(***************************************************************************)
EXTENDS RenamingProofs

-----------------------------------------------------------------------------
(* The cleanup. *)

\* The places of a block whose instructions stay.
KeptPlaces(g, b) == {p \in DOMAIN g.blocks[b] : g.blocks[b][p].op \notin {"load", "set", "alloca"}}

\* m is what the instruction inst of g has become in the end.
Settled(f, g, sig, cur, b, inst, m) ==
  /\ m = [op |-> inst.op, res |-> inst.res, args |-> m.args, to |-> m.to]
  /\ IF inst.op = "phi"
     THEN /\ m.to = Preds(f, b) /\ DOMAIN m.args = DOMAIN m.to
          /\ \A j \in DOMAIN m.to :
               IF IsNew(f, inst) THEN m.args[j] = cur[m.to[j]][End(g, m.to[j])][inst.res[2]]
               ELSE \E k \in DOMAIN inst.to : inst.to[k] = m.to[j] /\ m.args[j] = sig[inst.args[k]]
     ELSE m.to = inst.to /\ m.args = [k \in DOMAIN inst.args |-> sig[inst.args[k]]]

\* t is what the block b has become in the end.
BlockDone(f, g, sig, cur, b, t) ==
  LET P == KeptPlaces(g, b)
  IN  /\ Len(t) = Cardinality(P) /\ Cardinality(P) \in Nat
      /\ t = [k \in 1 .. Cardinality(P) |-> t[k]]
      /\ \A p \in P : Rank(P, p) \in 1 .. Cardinality(P)
                      /\ Settled(f, g, sig, cur, b, g.blocks[b][p], t[Rank(P, p)])
      /\ \A k \in 1 .. Cardinality(P) : \E p \in P : Rank(P, p) = k

\* F is what is left when loads, stores and allocas have been erased.
Finished(f, g, sig, cur, F) ==
  /\ F = [params |-> f.params, blocks |-> F.blocks, void |-> f.void, opt |-> f.opt]
  /\ DOMAIN F.blocks = Blocks(f) /\ Len(F.blocks) = Len(f.blocks)
  /\ \A b \in Blocks(f) : BlockDone(f, g, sig, cur, b, F.blocks[b])

\* What the cleanup makes of an instruction that stays.
CleanInst(F, b, inst) == IF inst.op = "phi" THEN Reordered(inst, Preds(F, b)) ELSE inst
\* A block without what is erased.
CleanBlock(F, b) ==
  LET kept == Picked(F.blocks[b], {i \in DOMAIN F.blocks[b] :
                                     F.blocks[b][i].op \notin {"load", "set", "alloca"}})
  IN  [i \in DOMAIN kept |-> CleanInst(F, b, kept[i])]
\* A function of such blocks.
Clean(F) == [F EXCEPT !.blocks = [b \in Blocks(F) |-> CleanBlock(F, b)]]

\* The largest of one number.
LEMMA MaxOfOne == ASSUME NEW i \in Int PROVE Max({i}) = i
<1>1. \A y \in {i} : i >= y
  OBVIOUS
<1>2. QED
  BY <1>1 DEF Max

\* A phi with its entries in the order of the predecessors.
LEMMA ReorderedIs ==
  ASSUME NEW n, n = [op |-> n.op, res |-> n.res, args |-> n.args, to |-> n.to],
         DOMAIN n.to \subseteq Nat, \A j, k \in DOMAIN n.to : n.to[j] = n.to[k] => j = k,
         NEW preds, \A j \in DOMAIN preds : \E k \in DOMAIN n.to : n.to[k] = preds[j]
  PROVE  LET m == Reordered(n, preds)
         IN  /\ m = [op |-> n.op, res |-> n.res, args |-> m.args, to |-> m.to]
             /\ m.to = preds /\ DOMAIN m.args = DOMAIN preds
             /\ \A j \in DOMAIN preds : \A k \in DOMAIN n.to : n.to[k] = preds[j] => m.args[j] = n.args[k]
<1> DEFINE entries(j) == {i \in DOMAIN n.to : n.to[i] = preds[j]}
           A == [j \in DOMAIN preds |-> IF entries(j) = {} THEN NoValue ELSE n.args[Max(entries(j))]]
           m == Reordered(n, preds)
<1>1. m = [n EXCEPT !.to = preds, !.args = A]
  BY DEF Reordered
<1>2. ASSUME NEW j \in DOMAIN preds, NEW k \in DOMAIN n.to, n.to[k] = preds[j]
      PROVE  A[j] = n.args[k]
  <2>1. entries(j) = {k}
    BY <1>2
  <2>2. k \in Int
    OBVIOUS
  <2>3. A[j] = IF entries(j) = {} THEN NoValue ELSE n.args[Max(entries(j))]
    OBVIOUS
  <2> HIDE DEF A, entries
  <2>4. Max(entries(j)) = k
    BY <2>1, <2>2, MaxOfOne
  <2>5. QED
    BY <2>1, <2>3, <2>4
<1>3. DOMAIN A = DOMAIN preds
  OBVIOUS
<1> HIDE DEF A, m
<1>4. [n EXCEPT !.to = preds, !.args = A] = [op |-> n.op, res |-> n.res, args |-> A, to |-> preds]
  <2>1. [n EXCEPT !.to = preds] = [op |-> n.op, res |-> n.res, args |-> n.args, to |-> preds]
    OBVIOUS
  <2> DEFINE t == [n EXCEPT !.to = preds]
  <2>2. [n EXCEPT !.to = preds, !.args = A] = [t EXCEPT !.args = A]
    OBVIOUS
  <2>3. t = [op |-> n.op, res |-> n.res, args |-> n.args, to |-> preds]
    BY <2>1
  <2> HIDE DEF t
  <2>4. [t EXCEPT !.args = A] = [op |-> n.op, res |-> n.res, args |-> A, to |-> preds]
    BY <2>3
  <2>5. QED
    BY <2>2, <2>4
<1>5. m = [op |-> n.op, res |-> n.res, args |-> A, to |-> preds]
  BY <1>1, <1>4
<1>6. m.args = A /\ m.to = preds
  BY <1>5
<1>7. QED
  BY <1>2, <1>3, <1>5, <1>6 DEF m

\* An instruction that has been seen to needs its phi entries put in order, no more.
LEMMA InstFinishes ==
  ASSUME NEW f \in Functions, NEW g, Layout(f, g), NEW sig, NEW prog, NEW cur,
         \A c \in Blocks(f) : prog[c] = End(g, c),
         NEW b \in Blocks(f), NEW p \in DOMAIN g.blocks[b], NEW n,
         Become(f, g, sig, prog, cur, b, p, n)
  PROVE  /\ n.op = g.blocks[b][p].op /\ n.res = g.blocks[b][p].res
         /\ Settled(f, g, sig, cur, b, g.blocks[b][p],
                    IF n.op = "phi" THEN Reordered(n, Preds(f, b)) ELSE n)
<1> DEFINE inst == g.blocks[b][p]
           preds == Preds(f, b)
           m == Reordered(n, preds)
<1>1. n = [op |-> inst.op, res |-> inst.res, args |-> n.args, to |-> n.to]
  BY DEF Become
<1>2. n.op = inst.op /\ n.res = inst.res
  BY <1>1
<1>3. Base(f, g)
  BY LayoutIsBase
<1>4. n = [op |-> n.op, res |-> n.res, args |-> n.args, to |-> n.to]
  <2> HIDE DEF inst
  <2>1. QED
    BY <1>1, <1>2
<1>5. Record(inst)
  BY <1>3 DEF Base
<1>6. /\ Len(preds) \in Nat /\ DOMAIN preds = 1 .. Len(preds)
      /\ \A j \in DOMAIN preds : preds[j] \in Blocks(f) /\ b \in Succs(f, preds[j])
  <2>1. preds \in Seq(Blocks(f)) /\ ToSet(preds) = {c \in Blocks(f) : b \in Succs(f, c)}
    BY PredsAre
  <2> HIDE DEF preds
  <2>2. Len(preds) \in Nat /\ DOMAIN preds = 1 .. Len(preds)
    BY <2>1, SequenceIs
  <2>3. ToSet(preds) = {preds[j] : j \in DOMAIN preds}
    BY DEF ToSet
  <2>4. QED
    BY <2>1, <2>2, <2>3
<1> HIDE DEF preds, m
<1>m. m = Reordered(n, preds)
  BY DEF m
<1>7. CASE inst.op # "phi"
  <2>1. ~IsNew(f, inst)
    BY <1>7 DEF IsNew
  <2>2. n.to = inst.to /\ n.args = [k \in DOMAIN inst.args |-> sig[inst.args[k]]]
    BY <2>1 DEF Become
  <2>3. Settled(f, g, sig, cur, b, inst, n)
    BY <1>1, <1>7, <2>2 DEF Settled
  <2>4. QED
    BY <1>2, <1>7, <2>3
<1>8. CASE inst.op = "phi" /\ IsNew(f, inst)
  <2> DEFINE x == inst.res[2]
  <2>1. Filled(f, g, prog, cur, n, x, b)
    BY <1>8 DEF Become
  <2> HIDE DEF x, inst
  <2>2. /\ Len(n.to) \in Nat /\ n.to = [k \in 1 .. Len(n.to) |-> n.to[k]]
        /\ n.args = [k \in 1 .. Len(n.to) |-> n.args[k]]
        /\ \A j, k \in 1 .. Len(n.to) : n.to[j] = n.to[k] => j = k
        /\ \A k \in 1 .. Len(n.to) : n.args[k] = cur[n.to[k]][End(g, n.to[k])][x]
        /\ \A c : (\E k \in 1 .. Len(n.to) : n.to[k] = c)
              <=> c \in Blocks(f) /\ b \in Succs(f, c) /\ prog[c] = End(g, c)
    BY <2>1, Zenon DEF Filled
  <2>3. DOMAIN n.to = 1 .. Len(n.to)
    BY <2>2
  <2>4. DOMAIN n.to \subseteq Nat
    BY <2>2, <2>3
  <2>5. \A j, k \in DOMAIN n.to : n.to[j] = n.to[k] => j = k
    BY <2>2, <2>3
  <2>6. \A j \in DOMAIN preds : \E k \in DOMAIN n.to : n.to[k] = preds[j]
    BY <1>6, <2>2, <2>3
  <2>7. /\ m = [op |-> n.op, res |-> n.res, args |-> m.args, to |-> m.to]
        /\ m.to = preds /\ DOMAIN m.args = DOMAIN preds
        /\ \A j \in DOMAIN preds : \A k \in DOMAIN n.to : n.to[k] = preds[j] => m.args[j] = n.args[k]
    BY <1>4, <1>m, <2>4, <2>5, <2>6, ReorderedIs
  <2>8. ASSUME NEW j \in DOMAIN m.to PROVE m.args[j] = cur[m.to[j]][End(g, m.to[j])][x]
    <3>1. PICK k \in DOMAIN n.to : n.to[k] = preds[j]
      BY <2>6, <2>7
    <3>2. m.args[j] = n.args[k]
      BY <2>7, <3>1
    <3>3. n.args[k] = cur[n.to[k]][End(g, n.to[k])][x]
      BY <2>2, <2>3
    <3>4. n.to[k] = m.to[j]
      BY <2>7, <3>1
    <3>5. QED
      BY <3>2, <3>3, <3>4
  <2>9. m = [op |-> inst.op, res |-> inst.res, args |-> m.args, to |-> m.to]
    BY <1>2, <2>7 DEF inst
  <2>10. Settled(f, g, sig, cur, b, inst, m)
    BY <1>8, <2>7, <2>8, <2>9 DEF Settled, x, preds
  <2>11. QED
    BY <1>2, <1>8, <2>10 DEF inst, m, preds
<1>9. CASE inst.op = "phi" /\ ~IsNew(f, inst)
  <2>1. Shapely(f, g, b, p)
    BY <1>3, <1>9 DEF Base
  <2>2. /\ DOMAIN inst.args = DOMAIN inst.to
        /\ \A j, k \in DOMAIN inst.to : inst.to[j] = inst.to[k] => j = k
        /\ ToSet(inst.to) = {c \in Blocks(f) : b \in Succs(f, c)}
    BY <1>9, <2>1, Zenon DEF Shapely
  <2>3. n.to = inst.to /\ n.args = [k \in DOMAIN inst.args |-> sig[inst.args[k]]]
    BY <1>9 DEF Become
  <2> HIDE DEF inst
  <2>4. DOMAIN n.to \subseteq Nat
    BY <1>5, <2>3 DEF Record
  <2>5. \A j, k \in DOMAIN n.to : n.to[j] = n.to[k] => j = k
    BY <2>2, <2>3
  <2>6. \A j \in DOMAIN preds : \E k \in DOMAIN n.to : n.to[k] = preds[j]
    <3>1. ToSet(inst.to) = {inst.to[k] : k \in DOMAIN inst.to}
      BY DEF ToSet
    <3>2. QED
      BY <1>6, <2>2, <2>3, <3>1
  <2>7. /\ m = [op |-> n.op, res |-> n.res, args |-> m.args, to |-> m.to]
        /\ m.to = preds /\ DOMAIN m.args = DOMAIN preds
        /\ \A j \in DOMAIN preds : \A k \in DOMAIN n.to : n.to[k] = preds[j] => m.args[j] = n.args[k]
    BY <1>4, <1>m, <2>4, <2>5, <2>6, ReorderedIs
  <2>8. ASSUME NEW j \in DOMAIN m.to
        PROVE  \E k \in DOMAIN inst.to : inst.to[k] = m.to[j] /\ m.args[j] = sig[inst.args[k]]
    <3>1. PICK k \in DOMAIN n.to : n.to[k] = preds[j]
      BY <2>6, <2>7
    <3>2. m.args[j] = n.args[k] /\ k \in DOMAIN inst.to
      BY <2>3, <2>7, <3>1
    <3>3. n.args[k] = sig[inst.args[k]]
      BY <2>2, <2>3, <3>2
    <3>4. inst.to[k] = m.to[j]
      BY <2>3, <2>7, <3>1
    <3>5. QED
      BY <3>2, <3>3, <3>4
  <2>9. m = [op |-> inst.op, res |-> inst.res, args |-> m.args, to |-> m.to]
    BY <1>2, <2>7 DEF inst
  <2>10. Settled(f, g, sig, cur, b, inst, m)
    BY <1>9, <2>7, <2>8, <2>9 DEF Settled, preds
  <2>11. QED
    BY <1>2, <1>9, <2>10 DEF inst, m, preds
<1>10. QED
  BY <1>7, <1>8, <1>9

\* A block after the cleanup.
LEMMA BlockFinishes ==
  ASSUME NEW f \in Functions, NEW g, Layout(f, g), NEW sig, NEW prog, NEW cur,
         \A c \in Blocks(f) : prog[c] = End(g, c),
         NEW F, Rewritten(f, g, sig, prog, cur, F), NEW b \in Blocks(f)
  PROVE  BlockDone(f, g, sig, cur, b, CleanBlock(F, b))
<1> DEFINE P == KeptPlaces(g, b)
           s == F.blocks[b]
           kept == Picked(s, {i \in DOMAIN s : s[i].op \notin {"load", "set", "alloca"}})
           t == CleanBlock(F, b)
           C == Cardinality(P)
           n == Len(g.blocks[b])
<1>1. n \in Nat /\ DOMAIN g.blocks[b] = 1 .. n
  BY LayoutIs
<1>2. s = [p \in 1 .. n |-> s[p]] /\ \A p \in DOMAIN g.blocks[b] : Become(f, g, sig, prog, cur, b, p, s[p])
  BY DEF Rewritten
<1>3. Preds(F, b) = Preds(f, b)
  BY RewrittenShape
<1>4. ASSUME NEW p \in DOMAIN g.blocks[b] PROVE s[p].op = g.blocks[b][p].op
  <2>1. PICK m : m = s[p]
    OBVIOUS
  <2>2. Become(f, g, sig, prog, cur, b, p, m)
    BY <1>2, <2>1
  <2>3. m.op = g.blocks[b][p].op
    BY <2>2, InstFinishes
  <2>4. QED
    BY <2>1, <2>3
<1> HIDE DEF s, n
<1>5. DOMAIN s = 1 .. n
  BY <1>2
<1>6. {i \in DOMAIN s : s[i].op \notin {"load", "set", "alloca"}} = P
  BY <1>1, <1>4, <1>5 DEF KeptPlaces
<1>7. P \in SUBSET (1 .. n)
  BY <1>1 DEF KeptPlaces
<1>8. s \in Seq({s[p] : p \in 1 .. n})
  <2> DEFINE S == {s[p] : p \in 1 .. n}
  <2>1. \A p \in 1 .. n : s[p] \in S
    OBVIOUS
  <2> HIDE DEF S
  <2>2. s \in Seq(S)
    BY <1>1, <1>2, <2>1
  <2>3. QED
    BY <2>2 DEF S
<1>9. PickedFrom(Picked(s, P), s, P)
  BY <1>5, <1>7, <1>8, PickedIs
<1>10. C \in Nat
  BY <1>1, <1>7, RankIs
<1>11. kept = Picked(s, P)
  BY <1>6
<1>12. t = [i \in DOMAIN kept |-> CleanInst(F, b, kept[i])]
  BY DEF CleanBlock, s
<1> HIDE DEF P, kept, t, C
<1>13. /\ DOMAIN kept = 1 .. C
       /\ \A p \in P : Rank(P, p) \in 1 .. C /\ kept[Rank(P, p)] = s[p]
       /\ \A k \in 1 .. C : \E p \in P : Rank(P, p) = k
  BY <1>9, <1>11, Zenon DEF PickedFrom, C
<1>14. Len(t) = C /\ t = [k \in 1 .. C |-> t[k]] /\ \A k \in 1 .. C : t[k] = CleanInst(F, b, kept[k])
  BY <1>10, <1>12, <1>13
<1>15. ASSUME NEW p \in P
       PROVE  Settled(f, g, sig, cur, b, g.blocks[b][p], t[Rank(P, p)])
  <2>1. p \in DOMAIN g.blocks[b]
    BY <1>1, <1>7 DEF P
  <2>2. Settled(f, g, sig, cur, b, g.blocks[b][p],
                IF s[p].op = "phi" THEN Reordered(s[p], Preds(f, b)) ELSE s[p])
    BY <1>2, <2>1, InstFinishes
  <2>3. t[Rank(P, p)] = CleanInst(F, b, s[p])
    BY <1>13, <1>14
  <2>4. QED
    BY <1>3, <2>2, <2>3 DEF CleanInst
<1>16. /\ Len(t) = C /\ C \in Nat /\ t = [k \in 1 .. C |-> t[k]]
       /\ \A p \in P : Rank(P, p) \in 1 .. C /\ Settled(f, g, sig, cur, b, g.blocks[b][p], t[Rank(P, p)])
       /\ \A k \in 1 .. C : \E p \in P : Rank(P, p) = k
  BY <1>10, <1>13, <1>14, <1>15
<1>17. QED
  BY <1>16 DEF P, t, C, BlockDone

\* Cleaning up behind a walk that got everywhere finishes the function.
LEMMA CleanFinishes ==
  ASSUME NEW f \in Functions, NEW g, Layout(f, g), NEW sig, NEW prog, NEW cur,
         \A c \in Blocks(f) : prog[c] = End(g, c),
         NEW F, Rewritten(f, g, sig, prog, cur, F)
  PROVE  Finished(f, g, sig, cur, Clean(F))
<1> DEFINE G == Clean(F)
<1>1. /\ F = [params |-> f.params, blocks |-> F.blocks, void |-> f.void, opt |-> f.opt]
      /\ DOMAIN F.blocks = Blocks(f) /\ Len(F.blocks) = Len(f.blocks)
  BY DEF Rewritten
<1>2. Blocks(F) = Blocks(f)
  BY <1>1 DEF Blocks
<1> DEFINE B == [b \in Blocks(f) |-> CleanBlock(F, b)]
<1>3. G = [F EXCEPT !.blocks = B]
  BY <1>2 DEF Clean
<1>4. G = [params |-> f.params, blocks |-> B, void |-> f.void, opt |-> f.opt]
  <2> HIDE DEF B, G
  <2>1. [F EXCEPT !.blocks = B] = [params |-> f.params, blocks |-> B, void |-> f.void, opt |-> f.opt]
    BY <1>1
  <2>2. QED
    BY <1>3, <2>1
<1>5. G.blocks = B
  BY <1>4
<1>6. /\ DOMAIN G.blocks = Blocks(f) /\ Len(G.blocks) = Len(f.blocks)
  <2>1. DOMAIN B = Blocks(f)
    OBVIOUS
  <2>2. Len(f.blocks) \in Nat /\ DOMAIN f.blocks = 1 .. Len(f.blocks)
    BY BlocksInOrder
  <2> DEFINE n == Len(f.blocks)
  <2>3. n \in Nat /\ DOMAIN B = 1 .. n
    BY <2>1, <2>2 DEF Blocks
  <2>4. B = [k \in 1 .. n |-> B[k]]
    BY <2>3
  <2> HIDE DEF B, n
  <2>5. Len(B) = n
    BY <2>3, <2>4
  <2>6. QED
    BY <1>5, <2>1, <2>5 DEF n
<1>7. \A b \in Blocks(f) : G.blocks[b] = CleanBlock(F, b)
  BY <1>5
<1> HIDE DEF G, B
<1>8. ASSUME NEW b \in Blocks(f) PROVE BlockDone(f, g, sig, cur, b, G.blocks[b])
  <2>1. BlockDone(f, g, sig, cur, b, CleanBlock(F, b))
    BY BlockFinishes
  <2>2. QED
    BY <1>7, <2>1
<1>9. Finished(f, g, sig, cur, G)
  BY <1>4, <1>5, <1>6, <1>8 DEF Finished
<1>10. QED
  BY <1>9 DEF G

-----------------------------------------------------------------------------
(* The function the pass leaves. *)

\* A finished function and the solution it was made from.
Promoted(f, d, ch, fr, g, sig, prog, cur, F) ==
  /\ Prepared(f, d, ch, fr, g)
  /\ Solved(f, d, g, sig, prog, cur)
  /\ \A b \in Blocks(f) : prog[b] = End(g, b)
  /\ Finished(f, g, sig, cur, F)

\* Once the walk is over the function is finished.
PromotedInv ==
  stage \in {"promoted", "running"} =>
    /\ \E g, sig, prog, cur : Promoted(original, idom, Kids, frontier, g, sig, prog, cur, fn)
    /\ walk = << >> /\ \A x \in DOMAIN stacks : stacks[x] = << >>

\* The code erases loads, stores and allocas of listed variables, which is all.
LEMMA ErasedIs ==
  ASSUME PromotableListed(original, promotable), original \in Functions,
         NEW g, Layout(original, g), NEW sig, NEW prog, NEW cur,
         Solved(original, idom, g, sig, prog, cur),
         NEW b \in Blocks(original), NEW p \in DOMAIN g.blocks[b], NEW n,
         Become(original, g, sig, prog, cur, b, p, n)
  PROVE  Erased(n) <=> n.op \in {"load", "set", "alloca"}
<1> DEFINE inst == g.blocks[b][p]
<1>1. n.op = inst.op /\ n.res = inst.res
  <2>1. n = [op |-> inst.op, res |-> inst.res, args |-> n.args, to |-> n.to]
    BY DEF Become
  <2>2. QED
    BY <2>1
<1>2. Base(original, g)
  BY LayoutIsBase
<1>3. ASSUME inst.op \in {"load", "set", "alloca"}
      PROVE  Shapely(original, g, b, p) /\ ~IsNew(original, inst)
  <2>1. ~IsNew(original, inst)
    BY <1>3 DEF IsNew
  <2>2. QED
    BY <1>2, <2>1 DEF Base
<1>4. ASSUME inst.op \in {"load", "set"} PROVE Local(n)
  <2>1. inst.args[1] \in Locals(original) /\ 1 \in DOMAIN inst.args
    BY <1>3, <1>4 DEF Shapely
  <2>2. n.args = [k \in DOMAIN inst.args |-> sig[inst.args[k]]]
    BY <1>3, <1>4 DEF Become
  <2>3. inst.args[1] \in Names(original, g)
    BY <1>2, <1>3, <1>4, <2>1, OperandsNamed
  <2>4. sig[inst.args[1]] = inst.args[1]
    BY <1>2, <2>1, <2>3, VariablesStay
  <2>5. n.args[1] \in Locals(original)
    BY <2>1, <2>2, <2>4
  <2>6. QED
    BY <1>1, <1>4, <2>5, LocalIs
<1>5. ASSUME inst.op = "alloca" PROVE n.res \in ToSet(promotable)
  <2>1. inst.res \in Locals(original)
    BY <1>3, <1>5 DEF Shapely
  <2>2. QED
    BY <1>1, <2>1, PromotableAre
<1>6. QED
  BY <1>1, <1>4, <1>5 DEF Erased, Local

\* What the last step does is that cleaning up.
LEMMA CleanupIs ==
  ASSUME PromotableListed(original, promotable), original \in Functions,
         NEW g, Layout(original, g), NEW sig, NEW prog, NEW cur,
         Solved(original, idom, g, sig, prog, cur),
         Rewritten(original, g, sig, prog, cur, fn), Cleanup
  PROVE  fn' = Clean(fn)
<1>1. fn' = [fn EXCEPT !.blocks = [b \in Blocks(fn) |->
              LET kept == Picked(fn.blocks[b], {i \in DOMAIN fn.blocks[b] :
                                                  ~Erased(fn.blocks[b][i])})
              IN  [i \in DOMAIN kept |->
                     IF kept[i].op = "phi" THEN Reordered(kept[i], Preds(fn, b))
                     ELSE kept[i]]]]
  BY DEF Cleanup
<1>2. Blocks(fn) = Blocks(original)
  BY RewrittenShape
<1>3. ASSUME NEW b \in Blocks(fn)
      PROVE  {i \in DOMAIN fn.blocks[b] : ~Erased(fn.blocks[b][i])}
             = {i \in DOMAIN fn.blocks[b] : fn.blocks[b][i].op \notin {"load", "set", "alloca"}}
  <2>1. DOMAIN fn.blocks[b] = DOMAIN g.blocks[b]
    <3>1. fn.blocks[b] = [p \in 1 .. Len(g.blocks[b]) |-> fn.blocks[b][p]]
      BY <1>2 DEF Rewritten
    <3>2. DOMAIN g.blocks[b] = 1 .. Len(g.blocks[b])
      BY <1>2, LayoutIs
    <3>3. QED
      BY <3>1, <3>2
  <2>2. ASSUME NEW i \in DOMAIN fn.blocks[b]
        PROVE  Erased(fn.blocks[b][i]) <=> fn.blocks[b][i].op \in {"load", "set", "alloca"}
    <3>1. Become(original, g, sig, prog, cur, b, i, fn.blocks[b][i])
      BY <1>2, <2>1 DEF Rewritten
    <3>2. b \in Blocks(original) /\ i \in DOMAIN g.blocks[b]
      BY <1>2, <2>1
    <3>3. QED
      BY <3>1, <3>2, ErasedIs
  <2>3. QED
    BY <2>2
<1>4. ASSUME NEW b \in Blocks(fn)
      PROVE  CleanBlock(fn, b) =
              LET kept == Picked(fn.blocks[b], {i \in DOMAIN fn.blocks[b] :
                                                  ~Erased(fn.blocks[b][i])})
              IN  [i \in DOMAIN kept |->
                     IF kept[i].op = "phi" THEN Reordered(kept[i], Preds(fn, b))
                     ELSE kept[i]]
  BY <1>3 DEF CleanBlock, CleanInst
<1>5. QED
  BY <1>1, <1>4 DEF Clean

\* The last step finishes the function.
LEMMA CleanupPromotes ==
  ASSUME Known, RenamingInv, Cleanup
  PROVE  PromotedInv'
<1>1. stage = "renaming" /\ walk = << >> /\ stage' = "promoted"
      /\ UNCHANGED <<original, idom, postorder, frontier, stacks, walk>>
  BY DEF Cleanup, passVars
<1>2. PICK g, sig, prog, cur, H : Renames(g, sig, prog, cur, H)
  BY <1>1 DEF RenamingInv
<1>3. original \in Functions /\ PromotableListed(original, promotable)
  BY <1>1 DEF Known, Early, Analysed
<1>4. /\ Prepared(original, idom, Kids, frontier, g)
      /\ Solved(original, idom, g, sig, prog, cur)
      /\ Rewritten(original, g, sig, prog, cur, fn)
      /\ Walking(original, idom, Kids, g, prog, << >>)
      /\ Stacked(original, g, cur, << >>, stacks, H)
  BY <1>1, <1>2 DEF Renames, RenamedSoFar
<1>5. /\ Layout(original, g) /\ DomTree(original, idom) /\ ChildrenListed(original, idom, Kids)
      /\ Progressing(original, g, prog)
  BY <1>4 DEF Prepared, Solved
<1>6. PICK ch : ch = Kids
  OBVIOUS
<1>7. \A b \in Blocks(original) : prog[b] = End(g, b)
  BY <1>4, <1>5, <1>6, WalkOver
<1>8. fn' = Clean(fn)
  BY <1>3, <1>4, <1>5, CleanupIs
<1>9. Finished(original, g, sig, cur, Clean(fn))
  BY <1>3, <1>4, <1>5, <1>7, CleanFinishes
<1>10. Promoted(original, idom, Kids, frontier, g, sig, prog, cur, fn')
  BY <1>4, <1>7, <1>8, <1>9 DEF Promoted
<1>11. Kids' = Kids
  <2>1. \A b : Children(b)' = Children(b)
    BY <1>1 DEF Children, ReversePostorder
  <2>2. QED
    BY <1>1, <2>1 DEF Kids
<1>12. ASSUME NEW x \in DOMAIN stacks PROVE stacks[x] = << >>
  <2>1. Len(<< >>) = 0
    OBVIOUS
  <2>2. x \in Locals(original)
    BY <1>4 DEF Stacked
  <2>3. Len(stacks[x]) = 0 /\ stacks[x] = [i \in 1 .. Len(stacks[x]) |-> stacks[x][i]]
    BY <1>4, <2>1, <2>2 DEF Stacked
  <2> DEFINE s == stacks[x]
  <2>4. s = [i \in 1 .. 0 |-> s[i]]
    BY <2>3
  <2> HIDE DEF s
  <2>5. s = << >>
    BY <2>4, EmptyIs
  <2>6. QED
    BY <2>5 DEF s
<1>13. QED
  BY <1>1, <1>10, <1>11, <1>12 DEF PromotedInv

\* Every step keeps it.
LEMMA NextPromoted ==
  ASSUME Known, RenamingInv, PromotedInv, [Next]_vars
  PROVE  PromotedInv'
<1>1. CASE Cleanup
  BY <1>1, CleanupPromotes
<1>2. ASSUME UNCHANGED <<fn, original, idom, postorder, frontier, stacks, walk>>,
             stage' \in {"promoted", "running"} => stage \in {"promoted", "running"}
      PROVE  PromotedInv'
  <2>1. \A b : Children(b)' = Children(b)
    BY <1>2 DEF Children, ReversePostorder
  <2>2. Kids' = Kids
    BY <1>2, <2>1 DEF Kids
  <2>3. QED
    BY <1>2, <2>2 DEF PromotedInv
<1>3. CASE UNCHANGED vars
  BY <1>2, <1>3 DEF vars, domVars, passVars, runVars
<1>4. CASE (\E given \in [Params(fn) -> Literals] : Start(given)) \/ Access
           \/ (\E result \in Literals : Compute(result)) \/ (\E c \in Blocks(fn) : Goto(c)) \/ Return
  BY <1>2, <1>4 DEF Start, Access, Compute, Goto, Return, Running, domVars, passVars
<1>5. CASE DomNext
  BY <1>5 DEF DomNext, FollowEdge, LeaveBlock, OrderingDone, FindIdom, SweepAgain,
              DominatorsDone, Climb, NextEdge, PromotedInv
<1>6. CASE CollectPromotable \/ ChooseVariable \/ VariableDone \/ StartRenaming
           \/ (\E b \in Blocks(fn) : InsertPhis(b))
  BY <1>6 DEF CollectPromotable, ChooseVariable, VariableDone, InsertPhis, StartRenaming, PromotedInv
<1>7. CASE DefineVariable \/ RewriteLoad \/ KeepInst \/ FillPhis \/ RenameChild \/ PopVariables
  BY <1>7 DEF DefineVariable, RewriteLoad, KeepInst, FillPhis, RenameChild, domVars,
              PopVariables, RenamingInst, Renaming, RenamingChildren, PromotedInv
<1>8. QED
  BY <1>1, <1>3, <1>4, <1>5, <1>6, <1>7 DEF Next, Pass, Over

-----------------------------------------------------------------------------
(* A finished block, place by place. *)

\* Where the instruction at place p of g's block b ends up.
Slot(g, b, p) == Rank(KeptPlaces(g, b), p)

\* What is known of a finished block.
Kept(f, g, sig, cur, F, b) ==
  /\ Len(F.blocks[b]) \in Nat /\ DOMAIN F.blocks[b] = 1 .. Len(F.blocks[b])
  /\ F.blocks[b] = [k \in 1 .. Len(F.blocks[b]) |-> F.blocks[b][k]]
  /\ \A p \in KeptPlaces(g, b) :
       /\ Slot(g, b, p) \in DOMAIN F.blocks[b]
       /\ F.blocks[b][Slot(g, b, p)].op = g.blocks[b][p].op
       /\ F.blocks[b][Slot(g, b, p)].res = g.blocks[b][p].res
       /\ Settled(f, g, sig, cur, b, g.blocks[b][p], F.blocks[b][Slot(g, b, p)])
  /\ \A k \in DOMAIN F.blocks[b] : \E p \in KeptPlaces(g, b) : k = Slot(g, b, p)
  /\ \A p, q \in KeptPlaces(g, b) : p < q <=> Slot(g, b, p) < Slot(g, b, q)
  /\ Len(g.blocks[b]) \in KeptPlaces(g, b) => Slot(g, b, Len(g.blocks[b])) = Len(F.blocks[b])

\* A finished block has the kept instructions, each in its slot.
LEMMA FinishedIs ==
  ASSUME NEW f \in Functions, NEW g, Layout(f, g), NEW sig, NEW cur, NEW F,
         Finished(f, g, sig, cur, F), NEW b \in Blocks(f)
  PROVE  Kept(f, g, sig, cur, F, b)
<1> DEFINE P == KeptPlaces(g, b)
           C == Cardinality(P)
           n == Len(g.blocks[b])
           t == F.blocks[b]
<1>1. BlockDone(f, g, sig, cur, b, t)
  BY DEF Finished
<1>2. n \in Nat /\ DOMAIN g.blocks[b] = 1 .. n
  BY LayoutIs
<1>3. P \in SUBSET (1 .. n)
  BY <1>2 DEF KeptPlaces
<1>4. /\ Len(t) = C /\ C \in Nat
      /\ t = [k \in 1 .. C |-> t[k]]
      /\ \A p \in P : Rank(P, p) \in 1 .. C
                      /\ Settled(f, g, sig, cur, b, g.blocks[b][p], t[Rank(P, p)])
      /\ \A k \in 1 .. C : \E p \in P : Rank(P, p) = k
  BY <1>1 DEF BlockDone
<1> HIDE DEF P, n, t, C
<1>5. /\ Rank(P, n) = Cardinality(P)
      /\ \A p \in 0 .. n : Rank(P, p) \in 0 .. Cardinality(P)
      /\ \A p \in 0 .. n, q \in P : p < q => Rank(P, p) < Rank(P, q)
  BY <1>2, <1>3, RankIs
<1>6. DOMAIN t = 1 .. C
  BY <1>4
<1>7. ASSUME NEW p \in P
      PROVE  /\ t[Rank(P, p)].op = g.blocks[b][p].op /\ t[Rank(P, p)].res = g.blocks[b][p].res
  <2>1. Settled(f, g, sig, cur, b, g.blocks[b][p], t[Rank(P, p)])
    BY <1>4
  <2> DEFINE u == t[Rank(P, p)]
  <2>2. u = [op |-> g.blocks[b][p].op, res |-> g.blocks[b][p].res, args |-> u.args, to |-> u.to]
    BY <2>1 DEF Settled
  <2>3. QED
    BY <2>2
<1>8. ASSUME NEW p \in P, NEW q \in P PROVE p < q <=> Rank(P, p) < Rank(P, q)
  <2>1. p \in 0 .. n /\ q \in 0 .. n
    BY <1>2, <1>3
  <2>2. p < q => Rank(P, p) < Rank(P, q)
    BY <1>5, <2>1
  <2>3. q < p => Rank(P, q) < Rank(P, p)
    BY <1>5, <2>1
  <2>4. Rank(P, p) \in Int /\ Rank(P, q) \in Int /\ p \in Int /\ q \in Int
    <3>1. Rank(P, p) \in 1 .. C /\ Rank(P, q) \in 1 .. C
      BY <1>4
    <3>2. p \in 1 .. n /\ q \in 1 .. n
      BY <1>3
    <3>3. QED
      BY <3>1, <3>2
  <2>5. QED
    BY <2>2, <2>3, <2>4
<1>9. \A p : Slot(g, b, p) = Rank(P, p)
  BY DEF Slot, P
<1>10. /\ Len(t) \in Nat /\ DOMAIN t = 1 .. Len(t) /\ t = [k \in 1 .. Len(t) |-> t[k]]
       /\ \A p \in P : Slot(g, b, p) \in DOMAIN t
                       /\ t[Slot(g, b, p)].op = g.blocks[b][p].op
                       /\ t[Slot(g, b, p)].res = g.blocks[b][p].res
                       /\ Settled(f, g, sig, cur, b, g.blocks[b][p], t[Slot(g, b, p)])
  BY <1>4, <1>6, <1>7, <1>9
<1>11. \A k \in DOMAIN t : \E p \in P : k = Slot(g, b, p)
  BY <1>4, <1>6, <1>9
<1>12. \A p, q \in P : p < q <=> Slot(g, b, p) < Slot(g, b, q)
  BY <1>8, <1>9
<1>13. n \in P => Slot(g, b, n) = Len(t)
  BY <1>4, <1>5, <1>9 DEF C
<1>14. QED
  BY <1>10, <1>11, <1>12, <1>13 DEF Kept, P, t, n

\* Every block ends in what it ended in.
LEMMA FinishedEnds ==
  ASSUME NEW f \in Functions, NEW g, Layout(f, g), NEW sig, NEW cur, NEW F,
         Finished(f, g, sig, cur, F), NEW b \in Blocks(f)
  PROVE  EndsAlike(f, F, b)
<1> DEFINE m == Len(f.blocks[b])
           n == Len(g.blocks[b])
           s == Shift(f, g, b)
           t == F.blocks[b]
           N == Len(F.blocks[b])
           P == KeptPlaces(g, b)
<1>1. /\ m \in Nat /\ n \in Nat /\ s \in Nat /\ n = s + m
      /\ DOMAIN f.blocks[b] = 1 .. m /\ DOMAIN g.blocks[b] = 1 .. n
  BY LayoutIs
<1>2. Kept(f, g, sig, cur, F, b)
  BY FinishedIs
<1>3. /\ N \in Nat /\ DOMAIN t = 1 .. N /\ t = [k \in 1 .. N |-> t[k]]
      /\ \A p \in P : /\ Slot(g, b, p) \in DOMAIN t
                      /\ t[Slot(g, b, p)].op = g.blocks[b][p].op
                      /\ Settled(f, g, sig, cur, b, g.blocks[b][p], t[Slot(g, b, p)])
      /\ \A k \in DOMAIN t : \E p \in P : k = Slot(g, b, p)
      /\ n \in P => Slot(g, b, n) = N
  BY <1>2 DEF Kept
<1>4. Last(t) = t[N] /\ Last(f.blocks[b]) = f.blocks[b][m]
  BY DEF Last
<1>5. (t # << >> <=> N # 0) /\ (f.blocks[b] # << >> <=> m # 0)
  <2>1. f.blocks[b] = [p \in 1 .. m |-> f.blocks[b][p]]
    BY FunctionRecord
  <2> HIDE DEF m, n, s, N, t, P
  <2>2. QED
    BY <1>1, <1>3, <2>1, EmptyIs
<1>6. m # 0 => m \in DOMAIN f.blocks[b] /\ g.blocks[b][n] = f.blocks[b][m]
  <2>1. ASSUME m # 0 PROVE m \in DOMAIN f.blocks[b]
    BY <1>1, <2>1
  <2>2. ASSUME m # 0 PROVE g.blocks[b][s + m] = f.blocks[b][m]
    BY <2>1, <2>2, LayoutIs
  <2> HIDE DEF m, n, s
  <2>3. QED
    BY <1>1, <2>1, <2>2
<1>7. \A p \in P : p \in DOMAIN g.blocks[b]
  BY DEF KeptPlaces
<1>8. n # 0 /\ g.blocks[b][n].op \in {"br", "condbr"} => n \in P
  <2>1. n # 0 => n \in DOMAIN g.blocks[b]
    <3> HIDE DEF m, n, s
    <3>1. QED
      BY <1>1
  <2>2. QED
    BY <2>1 DEF KeptPlaces
<1>9. ASSUME N # 0, t[N].op \in {"br", "condbr"}
      PROVE  m # 0 /\ f.blocks[b][m].op \in {"br", "condbr"}
  <2>0. N \in DOMAIN t
    <3> HIDE DEF N, t, P
    <3>1. QED
      BY <1>3, <1>9
  <2>1. PICK p \in P : N = Slot(g, b, p)
    BY <1>3, <2>0
  <2>2. g.blocks[b][p].op \in {"br", "condbr"} /\ p \in DOMAIN g.blocks[b]
    BY <1>3, <1>7, <1>9, <2>1
  <2>3. ~IsNew(f, g.blocks[b][p])
    BY <2>2 DEF IsNew
  <2>4. Base(f, g)
    BY LayoutIsBase
  <2>5. p = n
    BY <2>2, <2>3, <2>4 DEF Base, Shapely
  <2>6. m # 0
    <3>1. ~(p <= s)
      BY <2>2, <2>3, LayoutIs
    <3> HIDE DEF m, n, s
    <3>2. QED
      BY <1>1, <2>5, <3>1
  <2>7. QED
    BY <1>6, <2>2, <2>5, <2>6
<1>10. ASSUME m # 0, f.blocks[b][m].op \in {"br", "condbr"}
       PROVE  N # 0 /\ t[N].op \in {"br", "condbr"} /\ t[N].to = f.blocks[b][m].to
  <2>1. g.blocks[b][n] = f.blocks[b][m] /\ n # 0
    <3>1. g.blocks[b][n] = f.blocks[b][m]
      BY <1>6, <1>10
    <3> HIDE DEF m, n, s
    <3>2. QED
      BY <1>1, <1>10, <3>1
  <2>2. n \in P
    BY <1>8, <1>10, <2>1
  <2>3. Slot(g, b, n) = N
    BY <1>3, <2>2
  <2>4. /\ N \in DOMAIN t
        /\ t[N].op = g.blocks[b][n].op
        /\ Settled(f, g, sig, cur, b, g.blocks[b][n], t[N])
    BY <1>3, <2>2, <2>3
  <2>5. t[N].to = g.blocks[b][n].to
    <3>1. g.blocks[b][n].op # "phi"
      BY <1>10, <2>1
    <3>2. QED
      BY <2>4, <3>1 DEF Settled
  <2>6. N # 0
    <3> HIDE DEF N, t
    <3>1. QED
      BY <1>3, <2>4
  <2>7. QED
    BY <1>10, <2>1, <2>4, <2>5, <2>6
<1> HIDE DEF m, n, s, t, N, P
<1>11. QED
  <2>1. /\ (t # << >> /\ Last(t).op \in {"br", "condbr"})
           <=> (f.blocks[b] # << >> /\ Last(f.blocks[b]).op \in {"br", "condbr"})
        /\ (f.blocks[b] # << >> /\ Last(f.blocks[b]).op \in {"br", "condbr"})
           => Last(t).to = Last(f.blocks[b]).to
    BY <1>4, <1>5, <1>9, <1>10
  <2>2. QED
    BY <2>1 DEF EndsAlike, t

\* A finished function has the edges and so the dominators of the original.
LEMMA FinishedShape ==
  ASSUME NEW f \in Functions, NEW g, Layout(f, g), NEW sig, NEW cur, NEW F,
         Finished(f, g, sig, cur, F)
  PROVE  /\ Blocks(F) = Blocks(f) /\ Shaped(F)
         /\ \A b \in Blocks(f) : Succs(F, b) = Succs(f, b) /\ Preds(F, b) = Preds(f, b)
         /\ \A b, c : StrictlyDominates(F, b, c) <=> StrictlyDominates(f, b, c)
<1>1. DOMAIN F.blocks = Blocks(f) /\ Len(F.blocks) = Len(f.blocks)
  BY DEF Finished
<1>2. \A b \in Blocks(f) : EndsAlike(f, F, b)
  BY FinishedEnds
<1>3. QED
  BY <1>1, <1>2, ShapedAlike

-----------------------------------------------------------------------------
(* The finished function is in SSA form. *)

\* An instruction of the finished function and the one it comes from.
LEMMA SiteIs ==
  ASSUME NEW f \in Functions, NEW g, Layout(f, g), NEW sig, NEW cur, NEW F,
         Finished(f, g, sig, cur, F), NEW s \in Sites(F)
  PROVE  /\ s = <<s[1], s[2]>> /\ s[1] \in Blocks(f) /\ At(F, s) = F.blocks[s[1]][s[2]]
         /\ s[2] \in DOMAIN F.blocks[s[1]]
         /\ \E p \in KeptPlaces(g, s[1]) :
              /\ p \in DOMAIN g.blocks[s[1]]
              /\ s[2] = Slot(g, s[1], p)
              /\ At(F, s).op = g.blocks[s[1]][p].op /\ At(F, s).res = g.blocks[s[1]][p].res
              /\ Settled(f, g, sig, cur, s[1], g.blocks[s[1]][p], At(F, s))
<1>1. Blocks(F) = Blocks(f)
  BY FinishedShape
<1>2. /\ s = <<s[1], s[2]>> /\ s[1] \in Blocks(f) /\ s[2] \in DOMAIN F.blocks[s[1]]
      /\ At(F, s) = F.blocks[s[1]][s[2]]
  BY <1>1, SitesAre
<1>3. Kept(f, g, sig, cur, F, s[1])
  BY <1>2, FinishedIs
<1>4. PICK p \in KeptPlaces(g, s[1]) : s[2] = Slot(g, s[1], p)
  BY <1>2, <1>3 DEF Kept
<1>5. /\ At(F, s).op = g.blocks[s[1]][p].op /\ At(F, s).res = g.blocks[s[1]][p].res
      /\ Settled(f, g, sig, cur, s[1], g.blocks[s[1]][p], At(F, s))
  BY <1>2, <1>3, <1>4 DEF Kept
<1>6. p \in DOMAIN g.blocks[s[1]]
  BY DEF KeptPlaces
<1>7. QED
  BY <1>2, <1>4, <1>5, <1>6

\* Every value is defined once.
LEMMA OneSite ==
  ASSUME NEW f \in Functions, NEW g, Layout(f, g), NEW sig, NEW cur, NEW F,
         Finished(f, g, sig, cur, F), NEW s \in Sites(F), NEW t \in Sites(F),
         At(F, s).res = At(F, t).res, At(F, s).res # NoValue
  PROVE  s = t
<1>1. /\ s = <<s[1], s[2]>> /\ s[1] \in Blocks(f) /\ t = <<t[1], t[2]>> /\ t[1] \in Blocks(f)
  BY SiteIs
<1>2. PICK p \in DOMAIN g.blocks[s[1]] :
        s[2] = Slot(g, s[1], p) /\ At(F, s).res = g.blocks[s[1]][p].res
  BY SiteIs
<1>3. PICK q \in DOMAIN g.blocks[t[1]] :
        t[2] = Slot(g, t[1], q) /\ At(F, t).res = g.blocks[t[1]][q].res
  BY SiteIs
<1>4. Base(f, g)
  BY LayoutIsBase
<1>5. g.blocks[s[1]][p].res = g.blocks[t[1]][q].res /\ g.blocks[s[1]][p].res # NoValue
  BY <1>2, <1>3
<1>6. s[1] = t[1] /\ p = q
  BY <1>1, <1>4, <1>5 DEF Base
<1>7. QED
  BY <1>1, <1>2, <1>3, <1>6

\* A kept instruction with a value defines it in its slot.
LEMMA SiteOf ==
  ASSUME NEW f \in Functions, NEW g, Layout(f, g), NEW sig, NEW cur, NEW F,
         Finished(f, g, sig, cur, F), NEW b \in Blocks(f), NEW p \in KeptPlaces(g, b),
         NEW v, v = g.blocks[b][p].res, v # NoValue
  PROVE  v \in Results(F) /\ DefSite(F, v) = <<b, Slot(g, b, p)>>
<1> DEFINE s == <<b, Slot(g, b, p)>>
<1>1. Kept(f, g, sig, cur, F, b)
  BY FinishedIs
<1>2. Slot(g, b, p) \in DOMAIN F.blocks[b] /\ F.blocks[b][Slot(g, b, p)].res = v
  BY <1>1 DEF Kept
<1>3. Blocks(F) = Blocks(f)
  BY FinishedShape
<1>4. s \in Sites(F) /\ At(F, s).res = v
  BY <1>2, <1>3, SitesAre
<1>5. v \in Results(F)
  BY <1>4 DEF Results
<1>6. DefSite(F, v) \in Sites(F) /\ At(F, DefSite(F, v)).res = v
  BY <1>4 DEF DefSite
<1>7. DefSite(F, v) = s
  BY <1>4, <1>6, OneSite
<1>8. QED
  BY <1>5, <1>7

\* What may stand for a variable is defined where it is to stand.
LEMMA FitsDefined ==
  ASSUME NEW f \in Functions, NEW d, DomTree(f, d), NEW g, Layout(f, g), NEW sig, NEW cur, NEW F,
         Finished(f, g, sig, cur, F), NEW b \in Blocks(f), NEW v, NEW p, NEW k,
         Fits(f, g, v, b, p),
         \/ p \in KeptPlaces(g, b) /\ k = Slot(g, b, p)
         \/ p = Len(g.blocks[b]) + 1 /\ k = Len(F.blocks[b]) + 1
  PROVE  DefinedAt(F, v, <<b, k>>)
<1>1. Available(f, g, v, b, p) /\ Lasting(f, g, v)
  BY DEF Fits
<1>2. F = [params |-> f.params, blocks |-> F.blocks, void |-> f.void, opt |-> f.opt]
  BY DEF Finished
<1>3. Params(F) = Params(f)
  <2>1. F.params = f.params
    BY <1>2
  <2>2. QED
    BY <2>1 DEF Params
<1>4. CASE v \in Literals \cup Params(f)
  BY <1>3, <1>4 DEF DefinedAt
<1>5. CASE v \notin Literals \cup Params(f)
  <2>1. v # NoValue
    BY <1>1, <1>5 DEF Available
  <2>2. PICK c, q :
          c \in Blocks(f) /\
          q \in DOMAIN g.blocks[c] /\ g.blocks[c][q].res = v /\ Ahead(f, c, q, b, p)
    BY <1>1, <1>5 DEF Available
  <2>3. Base(f, g)
    BY LayoutIsBase
  <2>4. g.blocks[c][q].op \notin {"load", "alloca"}
    BY <1>1, <2>1, <2>2 DEF Lasting
  <2>5. g.blocks[c][q].op # "set"
    <3>1. ASSUME g.blocks[c][q].op = "set" PROVE FALSE
      <4>1. ~IsNew(f, g.blocks[c][q])
        BY <3>1 DEF IsNew
      <4>2. Shapely(f, g, c, q)
        BY <2>2, <2>3, <4>1 DEF Base
      <4>3. QED
        BY <2>1, <2>2, <3>1, <4>2 DEF Shapely
    <3>2. QED
      BY <3>1
  <2>6. q \in KeptPlaces(g, c)
    BY <2>2, <2>4, <2>5 DEF KeptPlaces
  <2>7. v \in Results(F) /\ DefSite(F, v) = <<c, Slot(g, c, q)>>
    BY <2>1, <2>2, <2>6, SiteOf
  <2>8. CASE c = b /\ q < p
    <3>1. Kept(f, g, sig, cur, F, b)
      BY FinishedIs
    <3>2. Slot(g, b, q) < k
      <4>1. CASE p \in KeptPlaces(g, b) /\ k = Slot(g, b, p)
        BY <2>6, <2>8, <3>1, <4>1 DEF Kept
      <4>2. CASE p = Len(g.blocks[b]) + 1 /\ k = Len(F.blocks[b]) + 1
        <5> DEFINE N == Len(F.blocks[b])
                   r == Slot(g, b, q)
        <5>1. N \in Nat /\ DOMAIN F.blocks[b] = 1 .. N /\ r \in DOMAIN F.blocks[b]
          BY <2>6, <2>8, <3>1 DEF Kept
        <5>2. k = N + 1
          BY <4>2
        <5> HIDE DEF N, r
        <5>3. r < k
          BY <5>1, <5>2
        <5>4. QED
          BY <5>3 DEF r
      <4>3. QED
        BY <4>1, <4>2
    <3>3. QED
      BY <2>7, <2>8, <3>2 DEF DefinedAt
  <2>9. CASE StrictlyDominates(f, c, b)
    <3>1. c # b
      BY <2>9 DEF DomTree
    <3>2. StrictlyDominates(F, c, b)
      BY <2>9, FinishedShape
    <3>3. QED
      BY <2>7, <3>1, <3>2 DEF DefinedAt
  <2>10. QED
    BY <2>2, <2>8, <2>9 DEF Ahead
<1>6. QED
  BY <1>4, <1>5

\* Every operand is defined where it is used, that of a phi at the end of its edge.
LEMMA FinalOperands ==
  ASSUME NEW f, NEW d, NEW ch, NEW fr, NEW g, NEW sig, NEW prog, NEW cur, NEW F,
         Promoted(f, d, ch, fr, g, sig, prog, cur, F), NEW s \in Sites(F)
  PROVE  LET m == At(F, s)
         IN  IF m.op = "phi"
             THEN /\ DOMAIN m.args = DOMAIN m.to
                  /\ \A k \in DOMAIN m.to : m.to[k] \in Blocks(f)
                  /\ \A k \in DOMAIN m.to :
                       DefinedAt(F, m.args[k], <<m.to[k], Len(F.blocks[m.to[k]]) + 1>>)
             ELSE \A v \in ToSet(m.args) : DefinedAt(F, v, s)
<1> DEFINE m == At(F, s)
           b == s[1]
<1>1. /\ f \in Functions /\ DomTree(f, d) /\ Layout(f, g) /\ Finished(f, g, sig, cur, F)
      /\ Solved(f, d, g, sig, prog, cur) /\ \A c \in Blocks(f) : prog[c] = End(g, c)
  BY DEF Promoted, Prepared
<1>2. b \in Blocks(f) /\ s = <<b, s[2]>>
  BY <1>1, SiteIs
<1>3. PICK p \in KeptPlaces(g, b) :
        /\ p \in DOMAIN g.blocks[b] /\ s[2] = Slot(g, b, p)
        /\ m.op = g.blocks[b][p].op /\ Settled(f, g, sig, cur, b, g.blocks[b][p], m)
  BY <1>1, SiteIs
<1> DEFINE inst == g.blocks[b][p]
<1>4. Base(f, g)
  BY <1>1, LayoutIsBase
<1>5. ASSUME NEW c \in Blocks(f)
      PROVE  /\ Len(g.blocks[c]) \in Nat /\ DOMAIN g.blocks[c] = 1 .. Len(g.blocks[c])
             /\ Len(g.blocks[c]) + 1 \in 1 .. prog[c]
             /\ \A q \in DOMAIN g.blocks[c] : q \in 1 .. prog[c]
  <2> DEFINE n == Len(g.blocks[c])
  <2>1. n \in Nat /\ DOMAIN g.blocks[c] = 1 .. n
    BY <1>1, LayoutIs
  <2>2. prog[c] = n + 2
    BY <1>1 DEF End
  <2> HIDE DEF n
  <2>3. n + 1 \in 1 .. prog[c] /\ \A q \in DOMAIN g.blocks[c] : q \in 1 .. prog[c]
    BY <2>1, <2>2
  <2>4. QED
    BY <2>1, <2>3 DEF n
<1> HIDE DEF m, b
<1>6. ASSUME ~IsNew(f, inst), NEW k \in DOMAIN inst.args
      PROVE  /\ inst.args[k] \notin Locals(f)
             /\ IF inst.op = "phi"
                THEN Available(f, g, inst.args[k], inst.to[k], Len(g.blocks[inst.to[k]]) + 1)
                ELSE Available(f, g, inst.args[k], b, p)
  <2>1. Shapely(f, g, b, p) /\ Supplied(f, g, b, p)
    BY <1>2, <1>3, <1>4, <1>6 DEF Base
  <2>2. inst.op \notin {"load", "set"}
    BY <1>3 DEF KeptPlaces
  <2>3. QED
    BY <1>6, <2>1, <2>2 DEF Shapely, Supplied
<1>7. CASE inst.op # "phi"
  <2>1. ~IsNew(f, inst)
    BY <1>7 DEF IsNew
  <2>2. m.args = [k \in DOMAIN inst.args |-> sig[inst.args[k]]]
    BY <1>3, <1>7 DEF Settled
  <2>3. ASSUME NEW k \in DOMAIN inst.args PROVE DefinedAt(F, sig[inst.args[k]], <<b, s[2]>>)
    <3>1. p \in 1 .. prog[b]
      BY <1>2, <1>3, <1>5
    <3>2. Fits(f, g, sig[inst.args[k]], b, p)
      BY <1>1, <1>2, <1>4, <1>6, <1>7, <2>1, <3>1, OperandsFit
    <3>3. QED
      BY <1>1, <1>2, <1>3, <3>2, FitsDefined
  <2>4. \A v \in ToSet(m.args) : DefinedAt(F, v, s)
    <3>1. s = <<b, s[2]>>
      BY <1>2
    <3>2. DOMAIN m.args = DOMAIN inst.args /\ \A k \in DOMAIN m.args : m.args[k] = sig[inst.args[k]]
      BY <2>2
    <3>3. \A k \in DOMAIN m.args : DefinedAt(F, m.args[k], s)
      BY <2>3, <3>1, <3>2
    <3>4. QED
      BY <3>3 DEF ToSet
  <2>5. QED
    BY <1>3, <1>7, <2>4 DEF m
<1>8. CASE inst.op = "phi"
  <2>1. m.to = Preds(f, b) /\ DOMAIN m.args = DOMAIN m.to
    BY <1>3, <1>8 DEF Settled
  <2>2. ASSUME NEW j \in DOMAIN m.to PROVE m.to[j] \in Blocks(f)
    <3>1. Preds(f, b) \in Seq(Blocks(f))
      BY <1>1, <1>2, PredsAre
    <3>2. QED
      BY <2>1, <3>1, SequenceIs
  <2>3. ASSUME NEW j \in DOMAIN m.to
        PROVE  DefinedAt(F, m.args[j], <<m.to[j], Len(F.blocks[m.to[j]]) + 1>>)
    <3>1. PICK c \in Blocks(f) : c = m.to[j]
      BY <2>2
    <3>2. Fits(f, g, m.args[j], c, Len(g.blocks[c]) + 1)
      <4>1. CASE IsNew(f, inst)
        <5> DEFINE x == inst.res[2]
        <5>1. m.args[j] = cur[c][End(g, c)][x]
          BY <1>3, <1>8, <3>1, <4>1 DEF Settled
        <5>2. x \in Locals(f)
          BY <1>2, <1>3, <1>4, <4>1, PhiOf
        <5>3. cur[c][End(g, c)][x] = cur[c][Len(g.blocks[c]) + 1][x]
          BY <1>1, <5>2 DEF Solved, EndValues
        <5>4. Fits(f, g, cur[c][Len(g.blocks[c]) + 1][x], c, Len(g.blocks[c]) + 1)
          BY <1>1, <1>5, <5>2 DEF Solved, ValuesFit
        <5>5. QED
          BY <5>1, <5>3, <5>4
      <4>2. CASE ~IsNew(f, inst)
        <5>1. PICK k \in DOMAIN inst.to : inst.to[k] = c /\ m.args[j] = sig[inst.args[k]]
          BY <1>3, <1>8, <3>1, <4>2 DEF Settled
        <5>2. k \in DOMAIN inst.args
          BY <1>2, <1>3, <1>4, <1>8, <4>2 DEF Base, Shapely
        <5>3. /\ inst.args[k] \notin Locals(f)
              /\ Available(f, g, inst.args[k], c, Len(g.blocks[c]) + 1)
          BY <1>6, <1>8, <4>2, <5>1, <5>2
        <5>4. Len(g.blocks[c]) + 1 \in 1 .. prog[c]
          BY <1>5
        <5>5. Fits(f, g, sig[inst.args[k]], c, Len(g.blocks[c]) + 1)
          BY <1>1, <1>4, <5>3, <5>4, OperandsFit
        <5>6. QED
          BY <5>1, <5>5
      <4>3. QED
        BY <4>1, <4>2
    <3>3. DefinedAt(F, m.args[j], <<c, Len(F.blocks[c]) + 1>>)
      BY <1>1, <3>2, FitsDefined
    <3>4. QED
      BY <3>1, <3>3
  <2>4. QED
    BY <1>3, <1>8, <2>1, <2>2, <2>3 DEF m
<1>9. QED
  BY <1>7, <1>8

\* Phis come first, with one entry for each predecessor.
LEMMA PhisStandFirst ==
  ASSUME NEW f \in Functions, NEW g, Layout(f, g), NEW sig, NEW cur, NEW F,
         Finished(f, g, sig, cur, F), NEW s \in Sites(F), At(F, s).op = "phi"
  PROVE  s[2] \in PhiSites(F, s[1]) /\ At(F, s).to = Preds(F, s[1])
<1> DEFINE m == At(F, s)
           b == s[1]
<1>1. b \in Blocks(f) /\ s = <<b, s[2]>> /\ s[2] \in DOMAIN F.blocks[b]
  BY SiteIs
<1>2. PICK p \in KeptPlaces(g, b) :
        /\ p \in DOMAIN g.blocks[b] /\ s[2] = Slot(g, b, p)
        /\ m.op = g.blocks[b][p].op /\ Settled(f, g, sig, cur, b, g.blocks[b][p], m)
  BY SiteIs
<1>3. Base(f, g)
  BY LayoutIsBase
<1>4. Kept(f, g, sig, cur, F, b)
  BY <1>1, FinishedIs
<1> HIDE DEF m, b
<1>5. g.blocks[b][p].op = "phi"
  BY <1>2 DEF m
<1>6. \A q \in 1 .. p : g.blocks[b][q].op = "phi"
  <2>1. CASE IsNew(f, g.blocks[b][p])
    BY <1>1, <1>2, <1>3, <2>1 DEF Base, IsNew
  <2>2. CASE ~IsNew(f, g.blocks[b][p])
    <3>1. Shapely(f, g, b, p)
      BY <1>1, <1>2, <1>3, <2>2 DEF Base
    <3>2. QED
      BY <1>5, <3>1 DEF Shapely
  <2>3. QED
    BY <2>1, <2>2
<1>7. ASSUME NEW j \in 1 .. s[2] PROVE F.blocks[b][j].op = "phi"
  <2> DEFINE N == Len(F.blocks[b])
             k == s[2]
             n == Len(g.blocks[b])
  <2>1. N \in Nat /\ DOMAIN F.blocks[b] = 1 .. N /\ k \in DOMAIN F.blocks[b]
        /\ n \in Nat /\ DOMAIN g.blocks[b] = 1 .. n
    BY <1>1, <1>4, LayoutIs DEF Kept
  <2>2. j \in 1 .. k
    OBVIOUS
  <2>3. j \in DOMAIN F.blocks[b]
    <3> HIDE DEF N, k
    <3>1. QED
      BY <2>1, <2>2
  <2>4. PICK q \in KeptPlaces(g, b) : j = Slot(g, b, q)
    BY <1>4, <2>3 DEF Kept
  <2>5. F.blocks[b][j].op = g.blocks[b][q].op
    BY <1>4, <2>4 DEF Kept
  <2>6. ~(p < q)
    <3>1. p < q => Slot(g, b, p) < Slot(g, b, q)
      BY <1>2, <2>4, <1>4 DEF Kept
    <3>2. Slot(g, b, p) = k /\ Slot(g, b, q) = j
      BY <1>2, <2>4
    <3> HIDE DEF k, N
    <3>3. QED
      BY <2>1, <2>2, <3>1, <3>2
  <2>7. q \in DOMAIN g.blocks[b]
    BY DEF KeptPlaces
  <2>8. q \in 1 .. p
    <3> HIDE DEF n
    <3>1. QED
      BY <1>2, <2>1, <2>6, <2>7
  <2>9. QED
    BY <1>6, <2>5, <2>8
<1>8. s[2] \in PhiSites(F, b)
  BY <1>1, <1>7 DEF PhiSites
<1>9. m.to = Preds(f, b)
  BY <1>2, <1>5 DEF Settled
<1>10. Preds(F, b) = Preds(f, b)
  BY <1>1, FinishedShape
<1>11. QED
  BY <1>8, <1>9, <1>10 DEF m, b

\* A finished function is in SSA form.
LEMMA FinalForm ==
  ASSUME NEW f, NEW d, NEW ch, NEW fr, NEW g, NEW sig, NEW prog, NEW cur, NEW F,
         Promoted(f, d, ch, fr, g, sig, prog, cur, F)
  PROVE  /\ SsaForm(F)
         /\ \A s \in Sites(F) : At(F, s).op = "phi" =>
              s[2] \in PhiSites(F, s[1]) /\ At(F, s).to = Preds(F, s[1])
<1>1. /\ f \in Functions /\ DomTree(f, d) /\ Layout(f, g) /\ Finished(f, g, sig, cur, F)
  BY DEF Promoted, Prepared
<1>2. \A s, t \in Sites(F) : At(F, s).res = At(F, t).res => s = t \/ At(F, s).res = NoValue
  BY <1>1, OneSite
<1>3. Results(F) \cap (Params(F) \cup Literals) = {}
  <2>1. Params(F) = Params(f)
    <3>1. F = [params |-> f.params, blocks |-> F.blocks, void |-> f.void, opt |-> f.opt]
      BY <1>1 DEF Finished
    <3>2. F.params = f.params
      BY <3>1
    <3>3. QED
      BY <3>2 DEF Params
  <2>2. ASSUME NEW s \in Sites(F) PROVE At(F, s).res \notin Params(f) \cup Literals
    <3>1. s[1] \in Blocks(f) /\ \E p \in DOMAIN g.blocks[s[1]] : At(F, s).res = g.blocks[s[1]][p].res
      BY <1>1, SiteIs
    <3>2. Base(f, g)
      BY <1>1, LayoutIsBase
    <3>3. QED
      BY <3>1, <3>2 DEF Base
  <2>3. QED
    BY <2>1, <2>2 DEF Results
<1>4. \A s \in Sites(F) :
        LET inst == At(F, s)
        IN  IF inst.op = "phi"
            THEN /\ DOMAIN inst.args = DOMAIN inst.to
                 /\ \A k \in DOMAIN inst.to :
                      DefinedAt(F, inst.args[k], <<inst.to[k], Len(F.blocks[inst.to[k]]) + 1>>)
            ELSE \A v \in ToSet(inst.args) : DefinedAt(F, v, s)
  BY FinalOperands
<1>5. SsaForm(F)
  BY <1>2, <1>3, <1>4 DEF SsaForm
<1>6. QED
  BY <1>1, <1>5, PhisStandFirst

\* That is what the property says.
LEMMA PromotedIsSsa ==
  ASSUME PromotedInv
  PROVE  InSsaForm
<1>1. ASSUME stage = "promoted"
      PROVE  /\ SsaForm(fn)
             /\ \A s \in Sites(fn) : At(fn, s).op = "phi" =>
                  s[2] \in PhiSites(fn, s[1]) /\ At(fn, s).to = Preds(fn, s[1])
  <2>1. PICK g, sig, prog, cur : Promoted(original, idom, Kids, frontier, g, sig, prog, cur, fn)
    BY <1>1 DEF PromotedInv
  <2>2. QED
    BY <2>1, FinalForm
<1>2. QED
  BY <1>1 DEF InSsaForm

-----------------------------------------------------------------------------
(* The value a variable has at each place. *)

\* The values of variables once the walk is over.
LEMMA ValuesAre ==
  ASSUME NEW f, NEW d, NEW ch, NEW fr, NEW g, NEW sig, NEW prog, NEW cur, NEW F,
         Promoted(f, d, ch, fr, g, sig, prog, cur, F),
         NEW b \in Blocks(f), NEW x \in Locals(f)
  PROVE  /\ cur[b][1][x] = IF b = Entry THEN Zero ELSE cur[d[b]][End(g, d[b])][x]
         /\ \A p \in DOMAIN g.blocks[b] : cur[b][p + 1][x] = Given(f, g.blocks[b][p], sig, cur[b][p], x)
         /\ cur[b][End(g, b)][x] = cur[b][Len(g.blocks[b]) + 1][x]
         /\ \A p \in 1 .. Len(g.blocks[b]) + 1 : Fits(f, g, cur[b][p][x], b, p)
<1>1. /\ f \in Functions /\ Layout(f, g) /\ Solved(f, d, g, sig, prog, cur)
      /\ \A c \in Blocks(f) : prog[c] = End(g, c)
  BY DEF Promoted, Prepared
<1> DEFINE n == Len(g.blocks[b])
<1>2. n \in Nat /\ DOMAIN g.blocks[b] = 1 .. n
  BY <1>1, LayoutIs
<1>3. prog[b] = n + 2 /\ prog[b] = End(g, b)
  BY <1>1 DEF End
<1>4. /\ EntryValues(f, d, g, prog, cur) /\ ValuesGiven(f, g, sig, prog, cur)
      /\ EndValues(f, g, prog, cur) /\ ValuesFit(f, g, prog, cur)
  BY <1>1 DEF Solved
<1>5. /\ prog[b] # 0 /\ \A p \in DOMAIN g.blocks[b] : p < prog[b]
      /\ \A p \in 1 .. n + 1 : p \in 1 .. prog[b]
  <2> HIDE DEF n
  <2>1. QED
    BY <1>2, <1>3
<1>6. cur[b][1][x] = IF b = Entry THEN Zero ELSE cur[d[b]][End(g, d[b])][x]
  BY <1>4, <1>5 DEF EntryValues
<1>7. \A p \in DOMAIN g.blocks[b] : cur[b][p + 1][x] = Given(f, g.blocks[b][p], sig, cur[b][p], x)
  BY <1>4, <1>5 DEF ValuesGiven
<1>8. cur[b][End(g, b)][x] = cur[b][Len(g.blocks[b]) + 1][x]
  BY <1>3, <1>4 DEF EndValues
<1>9. \A p \in 1 .. n + 1 : Fits(f, g, cur[b][p][x], b, p)
  BY <1>4, <1>5 DEF ValuesFit
<1>10. QED
  BY <1>6, <1>7, <1>8, <1>9

\* Behind the phis at the head of a block, a variable has the value of its phi or
\* the one it came with.
LEMMA HeadValue ==
  ASSUME NEW f, NEW d, NEW ch, NEW fr, NEW g, NEW sig, NEW prog, NEW cur, NEW F,
         Promoted(f, d, ch, fr, g, sig, prog, cur, F),
         NEW b \in Blocks(f), NEW x \in Locals(f)
  PROVE  cur[b][Shift(f, g, b) + 1][x] = IF HasPhi(f, g, x, b) THEN PhiValue(x, b) ELSE cur[b][1][x]
<1>1. f \in Functions /\ Layout(f, g)
  BY DEF Promoted, Prepared
<1> DEFINE s == Shift(f, g, b)
           Has(p) == \E q \in 1 .. p : g.blocks[b][q] = NewPhi(x, b)
           V(p) == cur[b][p + 1][x] = IF Has(p) THEN PhiValue(x, b) ELSE cur[b][1][x]
           T == {p \in Nat : p <= s => V(p)}
<1>2. s \in Nat /\ \A p \in 1 .. s : p \in DOMAIN g.blocks[b]
  <2> DEFINE m == Len(f.blocks[b])
             n == Len(g.blocks[b])
  <2>1. s \in Nat /\ m \in Nat /\ n \in Nat /\ n = s + m /\ DOMAIN g.blocks[b] = 1 .. n
    BY <1>1, LayoutIs
  <2> HIDE DEF s, m, n
  <2>2. QED
    BY <2>1
<1>3. \A p \in 1 .. s : \E y \in Locals(f) : g.blocks[b][p] = NewPhi(y, b)
  BY <1>1 DEF Layout
<1>4. ASSUME NEW p \in 1 .. s
      PROVE  cur[b][p + 1][x] = IF g.blocks[b][p] = NewPhi(x, b) THEN PhiValue(x, b) ELSE cur[b][p][x]
  <2>1. cur[b][p + 1][x] = Given(f, g.blocks[b][p], sig, cur[b][p], x)
    BY <1>2, ValuesAre
  <2>2. PICK y \in Locals(f) : g.blocks[b][p] = NewPhi(y, b)
    BY <1>3
  <2>3. /\ g.blocks[b][p].op = "phi" /\ g.blocks[b][p].res = PhiValue(y, b)
    BY <2>2 DEF NewPhi
  <2>4. g.blocks[b][p].res[2] = y
    BY <2>3 DEF PhiValue
  <2>5. IsNew(f, g.blocks[b][p])
    BY <2>3 DEF IsNew
  <2>6. Given(f, g.blocks[b][p], sig, cur[b][p], x) = IF y = x THEN PhiValue(x, b) ELSE cur[b][p][x]
    BY <2>3, <2>4, <2>5 DEF Given
  <2>7. g.blocks[b][p] = NewPhi(x, b) <=> y = x
    BY <2>2, <2>4, <2>3 DEF NewPhi, PhiValue
  <2>8. QED
    BY <2>1, <2>6, <2>7
<1>5. 0 \in T
  <2>1. ~Has(0)
    OBVIOUS
  <2>2. V(0)
    <3> HIDE DEF Has
    <3>1. 0 + 1 = 1
      OBVIOUS
    <3>2. QED
      BY <2>1, <3>1
  <2>3. QED
    BY <2>2
<1>6. ASSUME NEW p \in Nat, p \in T PROVE p + 1 \in T
  <2>1. SUFFICES ASSUME p + 1 <= s PROVE V(p + 1)
    OBVIOUS
  <2>2. p + 1 \in 1 .. s /\ p <= s
    <3> HIDE DEF s
    <3>1. QED
      BY <1>2, <2>1
  <2>3. V(p)
    BY <1>6, <2>2
  <2>4. cur[b][(p + 1) + 1][x]
          = IF g.blocks[b][p + 1] = NewPhi(x, b) THEN PhiValue(x, b) ELSE cur[b][p + 1][x]
    BY <1>4, <2>2
  <2>5. Has(p + 1) <=> Has(p) \/ g.blocks[b][p + 1] = NewPhi(x, b)
    <3>1. \A q \in 1 .. p + 1 : q \in 1 .. p \/ q = p + 1
      OBVIOUS
    <3>2. \A q \in 1 .. p : q \in 1 .. p + 1
      OBVIOUS
    <3>3. p + 1 \in 1 .. p + 1
      OBVIOUS
    <3>4. QED
      BY <3>1, <3>2, <3>3, Zenon
  <2> HIDE DEF Has
  <2>6. QED
    BY <2>3, <2>4, <2>5
<1> HIDE DEF T
<1>7. \A p \in Nat : p \in T
  BY <1>5, <1>6, AllNaturals
<1>8. s \in T /\ s <= s
  <2> HIDE DEF s
  <2>1. QED
    BY <1>2, <1>7
<1>9. V(s)
  BY <1>8 DEF T
<1>10. Has(s) <=> HasPhi(f, g, x, b)
  BY DEF HasPhi
<1>11. QED
  BY <1>9, <1>10

\* A block that neither stores to a variable nor has a phi for it leaves it alone.
LEMMA QuietBlock ==
  ASSUME NEW f, NEW d, NEW ch, NEW fr, NEW g, NEW sig, NEW prog, NEW cur, NEW F,
         Promoted(f, d, ch, fr, g, sig, prog, cur, F),
         NEW b \in Blocks(f), NEW x \in Locals(f), ~HasPhi(f, g, x, b), ~Stores(f, x, b)
  PROVE  cur[b][End(g, b)][x] = cur[b][1][x]
<1>1. f \in Functions /\ Layout(f, g)
  BY DEF Promoted, Prepared
<1> DEFINE n == Len(g.blocks[b])
           T == {p \in Nat : p <= n => cur[b][p + 1][x] = cur[b][1][x]}
<1>2. n \in Nat /\ DOMAIN g.blocks[b] = 1 .. n
  BY <1>1, LayoutIs
<1>3. ASSUME NEW p \in DOMAIN g.blocks[b]
      PROVE  cur[b][p + 1][x] = cur[b][p][x]
  <2>1. cur[b][p + 1][x] = Given(f, g.blocks[b][p], sig, cur[b][p], x)
    BY ValuesAre
  <2>2. CASE p <= Shift(f, g, b)
    <3>1. PICK y \in Locals(f) : g.blocks[b][p] = NewPhi(y, b)
      BY <1>1, <2>2, LayoutIs
    <3>2. /\ g.blocks[b][p].op = "phi" /\ g.blocks[b][p].res = PhiValue(y, b)
      BY <3>1 DEF NewPhi
    <3>3. g.blocks[b][p].res[2] = y
      BY <3>2 DEF PhiValue
    <3>4. y # x
      <4>1. p \in 1 .. Shift(f, g, b)
        <5> DEFINE s == Shift(f, g, b)
        <5>1. s \in Nat /\ p <= s /\ p \in 1 .. n /\ n \in Nat
          BY <1>1, <1>2, <2>2, LayoutIs
        <5> HIDE DEF s, n
        <5>2. p \in 1 .. s
          BY <5>1
        <5>3. QED
          BY <5>2 DEF s
      <4>2. QED
        BY <3>1, <4>1 DEF HasPhi
    <3>5. QED
      BY <2>1, <3>2, <3>3, <3>4 DEF Given
  <2>3. CASE ~(p <= Shift(f, g, b))
    <3>1. PICK i \in DOMAIN f.blocks[b] : p = Shift(f, g, b) + i
      BY <1>1, <2>3, LayoutIs
    <3>2. g.blocks[b][p] = f.blocks[b][i] /\ ~IsNew(f, g.blocks[b][p])
      BY <1>1, <3>1, LayoutIs
    <3>3. ~(g.blocks[b][p].op = "set" /\ g.blocks[b][p].args[1] = x)
      BY <3>2 DEF Stores
    <3>4. QED
      BY <2>1, <3>2, <3>3 DEF Given
  <2>4. QED
    BY <2>2, <2>3
<1>4. 0 \in T
  OBVIOUS
<1>5. ASSUME NEW p \in Nat, p \in T PROVE p + 1 \in T
  <2>1. SUFFICES ASSUME p + 1 <= n PROVE cur[b][(p + 1) + 1][x] = cur[b][1][x]
    OBVIOUS
  <2>2. p + 1 \in DOMAIN g.blocks[b] /\ p <= n
    <3> HIDE DEF n
    <3>1. QED
      BY <1>2, <2>1
  <2>3. QED
    BY <1>3, <1>5, <2>2
<1> HIDE DEF T
<1>6. \A p \in Nat : p \in T
  BY <1>4, <1>5, AllNaturals
<1>7. n \in T /\ n <= n
  <2> HIDE DEF n
  <2>1. QED
    BY <1>2, <1>6
<1>8. cur[b][n + 1][x] = cur[b][1][x]
  BY <1>7 DEF T
<1>9. cur[b][End(g, b)][x] = cur[b][n + 1][x]
  BY ValuesAre
<1>10. QED
  BY <1>8, <1>9

\* Where there is no phi for a variable, every edge brings the value it has at the
\* end of the immediate dominator.
LEMMA NoPhiNeeded ==
  ASSUME NEW f, NEW d, NEW ch, NEW fr, NEW g, NEW sig, NEW prog, NEW cur, NEW F,
         Promoted(f, d, ch, fr, g, sig, prog, cur, F),
         NEW b \in Blocks(f), NEW c \in Blocks(f), c \in Succs(f, b), c # Entry,
         NEW x \in Locals(f), ~HasPhi(f, g, x, c)
  PROVE  cur[b][End(g, b)][x] = cur[d[c]][End(g, d[c])][x]
<1>1. /\ f \in Functions /\ DomTree(f, d) /\ FrontiersListed(f, fr)
      /\ Layout(f, g) /\ ClosedBut(f, g, fr, x, {})
  BY DEF Promoted, Prepared
<1> DEFINE a == d[c]
           At1(e) == cur[e][End(g, e)][x]
           S == {e \in Blocks(f) : (a = e \/ StrictlyDominates(f, a, e))
                                   /\ (e = b \/ StrictlyDominates(f, e, b)) => At1(e) = At1(a)}
<1>2. d \in [Blocks(f) -> Blocks(f)] /\ a \in Blocks(f) /\ Entry \in Blocks(f)
  BY <1>1 DEF DomTree
<1>3. StrictlyDominates(f, a, c)
  BY <1>1, <1>2 DEF DomTree
<1>4. Entry \in S
  BY <1>1, <1>2 DEF DomTree
<1>5. ASSUME NEW e \in Blocks(f) \ {Entry}, d[e] \in S PROVE e \in S
  <2>1. SUFFICES ASSUME a = e \/ StrictlyDominates(f, a, e), e = b \/ StrictlyDominates(f, e, b), a # e
                 PROVE  At1(e) = At1(a)
    OBVIOUS
  <2>2. d[e] \in Blocks(f)
    BY <1>2
  <2>3. StrictlyDominates(f, d[e], e)
    BY <1>1, <2>2 DEF DomTree
  <2>4. a = d[e] \/ StrictlyDominates(f, a, d[e])
    BY <1>1, <1>2, <2>1 DEF DomTree
  <2>5. StrictlyDominates(f, d[e], b)
    BY <1>1, <2>1, <2>2, <2>3 DEF DomTree
  <2>6. At1(d[e]) = At1(a)
    BY <1>5, <2>4, <2>5
  <2>7. ~StrictlyDominates(f, e, c)
    <3>1. ASSUME StrictlyDominates(f, e, c) PROVE FALSE
      <4>1. e = a \/ StrictlyDominates(f, e, a)
        BY <1>1, <3>1 DEF DomTree
      <4>2. StrictlyDominates(f, a, a)
        BY <1>1, <1>2, <2>1, <4>1 DEF DomTree
      <4>3. QED
        BY <1>1, <1>2, <4>2 DEF DomTree
    <3>2. QED
      BY <3>1
  <2>8. c \in fr[e]
    BY <1>1, <2>1, <2>7 DEF FrontiersListed
  <2>9. ~Stores(f, x, e) /\ ~HasPhi(f, g, x, e)
    BY <1>1, <2>8 DEF ClosedBut
  <2>10. At1(e) = cur[e][1][x]
    BY <2>9, QuietBlock
  <2>11. cur[e][1][x] = At1(d[e])
    BY ValuesAre
  <2>12. QED
    BY <2>6, <2>10, <2>11
<1>6. S = Blocks(f)
  <2>1. S \in SUBSET Blocks(f)
    OBVIOUS
  <2>2. \A e \in Blocks(f) \ {Entry} : d[e] \in S => e \in S
    BY <1>5
  <2> HIDE DEF S
  <2>3. QED
    BY <1>1, <1>4, <2>1, <2>2 DEF DomTree
<1>7. a = b \/ StrictlyDominates(f, a, b)
  BY <1>1, <1>2, <1>3 DEF DomTree
<1>8. b \in S
  BY <1>6
<1>9. QED
  BY <1>7, <1>8

-----------------------------------------------------------------------------
(* What an instruction of the original function has become. *)

\* What of the original block is kept.
KeptBefore(f, b) == {i \in DOMAIN f.blocks[b] : f.blocks[b][i].op \notin {"load", "set", "alloca"}}

\* The new phis of a block stay, so they shift what is behind them.
LEMMA SlotsShifted ==
  ASSUME NEW f \in Functions, NEW g, Layout(f, g), NEW b \in Blocks(f)
  PROVE  \A i \in 0 .. Len(f.blocks[b]) :
           Rank(KeptPlaces(g, b), Shift(f, g, b) + i) = Shift(f, g, b) + Rank(KeptBefore(f, b), i)
<1> DEFINE P == KeptPlaces(g, b)
           Q == KeptBefore(f, b)
           s == Shift(f, g, b)
           m == Len(f.blocks[b])
           n == Len(g.blocks[b])
<1>1. /\ m \in Nat /\ n \in Nat /\ s \in Nat /\ n = s + m
      /\ DOMAIN f.blocks[b] = 1 .. m /\ DOMAIN g.blocks[b] = 1 .. n
  BY LayoutIs
<1>2. P \in SUBSET (1 .. n) /\ Q \in SUBSET (1 .. m)
  BY <1>1 DEF KeptPlaces, KeptBefore
<1>3. ASSUME NEW p \in 1 .. s PROVE p \in P
  <2>1. \E x \in Locals(f) : g.blocks[b][p] = NewPhi(x, b)
    BY DEF Layout
  <2>2. g.blocks[b][p].op = "phi"
    BY <2>1 DEF NewPhi
  <2>3. p \in DOMAIN g.blocks[b]
    <3> HIDE DEF s, m, n
    <3>1. QED
      BY <1>1
  <2>4. QED
    BY <2>2, <2>3 DEF KeptPlaces
<1>4. ASSUME NEW i \in 1 .. m PROVE s + i \in P <=> i \in Q
  <2>1. i \in DOMAIN f.blocks[b]
    BY <1>1
  <2>2. s + i \in DOMAIN g.blocks[b] /\ g.blocks[b][s + i] = f.blocks[b][i]
    BY <2>1, LayoutIs
  <2>3. QED
    BY <2>1, <2>2 DEF KeptPlaces, KeptBefore
<1> HIDE DEF P, Q, s, m, n
<1>5. /\ Rank(P, 0) = 0
      /\ \A p \in 1 .. n : Rank(P, p) = IF p \in P THEN Rank(P, p - 1) + 1 ELSE Rank(P, p - 1)
      /\ \A p \in 0 .. n : Rank(P, p) \in 0 .. Cardinality(P)
  BY <1>1, <1>2, RankIs
<1>6. /\ Rank(Q, 0) = 0
      /\ \A p \in 1 .. m : Rank(Q, p) = IF p \in Q THEN Rank(Q, p - 1) + 1 ELSE Rank(Q, p - 1)
      /\ \A p \in 0 .. m : Rank(Q, p) \in 0 .. Cardinality(Q)
  BY <1>1, <1>2, RankIs
<1> DEFINE T == {p \in Nat : p <= s => Rank(P, p) = p}
<1>7. \A p \in Nat : p \in T
  <2>1. 0 \in T
    BY <1>5
  <2>2. ASSUME NEW p \in Nat, p \in T PROVE p + 1 \in T
    <3>1. SUFFICES ASSUME p + 1 <= s PROVE Rank(P, p + 1) = p + 1
      OBVIOUS
    <3>2. p + 1 \in 1 .. s /\ p + 1 \in 1 .. n /\ (p + 1) - 1 = p /\ p <= s
      BY <1>1, <3>1
    <3>3. p + 1 \in P
      BY <1>3, <3>2
    <3>4. Rank(P, p + 1) = Rank(P, (p + 1) - 1) + 1
      BY <1>5, <3>2, <3>3
    <3>5. QED
      BY <2>2, <3>2, <3>4
  <2> HIDE DEF T
  <2>3. QED
    BY <2>1, <2>2, AllNaturals
<1>8. Rank(P, s) = s
  <2>1. s \in T /\ s <= s
    <3> HIDE DEF T
    <3>1. QED
      BY <1>1, <1>7
  <2>2. QED
    BY <2>1
<1> DEFINE U == {i \in Nat : i <= m => Rank(P, s + i) = s + Rank(Q, i)}
<1>9. \A i \in Nat : i \in U
  <2>1. 0 \in U
    <3>1. s + 0 = s /\ s + Rank(Q, 0) = s
      BY <1>1, <1>6
    <3>2. QED
      BY <1>8, <3>1
  <2>2. ASSUME NEW i \in Nat, i \in U PROVE i + 1 \in U
    <3>1. SUFFICES ASSUME i + 1 <= m PROVE Rank(P, s + (i + 1)) = s + Rank(Q, i + 1)
      OBVIOUS
    <3>2. /\ i + 1 \in 1 .. m /\ s + (i + 1) \in 1 .. n /\ (s + (i + 1)) - 1 = s + i
          /\ (i + 1) - 1 = i /\ i <= m /\ i \in 0 .. m
      BY <1>1, <3>1
    <3>3. Rank(P, s + i) = s + Rank(Q, i)
      BY <2>2, <3>2
    <3>4. Rank(P, s + (i + 1)) = IF s + (i + 1) \in P THEN Rank(P, s + i) + 1 ELSE Rank(P, s + i)
      BY <1>5, <3>2
    <3>5. Rank(Q, i + 1) = IF i + 1 \in Q THEN Rank(Q, i) + 1 ELSE Rank(Q, i)
      BY <1>6, <3>2
    <3>6. s + (i + 1) \in P <=> i + 1 \in Q
      BY <1>4, <3>2
    <3>7. Rank(Q, i) \in Int /\ s \in Int
      <4>1. Rank(Q, i) \in 0 .. Cardinality(Q)
        BY <1>6, <3>2
      <4>2. QED
        BY <1>1, <4>1
    <3>8. QED
      BY <3>3, <3>4, <3>5, <3>6, <3>7
  <2> HIDE DEF U
  <2>3. QED
    BY <2>1, <2>2, AllNaturals
<1>10. ASSUME NEW i \in 0 .. m PROVE Rank(P, s + i) = s + Rank(Q, i)
  <2>1. i \in Nat /\ i <= m
    BY <1>1
  <2>2. i \in U
    BY <1>9, <2>1
  <2>3. QED
    BY <2>1, <2>2
<1>11. QED
  BY <1>10 DEF P, Q, s, m

\* The run skips what is erased, and that alone.
LEMMA ErasedBefore ==
  ASSUME PromotableListed(original, promotable), original \in Functions,
         NEW b \in Blocks(original), NEW i \in DOMAIN original.blocks[b]
  PROVE  Erased(original.blocks[b][i]) <=> i \notin KeptBefore(original, b)
<1> DEFINE inst == original.blocks[b][i]
<1>1. Shapely(original, original, b, i)
  BY FunctionFacts
<1>2. inst.op \in {"load", "set"} => inst.args[1] \in Locals(original)
  BY <1>1 DEF Shapely
<1>3. inst.op = "alloca" => inst.res \in Locals(original)
  BY <1>1 DEF Shapely
<1>4. Local(inst) <=> inst.op \in {"load", "set"}
  BY <1>2, LocalIs
<1>5. inst.op = "alloca" => inst.res \in ToSet(promotable)
  BY <1>3, PromotableAre
<1>6. QED
  BY <1>4, <1>5 DEF Erased, KeptBefore

\* The run compares an instruction to the one it has become.
LEMMA CounterpartIs ==
  ASSUME PromotableListed(original, promotable), original \in Functions,
         NEW g, Layout(original, g), NEW sig, NEW cur, Finished(original, g, sig, cur, fn),
         NEW b \in Blocks(original), NEW i \in DOMAIN original.blocks[b]
  PROVE  Counterpart(<<b, i>>) = fn.blocks[b][Slot(g, b, Shift(original, g, b) + i)]
<1> DEFINE o == original.blocks[b]
           kept(upto) == Cardinality({j \in 1 .. upto : ~Erased(o[j])})
           P == KeptPlaces(g, b)
           Q == KeptBefore(original, b)
           s == Shift(original, g, b)
           m == Len(o)
           n == Len(g.blocks[b])
           N == Len(fn.blocks[b])
<1>1. /\ m \in Nat /\ n \in Nat /\ s \in Nat /\ n = s + m
      /\ DOMAIN o = 1 .. m /\ DOMAIN g.blocks[b] = 1 .. n
  BY LayoutIs
<1>2. Counterpart(<<b, i>>) = fn.blocks[b][N - kept(m) + kept(i)]
  BY DEF Counterpart
<1>3. ASSUME NEW u \in 0 .. m PROVE kept(u) = Rank(Q, u)
  <2>1. \A j \in 1 .. m : ~Erased(o[j]) <=> j \in Q
    BY <1>1, ErasedBefore
  <2>2. Q \in SUBSET (1 .. m)
    BY <1>1 DEF KeptBefore
  <2> HIDE DEF m, Q, o
  <2>3. {j \in 1 .. u : ~Erased(o[j])} = {j \in Q : j <= u}
    <3>1. ASSUME NEW j PROVE j \in 1 .. u /\ ~Erased(o[j]) <=> j \in Q /\ j <= u
      <4>1. j \in 1 .. u => j \in 1 .. m /\ j <= u
        BY <1>1
      <4>2. j \in Q /\ j <= u => j \in 1 .. u
        <5>1. j \in Q => j \in 1 .. m
          BY <2>2
        <5>2. QED
          BY <1>1, <5>1
      <4>3. QED
        BY <2>1, <4>1, <4>2
    <3>2. QED
      BY <3>1
  <2>4. QED
    BY <2>3 DEF Rank
<1>4. \A u \in 0 .. m : Rank(P, s + u) = s + Rank(Q, u)
  BY SlotsShifted
<1>5. N = Cardinality(P) /\ N \in Nat
  BY DEF Finished, BlockDone
<1>6. Rank(P, n) = N
  <2>1. P \in SUBSET (1 .. n)
    BY <1>1 DEF KeptPlaces
  <2> HIDE DEF P, n, N
  <2>2. Rank(P, n) = Cardinality(P)
    BY <1>1, <2>1, RankIs
  <2>3. QED
    BY <1>5, <2>2
<1>7. /\ \A u \in 0 .. m : Rank(Q, u) \in 0 .. Cardinality(Q)
      /\ Cardinality(Q) \in Nat
  <2>1. Q \in SUBSET (1 .. m)
    BY <1>1 DEF KeptBefore
  <2> HIDE DEF Q, m
  <2>2. QED
    BY <1>1, <2>1, RankIs
<1>8. Slot(g, b, s + i) = Rank(P, s + i)
  BY DEF Slot
<1>9. i \in 1 .. m
  BY <1>1
<1> HIDE DEF P, Q, s, m, n, N, kept, o
<1>10. i \in 0 .. m /\ m \in 0 .. m
  BY <1>1, <1>9
<1>11. N - kept(m) + kept(i) = Rank(P, s + i)
  <2>1. kept(m) = Rank(Q, m) /\ kept(i) = Rank(Q, i)
    BY <1>3, <1>10
  <2>2. Rank(P, s + m) = s + Rank(Q, m) /\ Rank(P, s + i) = s + Rank(Q, i)
    BY <1>4, <1>10
  <2>3. Rank(Q, m) \in Int /\ Rank(Q, i) \in Int
    <3>1. Rank(Q, m) \in 0 .. Cardinality(Q) /\ Rank(Q, i) \in 0 .. Cardinality(Q)
      BY <1>7, <1>10
    <3>2. QED
      BY <1>7, <3>1
  <2>4. N = s + Rank(Q, m)
    BY <1>1, <1>6, <2>2
  <2>5. QED
    BY <1>1, <2>1, <2>2, <2>3, <2>4
<1>12. QED
  BY <1>2, <1>8, <1>11 DEF s

-----------------------------------------------------------------------------
(* The two functions run side by side. *)

\* Value v is that of a phi of b.
PhiHere(f, b, v) == \E i \in DOMAIN f.blocks[b] : f.blocks[b][i].op = "phi" /\ f.blocks[b][i].res = v

\* V are the values of f, W those of the function it has become, at a place of g:
\* a variable holds what the renaming has for it, and a value of f is that of what
\* it has been replaced by.
Agree(f, g, sig, cur, b, p, V, W) ==
  /\ \A x \in Locals(f) : V[x] = Value(W, cur[b][p][x])
  /\ \A v \in (Literals \cup SsaValues(f)) \ Locals(f) :
       Available(f, g, v, b, p) \/ PhiHere(f, b, v) => Value(V, v) = Value(W, sig[v])

\* An original instruction behind the phis put before it.
LEMMA PlaceIs ==
  ASSUME NEW f \in Functions, NEW g, Layout(f, g), NEW b \in Blocks(f), NEW i \in DOMAIN f.blocks[b],
         NEW p, p = Shift(f, g, b) + i
  PROVE  /\ p \in DOMAIN g.blocks[b] /\ p \in Int /\ p \in 1 .. Len(g.blocks[b]) + 1
         /\ p + 1 \in 1 .. Len(g.blocks[b]) + 1 /\ p + 1 = Shift(f, g, b) + (i + 1)
         /\ g.blocks[b][p] = f.blocks[b][i] /\ ~IsNew(f, g.blocks[b][p])
         /\ Shapely(f, g, b, p) /\ Supplied(f, g, b, p) /\ Record(g.blocks[b][p])
<1> DEFINE s == Shift(f, g, b)
           m == Len(f.blocks[b])
           n == Len(g.blocks[b])
<1>1. /\ m \in Nat /\ n \in Nat /\ s \in Nat /\ n = s + m
      /\ DOMAIN f.blocks[b] = 1 .. m /\ DOMAIN g.blocks[b] = 1 .. n
  BY LayoutIs
<1>2. /\ p \in DOMAIN g.blocks[b]
      /\ g.blocks[b][p] = f.blocks[b][i] /\ ~IsNew(f, g.blocks[b][p])
  BY LayoutIs
<1>3. Base(f, g)
  BY LayoutIsBase
<1>4. Shapely(f, g, b, p) /\ Supplied(f, g, b, p) /\ Record(g.blocks[b][p])
  BY <1>2, <1>3 DEF Base
<1>5. p \in Int /\ p \in 1 .. n + 1 /\ p + 1 \in 1 .. n + 1 /\ p + 1 = s + (i + 1)
  <2>1. p = s + i
    OBVIOUS
  <2> HIDE DEF s, m, n
  <2>2. QED
    BY <1>1, <1>2, <2>1
<1>6. QED
  BY <1>2, <1>4, <1>5

\* Nothing is available where it is computed.
LEMMA NotYet ==
  ASSUME NEW f, NEW d, DomTree(f, d), NEW g, Base(f, g), NEW b \in Blocks(f),
         NEW p \in DOMAIN g.blocks[b], NEW v, Available(f, g, v, b, p), g.blocks[b][p].res # NoValue
  PROVE  v # g.blocks[b][p].res
<1>1. SUFFICES ASSUME v = g.blocks[b][p].res PROVE FALSE
  OBVIOUS
<1>2. v \notin Params(f) \cup Literals
  BY <1>1 DEF Base
<1>3. PICK c, q : /\ c \in Blocks(f) /\ q \in DOMAIN g.blocks[c]
                  /\ g.blocks[c][q].res = v /\ Ahead(f, c, q, b, p)
  BY <1>2 DEF Available
<1>4. c = b /\ q = p
  BY <1>1, <1>3 DEF Base
<1>5. ~(p < p)
  <2>1. p \in Int
    BY DEF Base
  <2>2. QED
    BY <2>1
<1>6. ~StrictlyDominates(f, b, b)
  BY DEF DomTree
<1>7. QED
  BY <1>3, <1>4, <1>5, <1>6 DEF Ahead

\* What is new behind an instruction is its result.
LEMMA AvailableNext ==
  ASSUME NEW f, NEW g, Base(f, g), NEW b \in Blocks(f),
         NEW p \in DOMAIN g.blocks[b], NEW v, Available(f, g, v, b, p + 1)
  PROVE  Available(f, g, v, b, p) \/ (v = g.blocks[b][p].res /\ v # NoValue)
<1>1. CASE v \in Literals \cup Params(f)
  BY <1>1 DEF Available
<1>2. CASE v \notin Literals \cup Params(f)
  <2>1. PICK c, q :
          c \in Blocks(f) /\
          q \in DOMAIN g.blocks[c] /\ g.blocks[c][q].res = v /\ Ahead(f, c, q, b, p + 1)
    BY <1>2 DEF Available
  <2>2. v # NoValue
    BY <1>2 DEF Available
  <2>3. CASE StrictlyDominates(f, c, b)
    BY <2>1, <2>2, <2>3 DEF Available, Ahead
  <2>4. CASE c = b /\ q < p + 1
    <3>1. q < p \/ q = p
      <4>1. p \in Int /\ q \in Int
        BY <2>1, <2>4 DEF Base
      <4>2. QED
        BY <2>4, <4>1
    <3>2. QED
      BY <2>1, <2>2, <2>4, <3>1 DEF Available, Ahead
  <2>5. QED
    BY <2>1, <2>3, <2>4 DEF Ahead
<1>3. QED
  BY <1>1, <1>2

\* Every value of the original is a name.
LEMMA NamesAre ==
  ASSUME NEW f \in Functions, NEW g, Layout(f, g), NEW v \in Literals \cup SsaValues(f)
  PROVE  v \in Names(f, g)
<1>1. CASE v \in Literals \cup Params(f)
  BY <1>1 DEF Names
<1>2. CASE v \in Results(f)
  <2>1. PICK s \in Sites(f) : At(f, s).res = v
    BY <1>2 DEF Results
  <2>2. s[1] \in Blocks(f) /\ s[2] \in DOMAIN f.blocks[s[1]] /\ f.blocks[s[1]][s[2]].res = v
    BY <2>1, SitesAre
  <2>3. PICK b \in Blocks(f) : b = s[1]
    BY <2>2
  <2>4. PICK i \in DOMAIN f.blocks[b] : i = s[2]
    BY <2>2, <2>3
  <2>5. /\ Shift(f, g, b) + i \in DOMAIN g.blocks[b]
        /\ g.blocks[b][Shift(f, g, b) + i] = f.blocks[b][i]
    BY LayoutIs
  <2>6. QED
    BY <2>2, <2>3, <2>4, <2>5 DEF Names
<1>3. QED
  BY <1>1, <1>2 DEF SsaValues

\* What the result of the instruction at p of b has been replaced by.
Image(g, sig, cur, b, p) ==
  IF g.blocks[b][p].op = "load"
  THEN sig[g.blocks[b][p].res] = cur[b][p][g.blocks[b][p].args[1]]
  ELSE g.blocks[b][p].res # NoValue => sig[g.blocks[b][p].res] = g.blocks[b][p].res

\* What a value has been replaced by.
LEMMA ImagesAre ==
  ASSUME NEW f, NEW d, NEW ch, NEW fr, NEW g, NEW sig, NEW prog, NEW cur, NEW F,
         Promoted(f, d, ch, fr, g, sig, prog, cur, F)
  PROVE  /\ \A v \in Literals \cup Params(f) : sig[v] = v
         /\ \A b \in Blocks(f) : \A p \in DOMAIN g.blocks[b] : Image(g, sig, cur, b, p)
         /\ \A b \in Blocks(f) : \A p \in 1 .. Len(g.blocks[b]) + 1 : \A v :
              v \notin Locals(f) /\ Available(f, g, v, b, p) => Fits(f, g, sig[v], b, p)
<1>1. /\ f \in Functions /\ DomTree(f, d) /\ Layout(f, g) /\ Solved(f, d, g, sig, prog, cur)
      /\ \A c \in Blocks(f) : prog[c] = End(g, c)
  BY DEF Promoted, Prepared
<1>2. Base(f, g)
  BY <1>1, LayoutIsBase
<1>3. Renamed(f, g, sig, prog) /\ LoadsRead(f, g, sig, prog, cur)
  BY <1>1 DEF Solved
<1>4. ASSUME NEW v \in Literals \cup Params(f) PROVE sig[v] = v
  <2>1. v \in Names(f, g)
    BY DEF Names
  <2>2. QED
    BY <1>2, <1>3, <2>1 DEF Renamed, Base
<1>5. ASSUME NEW b \in Blocks(f)
      PROVE  /\ \A p \in DOMAIN g.blocks[b] : p < prog[b]
             /\ \A p \in 1 .. Len(g.blocks[b]) + 1 : p \in 1 .. prog[b]
  <2> DEFINE n == Len(g.blocks[b])
  <2>1. n \in Nat /\ DOMAIN g.blocks[b] = 1 .. n /\ prog[b] = n + 2
    BY <1>1, LayoutIs DEF End
  <2>2. (\A p \in DOMAIN g.blocks[b] : p < prog[b]) /\ \A p \in 1 .. n + 1 : p \in 1 .. prog[b]
    <3> HIDE DEF n
    <3>1. QED
      BY <2>1
  <2>3. QED
    BY <2>2
<1>6. ASSUME NEW b \in Blocks(f), NEW p \in DOMAIN g.blocks[b]
      PROVE  Image(g, sig, cur, b, p)
  <2>1. CASE g.blocks[b][p].op = "load"
    BY <1>3, <1>5, <2>1 DEF LoadsRead, Image
  <2>2. CASE g.blocks[b][p].op # "load"
    <3>1. SUFFICES ASSUME g.blocks[b][p].res # NoValue, sig[g.blocks[b][p].res] # g.blocks[b][p].res
                   PROVE FALSE
      BY <2>2 DEF Image
    <3>2. g.blocks[b][p].res \in Names(f, g)
      BY DEF Names
    <3>3. PICK c, q :
            c \in Blocks(f) /\
            q \in DOMAIN g.blocks[c] /\ g.blocks[c][q].op = "load"
            /\ g.blocks[c][q].res = g.blocks[b][p].res
      BY <1>3, <3>1, <3>2 DEF Renamed
    <3>4. c = b /\ q = p
      BY <1>2, <3>1, <3>3 DEF Base
    <3>5. QED
      BY <2>2, <3>3, <3>4
  <2>3. QED
    BY <2>1, <2>2 DEF Image
<1>7. ASSUME NEW b \in Blocks(f), NEW p \in 1 .. Len(g.blocks[b]) + 1, NEW v,
             v \notin Locals(f), Available(f, g, v, b, p)
      PROVE  Fits(f, g, sig[v], b, p)
  BY <1>1, <1>2, <1>5, <1>7, OperandsFit
<1>8. QED
  BY <1>4, <1>6, <1>7

\* A load's result has been replaced, and any other result stands for itself.
LEMMA LoadImage ==
  ASSUME NEW f, NEW d, NEW ch, NEW fr, NEW g, NEW sig, NEW prog, NEW cur, NEW F,
         Promoted(f, d, ch, fr, g, sig, prog, cur, F),
         NEW b \in Blocks(f), NEW p \in DOMAIN g.blocks[b], NEW inst, inst = g.blocks[b][p],
         inst.op = "load"
  PROVE  sig[inst.res] = cur[b][p][inst.args[1]]
<1>1. Image(g, sig, cur, b, p)
  BY ImagesAre
<1>2. QED
  BY <1>1 DEF Image

LEMMA OwnImage ==
  ASSUME NEW f, NEW d, NEW ch, NEW fr, NEW g, NEW sig, NEW prog, NEW cur, NEW F,
         Promoted(f, d, ch, fr, g, sig, prog, cur, F),
         NEW b \in Blocks(f), NEW p \in DOMAIN g.blocks[b], NEW inst, inst = g.blocks[b][p],
         inst.op # "load", inst.res # NoValue
  PROVE  sig[inst.res] = inst.res
<1>1. Image(g, sig, cur, b, p)
  BY ImagesAre
<1>2. QED
  BY <1>1 DEF Image

\* What is used instead of a value is computed by an instruction that stays.
LEMMA FitsKept ==
  ASSUME NEW f \in Functions, NEW g, Layout(f, g), NEW v, NEW b, NEW p, Fits(f, g, v, b, p)
  PROVE  \/ v \in Literals \cup Params(f)
         \/ v # NoValue /\ \E c \in Blocks(f) : \E q \in KeptPlaces(g, c) :
                             g.blocks[c][q].res = v /\ Ahead(f, c, q, b, p)
<1>1. Available(f, g, v, b, p) /\ Lasting(f, g, v)
  BY DEF Fits
<1>2. CASE v \notin Literals \cup Params(f)
  <2>1. v # NoValue
    BY <1>1, <1>2 DEF Available
  <2>2. PICK c, q :
          c \in Blocks(f) /\
          q \in DOMAIN g.blocks[c] /\ g.blocks[c][q].res = v /\ Ahead(f, c, q, b, p)
    BY <1>1, <1>2 DEF Available
  <2>3. Base(f, g)
    BY LayoutIsBase
  <2>4. g.blocks[c][q].op \notin {"load", "alloca"}
    BY <1>1, <2>1, <2>2 DEF Lasting
  <2>5. ASSUME g.blocks[c][q].op = "set" PROVE FALSE
    <3>1. ~IsNew(f, g.blocks[c][q])
      BY <2>5 DEF IsNew
    <3>2. Shapely(f, g, c, q)
      BY <2>2, <2>3, <3>1 DEF Base
    <3>3. QED
      BY <2>1, <2>2, <2>5, <3>2 DEF Shapely
  <2>6. q \in KeptPlaces(g, c)
    BY <2>2, <2>4, <2>5 DEF KeptPlaces
  <2>7. QED
    BY <2>1, <2>2, <2>6
<1>3. QED
  BY <1>2

\* What may stand for a variable is a value of the finished function.
LEMMA FinalValues ==
  ASSUME NEW f \in Functions, NEW g, Layout(f, g), NEW sig, NEW cur, NEW F,
         Finished(f, g, sig, cur, F)
  PROVE  /\ Params(F) = Params(f)
         /\ \A b \in Blocks(f) : \A p \in KeptPlaces(g, b) :
              g.blocks[b][p].res # NoValue => g.blocks[b][p].res \in SsaValues(F)
         /\ \A v : \A b, p : Fits(f, g, v, b, p) => v \in Literals \cup SsaValues(F)
<1>1. Params(F) = Params(f)
  <2>1. F = [params |-> f.params, blocks |-> F.blocks, void |-> f.void, opt |-> f.opt]
    BY DEF Finished
  <2>2. F.params = f.params
    BY <2>1
  <2>3. QED
    BY <2>2 DEF Params
<1>2. ASSUME NEW b \in Blocks(f), NEW p \in KeptPlaces(g, b), g.blocks[b][p].res # NoValue
      PROVE  g.blocks[b][p].res \in SsaValues(F)
  BY <1>2, SiteOf DEF SsaValues
<1>3. ASSUME NEW v, NEW b, NEW p, Fits(f, g, v, b, p)
      PROVE  v \in Literals \cup SsaValues(F)
  <2>1. \/ v \in Literals \cup Params(f)
        \/ v # NoValue /\ \E c \in Blocks(f) : \E q \in KeptPlaces(g, c) : g.blocks[c][q].res = v
    BY <1>3, FitsKept
  <2>2. QED
    BY <1>1, <1>2, <2>1 DEF SsaValues
<1>4. QED
  BY <1>1, <1>2, <1>3

\* Operands are values of the function.
LEMMA OperandOf ==
  ASSUME NEW f \in Functions, NEW b \in Blocks(f), NEW i \in DOMAIN f.blocks[b],
         NEW k \in DOMAIN f.blocks[b][i].args
  PROVE  f.blocks[b][i].args[k] \in Literals \cup SsaValues(f)
<1> DEFINE v == f.blocks[b][i].args[k]
<1>1. Supplied(f, f, b, i)
  BY FunctionFacts
<1>2. \E c, q : Available(f, f, v, c, q)
  BY <1>1 DEF Supplied
<1>3. CASE v \notin Literals \cup Params(f)
  <2>1. v # NoValue /\ \E c \in Blocks(f) : \E q \in DOMAIN f.blocks[c] : f.blocks[c][q].res = v
    BY <1>2, <1>3 DEF Available
  <2>2. PICK c, q : c \in Blocks(f) /\ q \in DOMAIN f.blocks[c] /\ f.blocks[c][q].res = v
    BY <2>1
  <2>4. <<c, q>> \in Sites(f) /\ At(f, <<c, q>>).res = v
    BY <2>2, SitesAre
  <2>5. v \in Results(f)
    BY <2>1, <2>4 DEF Results
  <2>3. QED
    BY <2>5 DEF SsaValues
<1>4. QED
  BY <1>3 DEF SsaValues

\* What a variable has behind an original instruction.
LEMMA StaysAt ==
  ASSUME NEW f, NEW d, NEW ch, NEW fr, NEW g, NEW sig, NEW prog, NEW cur, NEW F,
         Promoted(f, d, ch, fr, g, sig, prog, cur, F),
         NEW b \in Blocks(f), NEW i \in DOMAIN f.blocks[b], NEW p, p = Shift(f, g, b) + i,
         NEW x \in Locals(f)
  PROVE  cur[b][p + 1][x] = IF f.blocks[b][i].op = "set" /\ f.blocks[b][i].args[1] = x
                            THEN sig[f.blocks[b][i].args[2]] ELSE cur[b][p][x]
<1>1. f \in Functions /\ Layout(f, g)
  BY DEF Promoted, Prepared
<1>2. p \in DOMAIN g.blocks[b] /\ g.blocks[b][p] = f.blocks[b][i] /\ ~IsNew(f, g.blocks[b][p])
  BY <1>1, PlaceIs
<1>3. cur[b][p + 1][x] = Given(f, g.blocks[b][p], sig, cur[b][p], x)
  BY <1>2, ValuesAre
<1>4. QED
  BY <1>2, <1>3 DEF Given

\* A load: the value it had is what it has been replaced by.
LEMMA LoadAgrees ==
  ASSUME NEW f, NEW d, NEW ch, NEW fr, NEW g, NEW sig, NEW prog, NEW cur, NEW F,
         Promoted(f, d, ch, fr, g, sig, prog, cur, F),
         NEW b \in Blocks(f), NEW i \in DOMAIN f.blocks[b], NEW p, p = Shift(f, g, b) + i,
         NEW V, DOMAIN V = SsaValues(f), NEW W, Agree(f, g, sig, cur, b, p, V, W),
         NEW inst, inst = f.blocks[b][i], inst.op = "load",
         NEW V2, V2 = [V EXCEPT ![inst.res] = V[inst.args[1]]]
  PROVE  Agree(f, g, sig, cur, b, p + 1, V2, W)
<1> DEFINE r == inst.res
           x == inst.args[1]
<1>1. f \in Functions /\ Layout(f, g)
  BY DEF Promoted, Prepared
<1>2. Base(f, g)
  BY <1>1, LayoutIsBase
<1>3. p \in DOMAIN g.blocks[b] /\ g.blocks[b][p] = inst /\ Shapely(f, g, b, p)
  BY <1>1, PlaceIs
<1>4. r # NoValue /\ x \in Locals(f) /\ r \notin Locals(f)
  BY <1>3 DEF Shapely
<1>5. r \in Results(f) /\ r \notin Literals
  BY <1>1, <1>4, FunctionFacts
<1>6. r \in DOMAIN V
  BY <1>5 DEF SsaValues
<1>7. Locals(f) \subseteq DOMAIN V
  BY <1>1, FunctionFacts DEF SsaValues
<1>8. ASSUME NEW y \in Locals(f) PROVE V2[y] = Value(W, cur[b][p + 1][y])
  <2>1. V2[y] = V[y]
    BY <1>4, <1>7
  <2>2. cur[b][p + 1][y] = cur[b][p][y]
    BY StaysAt
  <2>3. V[y] = Value(W, cur[b][p][y])
    BY DEF Agree
  <2>4. QED
    BY <2>1, <2>2, <2>3
<1>9. ASSUME NEW v \in (Literals \cup SsaValues(f)) \ Locals(f),
             Available(f, g, v, b, p + 1) \/ PhiHere(f, b, v)
      PROVE  Value(V2, v) = Value(W, sig[v])
  <2>1. CASE v = r
    <3>1. Value(V2, v) = V[x]
      BY <1>5, <1>6, <2>1 DEF Value
    <3>2. V[x] = Value(W, cur[b][p][x])
      BY <1>4 DEF Agree
    <3>3. sig[r] = cur[b][p][x]
      BY <1>3, LoadImage
    <3>4. QED
      BY <2>1, <3>1, <3>2, <3>3
  <2>2. CASE v # r
    <3>1. Available(f, g, v, b, p) \/ PhiHere(f, b, v)
      BY <1>2, <1>3, <1>9, <2>2, AvailableNext
    <3>2. Value(V, v) = Value(W, sig[v])
      BY <3>1 DEF Agree
    <3>3. Value(V2, v) = Value(V, v)
      BY <2>2 DEF Value
    <3>4. QED
      BY <3>2, <3>3
  <2>3. QED
    BY <2>1, <2>2
<1>10. QED
  BY <1>8, <1>9 DEF Agree

\* A store: the variable's value is what has been stored.
LEMMA SetAgrees ==
  ASSUME NEW f, NEW d, NEW ch, NEW fr, NEW g, NEW sig, NEW prog, NEW cur, NEW F,
         Promoted(f, d, ch, fr, g, sig, prog, cur, F),
         NEW b \in Blocks(f), NEW i \in DOMAIN f.blocks[b], NEW p, p = Shift(f, g, b) + i,
         NEW V, DOMAIN V = SsaValues(f), NEW W, Agree(f, g, sig, cur, b, p, V, W),
         NEW inst, inst = f.blocks[b][i], inst.op = "set",
         NEW V2, V2 = [V EXCEPT ![inst.args[1]] = Value(V, inst.args[2])]
  PROVE  Agree(f, g, sig, cur, b, p + 1, V2, W)
<1> DEFINE x == inst.args[1]
           w == inst.args[2]
<1>1. f \in Functions /\ Layout(f, g)
  BY DEF Promoted, Prepared
<1>2. Base(f, g)
  BY <1>1, LayoutIsBase
<1>3. /\ p \in DOMAIN g.blocks[b] /\ g.blocks[b][p] = inst /\ Shapely(f, g, b, p)
      /\ Supplied(f, g, b, p)
  BY <1>1, PlaceIs
<1>4. /\ inst.res = NoValue /\ x \in Locals(f) /\ w \notin Locals(f)
      /\ 2 \in DOMAIN inst.args
  BY <1>3 DEF Shapely
<1>5. Available(f, g, w, b, p)
  BY <1>3, <1>4 DEF Supplied
<1>6. w \in Literals \cup SsaValues(f)
  BY <1>1, <1>4, OperandOf
<1>7. Value(V, w) = Value(W, sig[w])
  BY <1>4, <1>5, <1>6 DEF Agree
<1>8. Locals(f) \subseteq DOMAIN V
  BY <1>1, FunctionFacts DEF SsaValues
<1>9. ASSUME NEW y \in Locals(f) PROVE V2[y] = Value(W, cur[b][p + 1][y])
  <2>1. cur[b][p + 1][y] = IF y = x THEN sig[w] ELSE cur[b][p][y]
    BY StaysAt
  <2>2. V[y] = Value(W, cur[b][p][y])
    BY DEF Agree
  <2>3. V2[y] = IF y = x THEN Value(V, w) ELSE V[y]
    BY <1>8
  <2>4. QED
    BY <1>7, <2>1, <2>2, <2>3
<1>10. ASSUME NEW v \in (Literals \cup SsaValues(f)) \ Locals(f),
              Available(f, g, v, b, p + 1) \/ PhiHere(f, b, v)
       PROVE  Value(V2, v) = Value(W, sig[v])
  <2>1. Available(f, g, v, b, p) \/ PhiHere(f, b, v)
    BY <1>2, <1>3, <1>4, <1>10, AvailableNext
  <2>2. Value(V, v) = Value(W, sig[v])
    BY <2>1 DEF Agree
  <2>3. Value(V2, v) = Value(V, v)
    BY <1>4 DEF Value
  <2>4. QED
    BY <2>2, <2>3
<1>11. QED
  BY <1>9, <1>10 DEF Agree

\* Both runs agree behind an instruction that computes nothing.
LEMMA SkipAgrees ==
  ASSUME NEW f, NEW d, NEW ch, NEW fr, NEW g, NEW sig, NEW prog, NEW cur, NEW F,
         Promoted(f, d, ch, fr, g, sig, prog, cur, F),
         NEW b \in Blocks(f), NEW i \in DOMAIN f.blocks[b], NEW p, p = Shift(f, g, b) + i,
         NEW V, NEW W, Agree(f, g, sig, cur, b, p, V, W),
         \/ f.blocks[b][i].op \in {"alloca", "phi"}
         \/ (f.blocks[b][i].op # "set" /\ f.blocks[b][i].res = NoValue)
  PROVE  Agree(f, g, sig, cur, b, p + 1, V, W)
<1> DEFINE inst == f.blocks[b][i]
<1>1. f \in Functions /\ Layout(f, g)
  BY DEF Promoted, Prepared
<1>2. Base(f, g)
  BY <1>1, LayoutIsBase
<1>3. p \in DOMAIN g.blocks[b] /\ g.blocks[b][p] = inst /\ Shapely(f, g, b, p)
  BY <1>1, PlaceIs
<1>4. ASSUME NEW y \in Locals(f) PROVE V[y] = Value(W, cur[b][p + 1][y])
  <2>1. cur[b][p + 1][y] = cur[b][p][y]
    BY StaysAt
  <2>2. V[y] = Value(W, cur[b][p][y])
    BY DEF Agree
  <2>3. QED
    BY <2>1, <2>2
<1>5. ASSUME NEW v \in (Literals \cup SsaValues(f)) \ Locals(f),
             Available(f, g, v, b, p + 1) \/ PhiHere(f, b, v)
      PROVE  Value(V, v) = Value(W, sig[v])
  <2>1. Available(f, g, v, b, p) \/ PhiHere(f, b, v)
    <3>1. SUFFICES ASSUME ~PhiHere(f, b, v), ~Available(f, g, v, b, p) PROVE FALSE
      OBVIOUS
    <3>2. v = inst.res /\ v # NoValue
      BY <1>2, <1>3, <1>5, <3>1, AvailableNext
    <3>3. CASE inst.op = "phi"
      BY <3>1, <3>2, <3>3 DEF PhiHere
    <3>4. CASE inst.op = "alloca"
      BY <1>3, <3>2, <3>4 DEF Shapely
    <3>5. QED
      BY <3>2, <3>3, <3>4
  <2>2. QED
    BY <2>1 DEF Agree
<1>6. QED
  BY <1>4, <1>5 DEF Agree

\* An instruction that both functions execute.
Computed(values, v, result) == IF v = NoValue THEN values ELSE [values EXCEPT ![v] = result]

\* They do when both have computed the same result.
LEMMA ComputeAgrees ==
  ASSUME NEW f, NEW d, NEW ch, NEW fr, NEW g, NEW sig, NEW prog, NEW cur, NEW F,
         Promoted(f, d, ch, fr, g, sig, prog, cur, F),
         NEW b \in Blocks(f), NEW i \in DOMAIN f.blocks[b], NEW p, p = Shift(f, g, b) + i,
         NEW V, DOMAIN V = SsaValues(f), NEW W, DOMAIN W = SsaValues(F),
         Agree(f, g, sig, cur, b, p, V, W),
         NEW inst, inst = f.blocks[b][i], inst.op \in {"arith", "call", "store"}, inst.res # NoValue,
         NEW result,
         NEW V2, V2 = Computed(V, inst.res, result),
         NEW W2, W2 = Computed(W, inst.res, result)
  PROVE  Agree(f, g, sig, cur, b, p + 1, V2, W2)
<1> DEFINE r == inst.res
<1>0. V2 = [V EXCEPT ![inst.res] = result] /\ W2 = [W EXCEPT ![inst.res] = result]
  BY DEF Computed
<1>1. f \in Functions /\ Layout(f, g) /\ DomTree(f, d) /\ Finished(f, g, sig, cur, F)
  BY DEF Promoted, Prepared
<1>2. Base(f, g)
  BY <1>1, LayoutIsBase
<1>3. /\ p \in DOMAIN g.blocks[b] /\ g.blocks[b][p] = inst /\ Shapely(f, g, b, p)
      /\ p \in 1 .. Len(g.blocks[b]) + 1
  BY <1>1, PlaceIs
<1>4. r \notin Locals(f)
  BY <1>3 DEF Shapely
<1>5. r \in Results(f) /\ r \notin Literals
  BY <1>1, FunctionFacts
<1>6. r \in DOMAIN V
  BY <1>5 DEF SsaValues
<1>7. Locals(f) \subseteq DOMAIN V
  BY <1>1, FunctionFacts DEF SsaValues
<1>8. r \in DOMAIN W
  <2>1. p \in KeptPlaces(g, b)
    BY <1>3 DEF KeptPlaces
  <2>2. QED
    BY <1>1, <1>3, <2>1, FinalValues
<1> USE <1>0
<1>9. ASSUME NEW u, Fits(f, g, u, b, p) PROVE Value(W2, u) = Value(W, u)
  <2>1. u # r
    <3>1. Available(f, g, u, b, p)
      BY <1>9 DEF Fits
    <3>2. QED
      BY <1>1, <1>2, <1>3, <3>1, NotYet
  <2>2. u \in Literals \cup DOMAIN W
    BY <1>1, <1>9, FinalValues
  <2>3. QED
    BY <2>1, <2>2 DEF Value
<1>10. ASSUME NEW y \in Locals(f) PROVE V2[y] = Value(W2, cur[b][p + 1][y])
  <2>1. V2[y] = V[y]
    BY <1>4, <1>7
  <2>2. cur[b][p + 1][y] = cur[b][p][y]
    BY StaysAt
  <2>3. V[y] = Value(W, cur[b][p][y])
    BY DEF Agree
  <2>4. Fits(f, g, cur[b][p][y], b, p)
    BY <1>3, ValuesAre
  <2>5. QED
    BY <1>9, <2>1, <2>2, <2>3, <2>4
<1>11. ASSUME NEW v \in (Literals \cup SsaValues(f)) \ Locals(f),
              Available(f, g, v, b, p + 1) \/ PhiHere(f, b, v)
       PROVE  Value(V2, v) = Value(W2, sig[v])
  <2>1. CASE v = r
    <3>1. Value(V2, v) = result
      BY <1>5, <1>6, <2>1 DEF Value
    <3>2. sig[r] = r
      BY <1>3, OwnImage
    <3>3. Value(W2, r) = result
      BY <1>5, <1>8 DEF Value
    <3>4. QED
      BY <2>1, <3>1, <3>2, <3>3
  <2>2. CASE v # r
    <3>1. Available(f, g, v, b, p)
      <4>1. CASE Available(f, g, v, b, p + 1)
        BY <1>2, <1>3, <2>2, <4>1, AvailableNext
      <4>2. CASE PhiHere(f, b, v)
        <5>1. PICK j \in DOMAIN f.blocks[b] : f.blocks[b][j].op = "phi" /\ f.blocks[b][j].res = v
          BY <4>2 DEF PhiHere
        <5>2. PICK q : q = Shift(f, g, b) + j
          OBVIOUS
        <5>3. /\ q \in DOMAIN g.blocks[b] /\ q \in Int /\ g.blocks[b][q] = f.blocks[b][j]
              /\ Shapely(f, g, b, q) /\ p \in Int /\ p \in 1 .. Len(g.blocks[b]) + 1
          BY <1>1, <5>2, PlaceIs
        <5>4. v # NoValue /\ \A k \in 1 .. q : g.blocks[b][k].op = "phi"
          BY <5>1, <5>3 DEF Shapely
        <5>5. g.blocks[b][p].op # "phi"
          BY <1>3
        <5>6. q < p
          BY <5>3, <5>4, <5>5
        <5>7. QED
          BY <5>1, <5>3, <5>4, <5>6 DEF Available, Ahead
      <4>3. QED
        BY <1>11, <4>1, <4>2
    <3>2. Value(V, v) = Value(W, sig[v])
      BY <3>1 DEF Agree
    <3>3. Value(V2, v) = Value(V, v)
      BY <2>2 DEF Value
    <3>4. Fits(f, g, sig[v], b, p)
      BY <1>3, <3>1, ImagesAre
    <3>5. Value(W2, sig[v]) = Value(W, sig[v])
      BY <1>9, <3>4
    <3>6. QED
      BY <3>2, <3>3, <3>5
  <2>3. QED
    BY <2>1, <2>2
<1>12. QED
  BY <1>10, <1>11 DEF Agree

-----------------------------------------------------------------------------
(* Branches: the phis take their values. *)

\* Entry j is the first from b.
FirstAt(to, b, j) == to[j] = b /\ \A l \in 1 .. j - 1 : to[l] # b

\* There is a first entry if there is one.
LEMMA FirstEntry ==
  ASSUME NEW n \in Nat, NEW to, NEW b, NEW k \in 1 .. n, to[k] = b
  PROVE  \E j \in 1 .. n : FirstAt(to, b, j)
<1> SUFFICES ASSUME \A j \in 1 .. n : to[j] = b => \E l \in 1 .. j - 1 : to[l] = b PROVE FALSE
  BY DEF FirstAt
<1> DEFINE T == {m \in Nat : m <= n => \A j \in 1 .. m : to[j] # b}
<1>1. 0 \in T
  OBVIOUS
<1>2. ASSUME NEW m \in Nat, m \in T PROVE m + 1 \in T
  <2>1. SUFFICES ASSUME m + 1 <= n PROVE \A j \in 1 .. m + 1 : to[j] # b
    OBVIOUS
  <2>2. \A j \in 1 .. m : to[j] # b
    BY <1>2, <2>1
  <2>3. to[m + 1] # b
    <3>1. m + 1 \in 1 .. n /\ (m + 1) - 1 = m
      BY <2>1
    <3>2. QED
      BY <2>2, <3>1
  <2>4. QED
    BY <2>2, <2>3
<1> HIDE DEF T
<1>3. n \in T
  BY <1>1, <1>2, AllNaturals
<1>4. n <= n
  OBVIOUS
<1>5. \A j \in 1 .. n : to[j] # b
  BY <1>3, <1>4 DEF T
<1>6. QED
  BY <1>5

\* A phi takes one of the entries from where it is entered.
LEMMA IncomingIs ==
  ASSUME NEW m, NEW n \in Nat, DOMAIN m.to = 1 .. n, NEW b, NEW k \in DOMAIN m.to, m.to[k] = b
  PROVE  /\ HasIncoming(m, b)
         /\ \E j \in DOMAIN m.to : m.to[j] = b /\ Incoming(m, b) = m.args[j]
<1> DEFINE first(j) == m.to[j] = b /\ \A l \in 1 .. j - 1 : m.to[l] # b
           j == CHOOSE j \in DOMAIN m.to : first(j)
<1>1. HasIncoming(m, b)
  BY DEF HasIncoming
<1>2. \E l \in DOMAIN m.to : first(l)
  <2>1. PICK to : to = m.to
    OBVIOUS
  <2>2. k \in 1 .. n /\ to[k] = b
    BY <2>1
  <2> HIDE DEF first, j
  <2>3. \E l \in 1 .. n : FirstAt(to, b, l)
    BY <2>2, FirstEntry
  <2>4. QED
    BY <2>1, <2>3 DEF FirstAt, first
<1>3. j \in DOMAIN m.to /\ first(j)
  BY <1>2
<1>4. Incoming(m, b) = m.args[j]
  BY DEF Incoming
<1>5. QED
  BY <1>1, <1>3, <1>4

\* Entering a block gives its phis what their entries say, and changes nothing else.
LEMMA ArrivingIs ==
  ASSUME NEW h, NEW values, NEW b, NEW c, NEW v \in DOMAIN values
  PROVE  /\ (\A i \in PhiSites(h, c) : h.blocks[c][i].res # v) => Arriving(h, values, b, c)[v] = values[v]
         /\ \A i \in PhiSites(h, c) :
              /\ h.blocks[c][i].res = v /\ HasIncoming(h.blocks[c][i], b)
              /\ \A j \in PhiSites(h, c) : h.blocks[c][j].res = v => j = i
              => Arriving(h, values, b, c)[v] = Value(values, Incoming(h.blocks[c][i], b))
<1> DEFINE phis == {phi \in Phis(h, c) : phi.res = v /\ HasIncoming(phi, b)}
<1>1. Arriving(h, values, b, c)[v]
        = IF phis = {} THEN values[v] ELSE Value(values, Incoming(CHOOSE phi \in phis : TRUE, b))
  BY DEF Arriving
<1>2. ASSUME \A i \in PhiSites(h, c) : h.blocks[c][i].res # v
      PROVE  phis = {}
  BY <1>2 DEF Phis
<1>3. ASSUME NEW i \in PhiSites(h, c), h.blocks[c][i].res = v, HasIncoming(h.blocks[c][i], b),
             \A j \in PhiSites(h, c) : h.blocks[c][j].res = v => j = i
      PROVE  Arriving(h, values, b, c)[v] = Value(values, Incoming(h.blocks[c][i], b))
  <2>1. phis = {h.blocks[c][i]}
    BY <1>3 DEF Phis
  <2>2. phis # {} /\ (CHOOSE phi \in phis : TRUE) = h.blocks[c][i]
    <3> HIDE DEF phis
    <3>1. QED
      BY <2>1
  <2>3. QED
    BY <1>1, <2>2
<1>4. QED
  BY <1>1, <1>2, <1>3

\* In the original.
LEMMA ArrivingBefore ==
  ASSUME NEW f \in Functions, NEW V, NEW b \in Blocks(f), NEW c \in Blocks(f), c \in Succs(f, b),
         NEW v \in DOMAIN V
  PROVE  /\ ~PhiHere(f, c, v) => Arriving(f, V, b, c)[v] = V[v]
         /\ \A i \in DOMAIN f.blocks[c] : f.blocks[c][i].op = "phi" /\ f.blocks[c][i].res = v =>
              \A k \in DOMAIN f.blocks[c][i].to : f.blocks[c][i].to[k] = b =>
                Arriving(f, V, b, c)[v] = Value(V, f.blocks[c][i].args[k])
<1>1. \A i \in PhiSites(f, c) : i \in DOMAIN f.blocks[c] /\ i \in 1 .. i
  <2>1. DOMAIN f.blocks[c] = 1 .. Len(f.blocks[c]) /\ Len(f.blocks[c]) \in Nat
    BY FunctionRecord
  <2>2. \A i \in DOMAIN f.blocks[c] : i \in 1 .. i
    <3> DEFINE m == Len(f.blocks[c])
    <3>1. DOMAIN f.blocks[c] = 1 .. m /\ m \in Nat
      BY <2>1
    <3> HIDE DEF m
    <3>2. QED
      BY <3>1
  <2>3. QED
    BY <2>2 DEF PhiSites
<1>2. \A i \in PhiSites(f, c) : f.blocks[c][i].op = "phi"
  BY <1>1 DEF PhiSites
<1>3. ASSUME ~PhiHere(f, c, v) PROVE Arriving(f, V, b, c)[v] = V[v]
  BY <1>1, <1>2, <1>3, ArrivingIs DEF PhiHere
<1>4. ASSUME NEW i \in DOMAIN f.blocks[c], f.blocks[c][i].op = "phi", f.blocks[c][i].res = v,
             NEW k \in DOMAIN f.blocks[c][i].to, f.blocks[c][i].to[k] = b
      PROVE  Arriving(f, V, b, c)[v] = Value(V, f.blocks[c][i].args[k])
  <2> DEFINE m == f.blocks[c][i]
  <2>1. Shapely(f, f, c, i)
    BY FunctionFacts
  <2>2. /\ v # NoValue /\ \A q \in 1 .. i : f.blocks[c][q].op = "phi"
        /\ \A j, l \in DOMAIN m.to : m.to[j] = m.to[l] => j = l
    BY <1>4, <2>1 DEF Shapely
  <2>3. i \in PhiSites(f, c)
    BY <2>2 DEF PhiSites
  <2>4. \A j \in PhiSites(f, c) : f.blocks[c][j].res = v => j = i
    BY <1>1, <1>4, <2>2, FunctionFacts
  <2>5. Len(m.to) \in Nat /\ DOMAIN m.to = 1 .. Len(m.to)
    BY FunctionRecord DEF Record
  <2>6. HasIncoming(m, b) /\ \E j \in DOMAIN m.to : m.to[j] = b /\ Incoming(m, b) = m.args[j]
    <3>1. PICK u : u = m
      OBVIOUS
    <3>2. PICK n \in Nat : DOMAIN u.to = 1 .. n
      BY <2>5, <3>1
    <3>3. k \in DOMAIN u.to /\ u.to[k] = b
      BY <1>4, <3>1
    <3>4. HasIncoming(u, b) /\ \E j \in DOMAIN u.to : u.to[j] = b /\ Incoming(u, b) = u.args[j]
      BY <3>2, <3>3, IncomingIs
    <3>5. QED
      BY <3>1, <3>4
  <2>7. Incoming(m, b) = m.args[k]
    BY <1>4, <2>2, <2>6
  <2>8. Arriving(f, V, b, c)[v] = Value(V, Incoming(m, b))
    BY <1>4, <2>3, <2>4, <2>6, ArrivingIs
  <2>9. QED
    BY <2>7, <2>8
<1>5. QED
  BY <1>3, <1>4

\* What arrives at the head of c under the name v, from b.
Brings(f, g, sig, cur, F, W, b, c, v) ==
  /\ (\A p \in DOMAIN g.blocks[c] : g.blocks[c][p].op = "phi" => g.blocks[c][p].res # v)
       => Arriving(F, W, b, c)[v] = W[v]
  /\ \A p \in DOMAIN g.blocks[c] : g.blocks[c][p].op = "phi" /\ g.blocks[c][p].res = v =>
       IF IsNew(f, g.blocks[c][p])
       THEN Arriving(F, W, b, c)[v] = Value(W, cur[b][End(g, b)][g.blocks[c][p].res[2]])
       ELSE \E k \in DOMAIN g.blocks[c][p].to :
              /\ g.blocks[c][p].to[k] = b
              /\ Arriving(F, W, b, c)[v] = Value(W, sig[g.blocks[c][p].args[k]])

\* In what it has become.
LEMMA ArrivingAfter ==
  ASSUME NEW f \in Functions, NEW g, Layout(f, g), NEW sig, NEW cur, NEW F,
         Finished(f, g, sig, cur, F),
         NEW W, NEW b \in Blocks(f), NEW c \in Blocks(f), c \in Succs(f, b), NEW v \in DOMAIN W
  PROVE  Brings(f, g, sig, cur, F, W, b, c, v)
<1>1. Blocks(F) = Blocks(f)
  BY FinishedShape
<1>2. Kept(f, g, sig, cur, F, c)
  BY FinishedIs
<1>3. ASSUME NEW i \in PhiSites(F, c)
      PROVE  /\ <<c, i>> \in Sites(F) /\ F.blocks[c][i] = At(F, <<c, i>>)
             /\ F.blocks[c][i].op = "phi"
             /\ \E p \in DOMAIN g.blocks[c] : g.blocks[c][p].op = "phi"
                                              /\ g.blocks[c][p].res = F.blocks[c][i].res
  <2>1. i \in DOMAIN F.blocks[c] /\ \A j \in 1 .. i : F.blocks[c][j].op = "phi"
    BY DEF PhiSites
  <2>2. <<c, i>> \in Sites(F) /\ F.blocks[c][i] = At(F, <<c, i>>)
    BY <1>1, <2>1, SitesAre
  <2>3. F.blocks[c][i].op = "phi"
    <3> DEFINE N == Len(F.blocks[c])
    <3>1. N \in Nat /\ DOMAIN F.blocks[c] = 1 .. N
      BY <1>2 DEF Kept
    <3>2. i \in 1 .. i
      <4> HIDE DEF N
      <4>1. QED
        BY <2>1, <3>1
    <3>3. QED
      BY <2>1, <3>2
  <2>4. PICK p \in KeptPlaces(g, c) : i = Slot(g, c, p)
    BY <1>2, <2>1 DEF Kept
  <2>5. F.blocks[c][i].op = g.blocks[c][p].op /\ F.blocks[c][i].res = g.blocks[c][p].res
    BY <1>2, <2>4 DEF Kept
  <2>6. p \in DOMAIN g.blocks[c]
    BY DEF KeptPlaces
  <2>7. QED
    BY <2>2, <2>3, <2>5, <2>6
<1>4. ASSUME \A p \in DOMAIN g.blocks[c] : g.blocks[c][p].op = "phi" => g.blocks[c][p].res # v
      PROVE  Arriving(F, W, b, c)[v] = W[v]
  <2>1. \A i \in PhiSites(F, c) : F.blocks[c][i].res # v
    BY <1>3, <1>4
  <2>2. QED
    BY <2>1, ArrivingIs
<1>5. ASSUME NEW p \in DOMAIN g.blocks[c], g.blocks[c][p].op = "phi", g.blocks[c][p].res = v
      PROVE  IF IsNew(f, g.blocks[c][p])
             THEN Arriving(F, W, b, c)[v] = Value(W, cur[b][End(g, b)][g.blocks[c][p].res[2]])
             ELSE \E k \in DOMAIN g.blocks[c][p].to :
                     /\ g.blocks[c][p].to[k] = b
                     /\ Arriving(F, W, b, c)[v] = Value(W, sig[g.blocks[c][p].args[k]])
  <2>1. p \in KeptPlaces(g, c)
    BY <1>5 DEF KeptPlaces
  <2>2. PICK i : i = Slot(g, c, p)
    OBVIOUS
  <2>3. PICK m : m = F.blocks[c][i]
    OBVIOUS
  <2>4. /\ i \in DOMAIN F.blocks[c] /\ m.op = "phi" /\ m.res = v
        /\ Settled(f, g, sig, cur, c, g.blocks[c][p], m)
    BY <1>2, <1>5, <2>1, <2>2, <2>3 DEF Kept
  <2>5. <<c, i>> \in Sites(F) /\ At(F, <<c, i>>) = m
    BY <1>1, <2>3, <2>4, SitesAre
  <2>6. i \in PhiSites(F, c)
    <3>1. <<c, i>>[2] \in PhiSites(F, <<c, i>>[1])
      BY <2>4, <2>5, PhisStandFirst
    <3>2. QED
      BY <3>1
  <2>7. v # NoValue
    <3>1. Base(f, g)
      BY LayoutIsBase
    <3>2. QED
      BY <1>5, <3>1 DEF Base, Shapely
  <2>8. ASSUME NEW j \in PhiSites(F, c), F.blocks[c][j].res = v PROVE j = i
    <3>1. <<c, j>> \in Sites(F) /\ At(F, <<c, j>>).res = v
      BY <1>3, <2>8
    <3>2. <<c, j>> = <<c, i>>
      BY <2>4, <2>5, <2>7, <3>1, OneSite
    <3>3. QED
      BY <3>2
  <2>9. m.to = Preds(f, c)
    BY <1>5, <2>4 DEF Settled
  <2>10. PICK n \in Nat : DOMAIN m.to = 1 .. n
    <3>1. m.to \in Seq(Blocks(f))
      BY <2>9, PredsAre
    <3>2. QED
      BY <3>1, SequenceIs
  <2>11. PICK k \in DOMAIN m.to : m.to[k] = b
    <3>1. b \in ToSet(m.to)
      BY <2>9, PredsAre
    <3>2. QED
      BY <3>1 DEF ToSet
  <2>12. HasIncoming(m, b)
    BY <2>10, <2>11, IncomingIs
  <2>13. PICK j \in DOMAIN m.to : m.to[j] = b /\ Incoming(m, b) = m.args[j]
    BY <2>10, <2>11, IncomingIs
  <2>14. Arriving(F, W, b, c)[v] = Value(W, m.args[j])
    <3>1. Arriving(F, W, b, c)[v] = Value(W, Incoming(m, b))
      BY <2>3, <2>4, <2>6, <2>8, <2>12, ArrivingIs
    <3>2. QED
      BY <2>13, <3>1
  <2>15. CASE IsNew(f, g.blocks[c][p])
    <3>1. m.args[j] = cur[b][End(g, b)][g.blocks[c][p].res[2]]
      BY <1>5, <2>4, <2>13, <2>15 DEF Settled
    <3>2. QED
      BY <2>14, <2>15, <3>1
  <2>16. CASE ~IsNew(f, g.blocks[c][p])
    <3>1. \E l \in DOMAIN g.blocks[c][p].to :
            g.blocks[c][p].to[l] = b /\ m.args[j] = sig[g.blocks[c][p].args[l]]
      BY <1>5, <2>4, <2>13, <2>16 DEF Settled
    <3>2. QED
      BY <2>14, <2>16, <3>1
  <2>17. QED
    BY <2>15, <2>16
<1>6. QED
  BY <1>4, <1>5 DEF Brings

\* A value no phi of the block makes arrives as it was.
LEMMA ArrivingElsewhere ==
  ASSUME NEW f \in Functions, NEW g, Layout(f, g), NEW sig, NEW cur, NEW F,
         Finished(f, g, sig, cur, F),
         NEW W, NEW b \in Blocks(f), NEW c \in Blocks(f), c \in Succs(f, b), NEW v \in DOMAIN W,
         NEW after2, after2 = Arriving(F, W, b, c),
         \A p \in DOMAIN g.blocks[c] : g.blocks[c][p].op = "phi" => g.blocks[c][p].res # v
  PROVE  after2[v] = W[v]
<1>1. Brings(f, g, sig, cur, F, W, b, c, v)
  BY ArrivingAfter
<1>2. QED
  BY <1>1 DEF Brings

\* A phi the pass has made takes its variable's value at the end of the block left.
LEMMA ArrivingNewPhi ==
  ASSUME NEW f \in Functions, NEW g, Layout(f, g), NEW sig, NEW cur, NEW F,
         Finished(f, g, sig, cur, F),
         NEW W, NEW b \in Blocks(f), NEW c \in Blocks(f), c \in Succs(f, b), NEW v \in DOMAIN W,
         NEW after2, after2 = Arriving(F, W, b, c),
         NEW p \in DOMAIN g.blocks[c], NEW inst, inst = g.blocks[c][p],
         inst.op = "phi", inst.res = v, IsNew(f, inst)
  PROVE  after2[v] = Value(W, cur[b][End(g, b)][inst.res[2]])
<1>1. Brings(f, g, sig, cur, F, W, b, c, v)
  BY ArrivingAfter
<1>2. QED
  BY <1>1 DEF Brings

\* A phi the code had takes the image of one of its operands.
LEMMA ArrivingOldPhi ==
  ASSUME NEW f \in Functions, NEW g, Layout(f, g), NEW sig, NEW cur, NEW F,
         Finished(f, g, sig, cur, F),
         NEW W, NEW b \in Blocks(f), NEW c \in Blocks(f), c \in Succs(f, b), NEW v \in DOMAIN W,
         NEW after2, after2 = Arriving(F, W, b, c),
         NEW p \in DOMAIN g.blocks[c], NEW inst, inst = g.blocks[c][p],
         inst.op = "phi", inst.res = v, ~IsNew(f, inst)
  PROVE  \E k \in DOMAIN inst.to : inst.to[k] = b /\ after2[v] = Value(W, sig[inst.args[k]])
<1>1. Brings(f, g, sig, cur, F, W, b, c, v)
  BY ArrivingAfter
<1>2. QED
  BY <1>1 DEF Brings

\* What is available on every way to a block is computed elsewhere.
LEMMA NotHere ==
  ASSUME NEW f, NEW d, DomTree(f, d), NEW g, Base(f, g), NEW c \in Blocks(f),
         NEW e \in Blocks(f), NEW q, StrictlyDominates(f, e, c) \/ (e = c /\ q = 1),
         NEW w, Available(f, g, w, e, q), NEW r \in DOMAIN g.blocks[c], g.blocks[c][r].res # NoValue
  PROVE  w # g.blocks[c][r].res
<1>1. SUFFICES ASSUME w = g.blocks[c][r].res PROVE FALSE
  OBVIOUS
<1>2. w \notin Params(f) \cup Literals
  BY <1>1 DEF Base
<1>3. PICK a, k : /\ a \in Blocks(f) /\ k \in DOMAIN g.blocks[a]
                  /\ g.blocks[a][k].res = w /\ Ahead(f, a, k, e, q)
  BY <1>2 DEF Available
<1>4. a = c /\ k = r
  BY <1>1, <1>3 DEF Base
<1>5. ~(r < 1)
  <2>1. r \in 1 .. Len(g.blocks[c]) /\ Len(g.blocks[c]) \in Nat
    BY DEF Base
  <2>2. QED
    BY <2>1
<1>6. ~StrictlyDominates(f, c, c)
  BY DEF DomTree
<1>7. CASE c = e /\ r < q
  BY <1>5, <1>6, <1>7
<1>8. CASE StrictlyDominates(f, c, e)
  <2>1. StrictlyDominates(f, e, c) => StrictlyDominates(f, c, c)
    BY <1>8 DEF DomTree
  <2>2. QED
    BY <1>6, <1>8, <2>1
<1>9. QED
  BY <1>3, <1>4, <1>7, <1>8 DEF Ahead

\* Entering a block leaves what is defined above it as it is.
LEMMA Carried ==
  ASSUME NEW f, NEW d, NEW ch, NEW fr, NEW g, NEW sig, NEW prog, NEW cur, NEW F,
         Promoted(f, d, ch, fr, g, sig, prog, cur, F),
         NEW b \in Blocks(f), NEW c \in Blocks(f), c \in Succs(f, b),
         NEW W, DOMAIN W = SsaValues(F), NEW W2, W2 = Arriving(F, W, b, c),
         NEW e \in Blocks(f), NEW q, StrictlyDominates(f, e, c) \/ (e = c /\ q = 1),
         NEW w, Fits(f, g, w, e, q)
  PROVE  Value(W2, w) = Value(W, w)
<1>1. f \in Functions /\ Layout(f, g) /\ DomTree(f, d) /\ Finished(f, g, sig, cur, F)
  BY DEF Promoted, Prepared
<1>2. Base(f, g)
  BY <1>1, LayoutIsBase
<1>3. CASE w \in Literals
  BY <1>3 DEF Value
<1>4. CASE w \notin Literals
  <2>1. w \in DOMAIN W
    BY <1>1, <1>4, FinalValues
  <2>2. Available(f, g, w, e, q)
    BY DEF Fits
  <2>3. ASSUME NEW p \in DOMAIN g.blocks[c], g.blocks[c][p].op = "phi"
        PROVE  g.blocks[c][p].res # w
    <3>1. g.blocks[c][p].res # NoValue
      BY <1>2, <2>3 DEF Base, Shapely
    <3>2. QED
      BY <1>1, <1>2, <2>2, <3>1, NotHere
  <2>4. W2[w] = W[w]
    BY <1>1, <2>1, <2>3, ArrivingElsewhere
  <2>5. QED
    BY <1>4, <2>4 DEF Value
<1>5. QED
  BY <1>3, <1>4

\* Both runs agree at the head of the block they go on to.
LEMMA GotoAgrees ==
  ASSUME NEW f, NEW d, NEW ch, NEW fr, NEW g, NEW sig, NEW prog, NEW cur, NEW F,
         Promoted(f, d, ch, fr, g, sig, prog, cur, F),
         NEW b \in Blocks(f), NEW i \in DOMAIN f.blocks[b], NEW p, p = Shift(f, g, b) + i,
         f.blocks[b][i].op \in {"br", "condbr"},
         NEW c \in Blocks(f), c \in Succs(f, b), c # Entry,
         NEW V, DOMAIN V = SsaValues(f), NEW W, DOMAIN W = SsaValues(F),
         Agree(f, g, sig, cur, b, p, V, W),
         NEW V2, V2 = Arriving(f, V, b, c), NEW W2, W2 = Arriving(F, W, b, c)
  PROVE  Agree(f, g, sig, cur, c, Shift(f, g, c) + 1, V2, W2)
<1> DEFINE n == Len(g.blocks[b])
<1>1. /\ f \in Functions /\ Layout(f, g) /\ DomTree(f, d) /\ Finished(f, g, sig, cur, F)
  BY DEF Promoted, Prepared
<1>2. Base(f, g)
  BY <1>1, LayoutIsBase
<1>3. /\ p \in DOMAIN g.blocks[b] /\ g.blocks[b][p] = f.blocks[b][i] /\ Shapely(f, g, b, p)
  BY <1>1, PlaceIs
<1>4. p = n /\ f.blocks[b][i].res = NoValue
  BY <1>3 DEF Shapely
<1>5. Agree(f, g, sig, cur, b, n + 1, V, W)
  <2>1. Agree(f, g, sig, cur, b, p + 1, V, W)
    BY <1>4, SkipAgrees
  <2>2. QED
    BY <1>4, <2>1
<1>6. DomTree(f, d) /\ d[c] \in Blocks(f) /\ StrictlyDominates(f, d[c], c)
  BY <1>1 DEF DomTree
<1>7. ASSUME NEW x \in Locals(f) PROVE V2[x] = Value(W2, cur[c][Shift(f, g, c) + 1][x])
  <2> DEFINE w == cur[b][End(g, b)][x]
  <2>1. V[x] = Value(W, w)
    <3>1. w = cur[b][n + 1][x]
      BY ValuesAre
    <3>2. QED
      BY <1>5, <3>1 DEF Agree
  <2>2. V2[x] = V[x]
    <3>1. x \in DOMAIN V
      BY <1>1, FunctionFacts DEF SsaValues
    <3>2. ~PhiHere(f, c, x)
      <4>1. \A j \in DOMAIN f.blocks[c] : Shapely(f, f, c, j)
        BY <1>1, FunctionFacts
      <4>2. QED
        BY <4>1 DEF PhiHere, Shapely
    <3>3. QED
      BY <1>1, <3>1, <3>2, ArrivingBefore
  <2>3. cur[c][Shift(f, g, c) + 1][x] = IF HasPhi(f, g, x, c) THEN PhiValue(x, c) ELSE cur[c][1][x]
    BY HeadValue
  <2>4. CASE HasPhi(f, g, x, c)
    <3>1. PICK q \in 1 .. Shift(f, g, c) : g.blocks[c][q] = NewPhi(x, c)
      BY <2>4 DEF HasPhi
    <3>2. q \in DOMAIN g.blocks[c]
      <4> DEFINE s == Shift(f, g, c)
                 m == Len(f.blocks[c])
                 k == Len(g.blocks[c])
      <4>1. s \in Nat /\ m \in Nat /\ k \in Nat /\ k = s + m /\ DOMAIN g.blocks[c] = 1 .. k /\ q \in 1 .. s
        BY <1>1, LayoutIs
      <4> HIDE DEF s, m, k
      <4>2. QED
        BY <4>1
    <3>3. g.blocks[c][q].op = "phi" /\ g.blocks[c][q].res = PhiValue(x, c)
      BY <3>1 DEF NewPhi
    <3>4. g.blocks[c][q].res[2] = x
      BY <3>3 DEF PhiValue
    <3>5. IsNew(f, g.blocks[c][q])
      BY <3>3 DEF IsNew
    <3>6. PhiValue(x, c) # NoValue /\ PhiValue(x, c) \notin Literals
      BY <1>2, <3>2, <3>3, <3>5 DEF Base
    <3>7. PhiValue(x, c) \in DOMAIN W
      <4>1. q \in KeptPlaces(g, c)
        BY <3>2, <3>3 DEF KeptPlaces
      <4>2. QED
        BY <1>1, <3>3, <3>6, <4>1, FinalValues
    <3>8. W2[PhiValue(x, c)] = Value(W, w)
      <4>1. W2[PhiValue(x, c)] = Value(W, cur[b][End(g, b)][g.blocks[c][q].res[2]])
        BY <1>1, <3>2, <3>3, <3>5, <3>7, ArrivingNewPhi
      <4>2. QED
        BY <3>4, <4>1
    <3>9. Value(W2, PhiValue(x, c)) = Value(W, w)
      BY <3>6, <3>8 DEF Value
    <3>10. QED
      BY <2>1, <2>2, <2>3, <2>4, <3>9
  <2>5. CASE ~HasPhi(f, g, x, c)
    <3>1. cur[c][1][x] = cur[d[c]][End(g, d[c])][x]
      BY ValuesAre
    <3>2. w = cur[d[c]][End(g, d[c])][x]
      BY <2>5, NoPhiNeeded
    <3>3. \E q : Fits(f, g, cur[d[c]][End(g, d[c])][x], d[c], q)
      <4> DEFINE k == Len(g.blocks[d[c]])
      <4>1. cur[d[c]][End(g, d[c])][x] = cur[d[c]][k + 1][x]
        <5>1. \A e \in Blocks(f) : cur[e][End(g, e)][x] = cur[e][Len(g.blocks[e]) + 1][x]
          BY ValuesAre
        <5>2. QED
          BY <1>6, <5>1
      <4>2. k \in Nat
        BY <1>1, <1>6, LayoutIs
      <4>3. k + 1 \in 1 .. k + 1
        <5> HIDE DEF k
        <5>1. QED
          BY <4>2
      <4>4. Fits(f, g, cur[d[c]][k + 1][x], d[c], k + 1)
        <5>1. \A e \in Blocks(f) : \A q \in 1 .. Len(g.blocks[e]) + 1 : Fits(f, g, cur[e][q][x], e, q)
          BY ValuesAre
        <5>2. QED
          BY <1>6, <4>3, <5>1
      <4>5. QED
        BY <4>1, <4>4
    <3>4. Value(W2, w) = Value(W, w)
      BY <1>6, <3>2, <3>3, Carried
    <3>5. QED
      BY <2>1, <2>2, <2>3, <2>5, <3>1, <3>2, <3>4
  <2>6. QED
    BY <2>4, <2>5
<1>8. ASSUME NEW v \in (Literals \cup SsaValues(f)) \ Locals(f),
             Available(f, g, v, c, Shift(f, g, c) + 1) \/ PhiHere(f, c, v)
      PROVE  Value(V2, v) = Value(W2, sig[v])
  <2>1. CASE v \in Literals
    <3>1. sig[v] = v
      BY <2>1, ImagesAre
    <3>2. QED
      BY <2>1, <3>1 DEF Value
  <2>2. CASE v \notin Literals /\ PhiHere(f, c, v)
    <3>1. PICK j \in DOMAIN f.blocks[c] : f.blocks[c][j].op = "phi" /\ f.blocks[c][j].res = v
      BY <2>2 DEF PhiHere
    <3>2. PICK q : q = Shift(f, g, c) + j
      OBVIOUS
    <3>3. PICK inst : inst = f.blocks[c][j]
      OBVIOUS
    <3>4. /\ q \in DOMAIN g.blocks[c] /\ g.blocks[c][q] = inst /\ ~IsNew(f, inst)
          /\ Shapely(f, g, c, q) /\ Supplied(f, g, c, q)
      BY <1>1, <3>2, <3>3, PlaceIs
    <3>5. v # NoValue /\ inst.op = "phi" /\ inst.res = v /\ DOMAIN inst.args = DOMAIN inst.to
      BY <3>1, <3>3, <3>4 DEF Shapely
    <3>6. v \in DOMAIN W
      <4>1. q \in KeptPlaces(g, c)
        BY <3>4, <3>5 DEF KeptPlaces
      <4>2. QED
        BY <1>1, <3>4, <3>5, <4>1, FinalValues
    <3>7. PICK k \in DOMAIN inst.to : inst.to[k] = b /\ W2[v] = Value(W, sig[inst.args[k]])
      BY <1>1, <3>4, <3>5, <3>6, ArrivingOldPhi
    <3>8. V2[v] = Value(V, inst.args[k])
      <4>1. v \in DOMAIN V
        BY <2>2
      <4>2. QED
        BY <1>1, <3>1, <3>3, <3>7, <4>1, ArrivingBefore
    <3>9. k \in DOMAIN inst.args /\ inst.args[k] \notin Locals(f)
      BY <3>4, <3>5 DEF Shapely
    <3>10. Available(f, g, inst.args[k], b, n + 1)
      BY <3>4, <3>5, <3>7, <3>9 DEF Supplied
    <3>11. inst.args[k] \in Literals \cup SsaValues(f)
      BY <1>1, <3>3, <3>9, OperandOf
    <3>12. Value(V, inst.args[k]) = Value(W, sig[inst.args[k]])
      BY <1>5, <3>9, <3>10, <3>11 DEF Agree
    <3>13. sig[v] = v
      <4>1. inst = g.blocks[c][q] /\ inst.op # "load" /\ inst.res # NoValue
        BY <3>4, <3>5
      <4>2. sig[inst.res] = inst.res
        BY <3>4, <4>1, OwnImage
      <4>3. QED
        BY <3>5, <4>2
    <3>14. QED
      BY <2>2, <3>7, <3>8, <3>12, <3>13 DEF Value
  <2>3. CASE v \notin Literals /\ ~PhiHere(f, c, v)
    <3>1. v \in DOMAIN V
      BY <2>3
    <3>2. V2[v] = V[v]
      BY <1>1, <2>3, <3>1, ArrivingBefore
    <3>3. Available(f, g, v, c, 1) /\ Available(f, g, v, b, n + 1)
      <4>1. CASE v \in Params(f)
        BY <4>1 DEF Available
      <4>2. CASE v \notin Params(f)
        <5>1. PICK e, q :
                /\ e \in Blocks(f)
                /\ q \in DOMAIN g.blocks[e] /\ g.blocks[e][q].res = v
                /\ Ahead(f, e, q, c, Shift(f, g, c) + 1)
          BY <1>8, <2>3, <4>2 DEF Available
        <5>2. v # NoValue
          BY <1>8, <2>3, <4>2 DEF Available
        <5>3. ~(e = c /\ q < Shift(f, g, c) + 1)
          <6>1. SUFFICES ASSUME e = c, q < Shift(f, g, c) + 1 PROVE FALSE
            OBVIOUS
          <6>2. q <= Shift(f, g, c)
            <7> DEFINE s == Shift(f, g, c)
                       k == Len(g.blocks[c])
            <7>1. s \in Nat /\ k \in Nat /\ DOMAIN g.blocks[c] = 1 .. k /\ q \in DOMAIN g.blocks[c]
              BY <1>1, <5>1, <6>1, LayoutIs
            <7>2. q < s + 1
              BY <6>1
            <7> HIDE DEF s, k
            <7>3. q <= s
              BY <7>1, <7>2
            <7>4. QED
              BY <7>3 DEF s
          <6>3. PICK x \in Locals(f) : g.blocks[c][q] = NewPhi(x, c)
            BY <1>1, <5>1, <6>1, <6>2, LayoutIs
          <6>4. v = PhiValue(x, c)
            BY <5>1, <6>1, <6>3 DEF NewPhi
          <6>5. QED
            BY <1>1, <2>3, <6>4, FunctionFacts
        <5>4. StrictlyDominates(f, e, c)
          BY <5>1, <5>3 DEF Ahead
        <5>5. e = b \/ StrictlyDominates(f, e, b)
          BY <1>1, <5>1, <5>4 DEF DomTree
        <5>6. Ahead(f, e, q, b, n + 1)
          <6>1. ASSUME e = b PROVE q < n + 1
            <7>1. n \in Nat /\ q \in 1 .. n
              BY <1>2, <5>1, <6>1 DEF Base
            <7> HIDE DEF n
            <7>2. QED
              BY <7>1
          <6>2. QED
            BY <5>5, <6>1 DEF Ahead
        <5>7. Ahead(f, e, q, c, 1)
          BY <5>4 DEF Ahead
        <5>8. QED
          BY <5>1, <5>2, <5>6, <5>7 DEF Available
      <4>3. QED
        BY <4>1, <4>2
    <3>4. Value(V, v) = Value(W, sig[v])
      BY <1>5, <3>3 DEF Agree
    <3>5. Fits(f, g, sig[v], c, 1)
      <4>1. 1 \in 1 .. Len(g.blocks[c]) + 1
        <5> DEFINE k == Len(g.blocks[c])
        <5>1. k \in Nat
          BY <1>1, LayoutIs
        <5> HIDE DEF k
        <5>2. 1 \in 1 .. k + 1
          BY <5>1
        <5>3. QED
          BY <5>2 DEF k
      <4>2. QED
        BY <3>3, <4>1, ImagesAre
    <3>6. Value(W2, sig[v]) = Value(W, sig[v])
      BY <3>5, Carried
    <3>7. QED
      BY <2>3, <3>2, <3>4, <3>6 DEF Value
  <2>4. QED
    BY <2>1, <2>2, <2>3
<1>9. QED
  BY <1>7, <1>8 DEF Agree

-----------------------------------------------------------------------------
(* The state of the two runs. *)

\* Both runs are at the same place and agree there.
Synchronous(f, d, ch, fr, F, at, V, W) ==
  /\ at = <<at[1], at[2]>> /\ at[1] \in Blocks(f) /\ at[2] \in 1 .. Len(f.blocks[at[1]]) + 1
  /\ \E g, sig, prog, cur :
       /\ Promoted(f, d, ch, fr, g, sig, prog, cur, F)
       /\ Agree(f, g, sig, cur, at[1], Shift(f, g, at[1]) + at[2], V, W)

\* Both runs have values, and agree while they last.
Sound(f, d, ch, fr, F, at, V, W) ==
  /\ V \in [SsaValues(f) -> Literals]
  /\ W \in [SsaValues(F) -> Literals \cup {NoValue}]
  /\ at # << >> => Synchronous(f, d, ch, fr, F, at, V, W)

\* They agree when called with the same arguments.
LEMMA StartAgrees ==
  ASSUME NEW f, NEW d, NEW ch, NEW fr, NEW g, NEW sig, NEW prog, NEW cur, NEW F,
         Promoted(f, d, ch, fr, g, sig, prog, cur, F), NEW given \in [Params(F) -> Literals],
         NEW V, V = [v \in SsaValues(f) |-> IF v \in Params(F) THEN given[v] ELSE Zero],
         NEW W, W = [v \in SsaValues(F) |-> IF v \in Params(F) THEN given[v] ELSE NoValue]
  PROVE  Sound(f, d, ch, fr, F, <<Entry, 1>>, V, W)
<1>1. f \in Functions /\ Layout(f, g) /\ DomTree(f, d) /\ Finished(f, g, sig, cur, F)
  BY DEF Promoted, Prepared
<1>2. Base(f, g) /\ Entry \in Blocks(f) /\ Params(F) = Params(f)
  BY <1>1, LayoutIsBase, FinalValues DEF DomTree
<1>3. Shift(f, g, Entry) = 0 /\ Shift(f, g, Entry) + 1 = 1
  <2>1. Shift(f, g, Entry) = 0
    BY <1>1, <1>2 DEF Layout
  <2>2. QED
    BY <2>1
<1>4. 1 \in 1 .. Len(f.blocks[Entry]) + 1
  <2> DEFINE m == Len(f.blocks[Entry])
  <2>1. m \in Nat
    BY <1>1, <1>2, FunctionRecord
  <2> HIDE DEF m
  <2>2. 1 \in 1 .. m + 1
    BY <2>1
  <2>3. QED
    BY <2>2 DEF m
<1>5. V \in [SsaValues(f) -> Literals]
  BY ZeroLiteral
<1>6. W \in [SsaValues(F) -> Literals \cup {NoValue}]
  OBVIOUS
<1>7. Agree(f, g, sig, cur, Entry, 1, V, W)
  <2>1. ASSUME NEW x \in Locals(f) PROVE V[x] = Value(W, cur[Entry][1][x])
    <3>1. cur[Entry][1][x] = Zero
      BY <1>2, ValuesAre
    <3>2. x \in SsaValues(f) /\ x \notin Params(f)
      <4>1. x \in Results(f)
        BY <1>1, FunctionFacts
      <4>2. Results(f) \cap (Params(f) \cup Literals) = {}
        BY <1>1, FunctionsWellFormed DEF SsaForm
      <4>3. QED
        BY <4>1, <4>2 DEF SsaValues
    <3>3. QED
      BY <1>2, <3>1, <3>2, ZeroLiteral DEF Value
  <2>2. ASSUME NEW v \in (Literals \cup SsaValues(f)) \ Locals(f),
               Available(f, g, v, Entry, 1) \/ PhiHere(f, Entry, v)
        PROVE  Value(V, v) = Value(W, sig[v])
    <3>1. ~PhiHere(f, Entry, v)
      <4>1. \A i \in DOMAIN f.blocks[Entry] : Shapely(f, f, Entry, i)
        BY <1>1, <1>2, FunctionFacts
      <4>2. QED
        BY <4>1 DEF PhiHere, Shapely
    <3>2. v \in Literals \cup Params(f)
      <4>1. SUFFICES ASSUME v \notin Literals \cup Params(f) PROVE FALSE
        OBVIOUS
      <4>2. PICK c, q : c \in Blocks(f) /\ q \in DOMAIN g.blocks[c] /\ Ahead(f, c, q, Entry, 1)
        BY <2>2, <3>1, <4>1 DEF Available
      <4>3. ~StrictlyDominates(f, c, Entry)
        BY <1>1, <4>2 DEF DomTree
      <4>4. c = Entry /\ q < 1
        BY <4>2, <4>3 DEF Ahead
      <4>5. q \in 1 .. Len(g.blocks[c]) /\ Len(g.blocks[c]) \in Nat
        BY <1>2, <4>2 DEF Base
      <4>6. QED
        BY <4>4, <4>5
    <3>3. sig[v] = v
      BY <3>2, ImagesAre
    <3>4. CASE v \in Literals
      BY <3>3, <3>4 DEF Value
    <3>5. CASE v \in Params(f)
      BY <1>2, <3>3, <3>5 DEF Value, SsaValues
    <3>6. QED
      BY <3>2, <3>4, <3>5
  <2>3. QED
    BY <2>1, <2>2 DEF Agree
<1>8. Synchronous(f, d, ch, fr, F, <<Entry, 1>>, V, W)
  <2>1. <<Entry, 1>>[1] = Entry /\ <<Entry, 1>>[2] = 1
    OBVIOUS
  <2>2. Agree(f, g, sig, cur, Entry, Shift(f, g, Entry) + 1, V, W)
    BY <1>3, <1>7
  <2>3. QED
    BY <1>2, <1>4, <2>1, <2>2 DEF Synchronous
<1>9. QED
  BY <1>5, <1>6, <1>8 DEF Sound

\* Where the two are in step, with what has been found out about the renaming.
LEMMA StepFrom ==
  ASSUME NEW f, NEW d, NEW ch, NEW fr, NEW F, NEW at, NEW V, NEW W,
         Sound(f, d, ch, fr, F, at, V, W), at \in Sites(f)
  PROVE  /\ at = <<at[1], at[2]>> /\ at[1] \in Blocks(f) /\ at[2] \in DOMAIN f.blocks[at[1]]
         /\ At(f, at) = f.blocks[at[1]][at[2]]
         /\ \E g, sig, prog, cur :
              /\ Promoted(f, d, ch, fr, g, sig, prog, cur, F)
              /\ Agree(f, g, sig, cur, at[1], Shift(f, g, at[1]) + at[2], V, W)
<1>1. /\ at = <<at[1], at[2]>> /\ at[1] \in Blocks(f) /\ at[2] \in DOMAIN f.blocks[at[1]]
      /\ At(f, at) = f.blocks[at[1]][at[2]]
  BY SitesAre
<1>2. at # << >>
  BY <1>1
<1>3. QED
  BY <1>1, <1>2 DEF Sound, Synchronous

\* Agreeing behind an instruction is agreeing at the next one.
LEMMA StepOn ==
  ASSUME NEW f, NEW d, NEW ch, NEW fr, NEW g, NEW sig, NEW prog, NEW cur, NEW F,
         Promoted(f, d, ch, fr, g, sig, prog, cur, F),
         NEW b \in Blocks(f), NEW i \in DOMAIN f.blocks[b], NEW p, p = Shift(f, g, b) + i,
         NEW V \in [SsaValues(f) -> Literals], NEW W \in [SsaValues(F) -> Literals \cup {NoValue}],
         Agree(f, g, sig, cur, b, p + 1, V, W)
  PROVE  Sound(f, d, ch, fr, F, <<b, i + 1>>, V, W)
<1>1. f \in Functions /\ Layout(f, g)
  BY DEF Promoted, Prepared
<1>2. p + 1 = Shift(f, g, b) + (i + 1)
  BY <1>1, PlaceIs
<1>3. i + 1 \in 1 .. Len(f.blocks[b]) + 1
  <2> DEFINE m == Len(f.blocks[b])
  <2>1. m \in Nat /\ i \in 1 .. m
    BY <1>1, FunctionRecord
  <2> HIDE DEF m
  <2>2. i + 1 \in 1 .. m + 1
    BY <2>1
  <2>3. QED
    BY <2>2 DEF m
<1>4. <<b, i + 1>>[1] = b /\ <<b, i + 1>>[2] = i + 1
  OBVIOUS
<1>5. Agree(f, g, sig, cur, b, Shift(f, g, b) + (i + 1), V, W)
  BY <1>2
<1>6. Synchronous(f, d, ch, fr, F, <<b, i + 1>>, V, W)
  BY <1>3, <1>4, <1>5 DEF Synchronous
<1>7. QED
  BY <1>6 DEF Sound

\* A value is one the machine knows.
LEMMA ValueTyped ==
  ASSUME NEW T, NEW S, NEW V \in [S -> T], Literals \subseteq T, NEW v \in Literals \cup S
  PROVE  Value(V, v) \in T
BY DEF Value

\* Going past an access to a variable.
LEMMA AccessSound ==
  ASSUME NEW f, NEW d, NEW ch, NEW fr, NEW F, NEW at, NEW V, NEW W,
         Sound(f, d, ch, fr, F, at, V, W), at \in Sites(f), NEW V2,
         NEW inst, inst = At(f, at),
         \/ inst.op = "load" /\ V2 = [V EXCEPT ![inst.res] = V[inst.args[1]]]
         \/ inst.op = "set" /\ V2 = [V EXCEPT ![inst.args[1]] = Value(V, inst.args[2])]
         \/ inst.op \in {"alloca", "phi"} /\ V2 = V
  PROVE  Sound(f, d, ch, fr, F, <<at[1], at[2] + 1>>, V2, W)
<1>1. PICK b : b = at[1]
  OBVIOUS
<1>2. PICK i : i = at[2]
  OBVIOUS
<1>3. b \in Blocks(f) /\ i \in DOMAIN f.blocks[b] /\ inst = f.blocks[b][i]
  BY <1>1, <1>2, StepFrom
<1>4. PICK g, sig, prog, cur : /\ Promoted(f, d, ch, fr, g, sig, prog, cur, F)
                               /\ Agree(f, g, sig, cur, at[1], Shift(f, g, at[1]) + at[2], V, W)
  BY StepFrom
<1>5. PICK p : p = Shift(f, g, b) + i
  OBVIOUS
<1>6. Agree(f, g, sig, cur, b, p, V, W)
  BY <1>1, <1>2, <1>4, <1>5
<1>7. V \in [SsaValues(f) -> Literals] /\ W \in [SsaValues(F) -> Literals \cup {NoValue}]
  BY DEF Sound
<1>8. f \in Functions
  BY <1>4 DEF Promoted, Prepared
<1>9. Shapely(f, f, b, i) /\ Locals(f) \subseteq SsaValues(f)
  BY <1>3, <1>8, FunctionFacts DEF SsaValues
<1>10. V2 \in [SsaValues(f) -> Literals] /\ Agree(f, g, sig, cur, b, p + 1, V2, W)
  <2>1. CASE inst.op = "load" /\ V2 = [V EXCEPT ![inst.res] = V[inst.args[1]]]
    <3>1. inst.args[1] \in SsaValues(f)
      BY <1>3, <1>9, <2>1 DEF Shapely
    <3>2. V[inst.args[1]] \in Literals
      BY <1>7, <3>1
    <3>3. V2 \in [SsaValues(f) -> Literals]
      BY <1>7, <2>1, <3>2
    <3>4. Agree(f, g, sig, cur, b, p + 1, V2, W)
      BY <1>3, <1>4, <1>5, <1>6, <1>7, <2>1, LoadAgrees
    <3>5. QED
      BY <3>3, <3>4
  <2>2. CASE inst.op = "set" /\ V2 = [V EXCEPT ![inst.args[1]] = Value(V, inst.args[2])]
    <3>1. 2 \in DOMAIN inst.args
      BY <1>3, <1>9, <2>2 DEF Shapely
    <3>2. inst.args[2] \in Literals \cup SsaValues(f)
      BY <1>3, <1>8, <3>1, OperandOf
    <3>3. Value(V, inst.args[2]) \in Literals
      BY <1>7, <3>2, ValueTyped
    <3>4. V2 \in [SsaValues(f) -> Literals]
      BY <1>7, <2>2, <3>3
    <3>5. Agree(f, g, sig, cur, b, p + 1, V2, W)
      BY <1>3, <1>4, <1>5, <1>6, <1>7, <2>2, SetAgrees
    <3>6. QED
      BY <3>4, <3>5
  <2>3. CASE inst.op \in {"alloca", "phi"} /\ V2 = V
    BY <1>3, <1>4, <1>5, <1>6, <1>7, <2>3, SkipAgrees
  <2>4. QED
    BY <2>1, <2>2, <2>3
<1>11. QED
  BY <1>1, <1>2, <1>3, <1>4, <1>5, <1>7, <1>10, StepOn

\* Going past an instruction that computes.
LEMMA ComputeSound ==
  ASSUME NEW f, NEW d, NEW ch, NEW fr, NEW F, NEW at, NEW V, NEW W,
         Sound(f, d, ch, fr, F, at, V, W), at \in Sites(f),
         NEW inst, inst = At(f, at), inst.op \in {"arith", "call", "store"},
         NEW result \in Literals,
         NEW V2, V2 = Computed(V, inst.res, result),
         NEW W2, W2 = Computed(W, inst.res, result)
  PROVE  Sound(f, d, ch, fr, F, <<at[1], at[2] + 1>>, V2, W2)
<1>1. PICK b : b = at[1]
  OBVIOUS
<1>2. PICK i : i = at[2]
  OBVIOUS
<1>3. b \in Blocks(f) /\ i \in DOMAIN f.blocks[b] /\ inst = f.blocks[b][i]
  BY <1>1, <1>2, StepFrom
<1>4. PICK g, sig, prog, cur : /\ Promoted(f, d, ch, fr, g, sig, prog, cur, F)
                               /\ Agree(f, g, sig, cur, at[1], Shift(f, g, at[1]) + at[2], V, W)
  BY StepFrom
<1>5. PICK p : p = Shift(f, g, b) + i
  OBVIOUS
<1>6. Agree(f, g, sig, cur, b, p, V, W)
  BY <1>1, <1>2, <1>4, <1>5
<1>7. V \in [SsaValues(f) -> Literals] /\ W \in [SsaValues(F) -> Literals \cup {NoValue}]
  BY DEF Sound
<1>8. V2 \in [SsaValues(f) -> Literals] /\ W2 \in [SsaValues(F) -> Literals \cup {NoValue}]
  BY <1>7 DEF Computed
<1>9. Agree(f, g, sig, cur, b, p + 1, V2, W2)
  <2>1. CASE inst.res = NoValue
    <3>1. inst.op # "set" /\ V2 = V /\ W2 = W
      BY <2>1 DEF Computed
    <3>2. QED
      BY <1>3, <1>4, <1>5, <1>6, <2>1, <3>1, SkipAgrees
  <2>2. CASE inst.res # NoValue
    <3>1. DOMAIN V = SsaValues(f) /\ DOMAIN W = SsaValues(F)
      BY <1>7
    <3>2. QED
      BY <1>3, <1>4, <1>5, <1>6, <2>2, <3>1, ComputeAgrees
  <2>3. QED
    BY <2>1, <2>2
<1>10. QED
  BY <1>1, <1>2, <1>3, <1>4, <1>5, <1>8, <1>9, StepOn

\* What arrives at the phis.
LEMMA ArrivingTyped ==
  ASSUME NEW f, NEW d, NEW ch, NEW fr, NEW g, NEW sig, NEW prog, NEW cur, NEW F,
         Promoted(f, d, ch, fr, g, sig, prog, cur, F),
         NEW b \in Blocks(f), NEW c \in Blocks(f), c \in Succs(f, b),
         NEW V \in [SsaValues(f) -> Literals], NEW W \in [SsaValues(F) -> Literals \cup {NoValue}],
         NEW V2, V2 = Arriving(f, V, b, c), NEW W2, W2 = Arriving(F, W, b, c)
  PROVE  V2 \in [SsaValues(f) -> Literals] /\ W2 \in [SsaValues(F) -> Literals \cup {NoValue}]
<1>1. f \in Functions /\ Layout(f, g) /\ DomTree(f, d) /\ Finished(f, g, sig, cur, F)
  BY DEF Promoted, Prepared
<1>2. Base(f, g)
  BY <1>1, LayoutIsBase
<1>3. ASSUME NEW v \in SsaValues(f) PROVE V2[v] \in Literals
  <2>1. v \in DOMAIN V
    OBVIOUS
  <2>2. CASE ~PhiHere(f, c, v)
    <3>1. V2[v] = V[v]
      BY <1>1, <2>1, <2>2, ArrivingBefore
    <3>2. QED
      BY <3>1
  <2>3. CASE PhiHere(f, c, v)
    <3>1. PICK i \in DOMAIN f.blocks[c] : f.blocks[c][i].op = "phi" /\ f.blocks[c][i].res = v
      BY <2>3 DEF PhiHere
    <3>2. PICK inst : inst = f.blocks[c][i]
      OBVIOUS
    <3>3. Shapely(f, f, c, i)
      BY <1>1, FunctionFacts
    <3>4. b \in ToSet(inst.to) /\ DOMAIN inst.args = DOMAIN inst.to
      BY <3>1, <3>2, <3>3 DEF Shapely
    <3>5. PICK k \in DOMAIN inst.to : inst.to[k] = b
      BY <3>4 DEF ToSet
    <3>6. V2[v] = Value(V, inst.args[k])
      BY <1>1, <2>1, <3>1, <3>2, <3>5, ArrivingBefore
    <3>7. inst.args[k] \in Literals \cup SsaValues(f)
      BY <1>1, <3>2, <3>4, OperandOf
    <3>8. QED
      BY <3>6, <3>7, ValueTyped
  <2>4. QED
    BY <2>2, <2>3
<1>4. ASSUME NEW v \in SsaValues(F) PROVE W2[v] \in Literals \cup {NoValue}
  <2>1. v \in DOMAIN W
    OBVIOUS
  <2>2. CASE \A p \in DOMAIN g.blocks[c] : g.blocks[c][p].op = "phi" => g.blocks[c][p].res # v
    <3>1. W2[v] = W[v]
      BY <1>1, <2>1, <2>2, ArrivingElsewhere
    <3>2. QED
      BY <3>1
  <2>3. ASSUME NEW w, \E q : Fits(f, g, w, b, q) PROVE Value(W, w) \in Literals \cup {NoValue}
    <3>1. w \in Literals \cup SsaValues(F)
      BY <1>1, <2>3, FinalValues
    <3>2. Literals \subseteq Literals \cup {NoValue}
      OBVIOUS
    <3>3. QED
      BY <3>1, <3>2, ValueTyped
  <2>4. Len(g.blocks[b]) + 1 \in 1 .. Len(g.blocks[b]) + 1
    <3> DEFINE n == Len(g.blocks[b])
    <3>1. n \in Nat
      BY <1>2 DEF Base
    <3> HIDE DEF n
    <3>2. n + 1 \in 1 .. n + 1
      BY <3>1
    <3>3. QED
      BY <3>2 DEF n
  <2>5. ASSUME NEW p \in DOMAIN g.blocks[c], g.blocks[c][p].op = "phi", g.blocks[c][p].res = v
        PROVE  W2[v] \in Literals \cup {NoValue}
    <3>1. PICK inst : inst = g.blocks[c][p]
      OBVIOUS
    <3>2. IF IsNew(f, inst)
          THEN W2[v] = Value(W, cur[b][End(g, b)][inst.res[2]])
          ELSE \E k \in DOMAIN inst.to : inst.to[k] = b /\ W2[v] = Value(W, sig[inst.args[k]])
      <4>1. CASE IsNew(f, inst)
        BY <1>1, <2>1, <2>5, <3>1, <4>1, ArrivingNewPhi
      <4>2. CASE ~IsNew(f, inst)
        BY <1>1, <2>1, <2>5, <3>1, <4>2, ArrivingOldPhi
      <4>3. QED
        BY <4>1, <4>2
    <3>3. CASE IsNew(f, inst)
      <4>1. PICK x \in Locals(f) : inst = NewPhi(x, c)
        BY <1>2, <3>1, <3>3 DEF Base
      <4>2. inst.res[2] = x
        BY <4>1 DEF NewPhi, PhiValue
      <4>3. cur[b][End(g, b)][x] = cur[b][Len(g.blocks[b]) + 1][x]
        BY ValuesAre
      <4>4. Fits(f, g, cur[b][Len(g.blocks[b]) + 1][x], b, Len(g.blocks[b]) + 1)
        BY <2>4, ValuesAre
      <4>5. \E q : Fits(f, g, cur[b][End(g, b)][inst.res[2]], b, q)
        BY <4>2, <4>3, <4>4
      <4>6. QED
        BY <2>3, <3>2, <3>3, <4>5
    <3>4. CASE ~IsNew(f, inst)
      <4>1. PICK k \in DOMAIN inst.to : inst.to[k] = b /\ W2[v] = Value(W, sig[inst.args[k]])
        BY <3>2, <3>4
      <4>2. Shapely(f, g, c, p) /\ Supplied(f, g, c, p)
        BY <1>2, <3>1, <3>4 DEF Base
      <4>3. k \in DOMAIN inst.args /\ inst.args[k] \notin Locals(f)
        BY <2>5, <3>1, <4>2 DEF Shapely
      <4>4. Available(f, g, inst.args[k], b, Len(g.blocks[b]) + 1)
        BY <2>5, <3>1, <4>1, <4>2, <4>3 DEF Supplied
      <4>5. Fits(f, g, sig[inst.args[k]], b, Len(g.blocks[b]) + 1)
        BY <2>4, <4>3, <4>4, ImagesAre
      <4>6. QED
        BY <2>3, <4>1, <4>5
    <3>5. QED
      BY <3>3, <3>4
  <2>6. QED
    BY <2>2, <2>5
<1>5. V2 = [v \in SsaValues(f) |-> V2[v]] /\ W2 = [v \in SsaValues(F) |-> W2[v]]
  BY DEF Arriving
<1>6. QED
  BY <1>3, <1>4, <1>5

\* Going on to another block.
LEMMA GotoSound ==
  ASSUME NEW f, NEW d, NEW ch, NEW fr, NEW F, NEW at, NEW V, NEW W,
         Sound(f, d, ch, fr, F, at, V, W), at \in Sites(f), At(f, at).op \in {"br", "condbr"},
         NEW c, c \in Succs(f, at[1]),
         NEW V2, V2 = Arriving(f, V, at[1], c), NEW W2, W2 = Arriving(F, W, at[1], c)
  PROVE  Sound(f, d, ch, fr, F, <<c, 1>>, V2, W2)
<1>1. PICK b : b = at[1]
  OBVIOUS
<1>2. PICK i : i = at[2]
  OBVIOUS
<1>3. b \in Blocks(f) /\ i \in DOMAIN f.blocks[b] /\ f.blocks[b][i].op \in {"br", "condbr"}
  BY <1>1, <1>2, StepFrom
<1>4. PICK g, sig, prog, cur : /\ Promoted(f, d, ch, fr, g, sig, prog, cur, F)
                               /\ Agree(f, g, sig, cur, at[1], Shift(f, g, at[1]) + at[2], V, W)
  BY StepFrom
<1>5. PICK p : p = Shift(f, g, b) + i
  OBVIOUS
<1>6. Agree(f, g, sig, cur, b, p, V, W)
  BY <1>1, <1>2, <1>4, <1>5
<1>7. V \in [SsaValues(f) -> Literals] /\ W \in [SsaValues(F) -> Literals \cup {NoValue}]
  BY DEF Sound
<1>8. f \in Functions /\ Layout(f, g)
  BY <1>4 DEF Promoted, Prepared
<1>9. c \in Succs(f, b) /\ c \in Blocks(f) /\ c # Entry
  <2>1. SuccSeq(f, b) \in Seq(Blocks(f) \ {Entry})
    BY <1>3, <1>8, TargetsAreBlocks
  <2>2. c \in ToSet(SuccSeq(f, b))
    BY <1>1 DEF Succs, SuccSeq
  <2>3. PICK k \in DOMAIN SuccSeq(f, b) : SuccSeq(f, b)[k] = c
    BY <2>2 DEF ToSet
  <2>4. c \in Blocks(f) \ {Entry}
    BY <2>1, <2>3, SequenceIs
  <2>5. QED
    BY <1>1, <2>4
<1>10. V2 = Arriving(f, V, b, c) /\ W2 = Arriving(F, W, b, c)
  BY <1>1
<1>11. V2 \in [SsaValues(f) -> Literals] /\ W2 \in [SsaValues(F) -> Literals \cup {NoValue}]
  BY <1>3, <1>4, <1>7, <1>9, <1>10, ArrivingTyped
<1>12. Agree(f, g, sig, cur, c, Shift(f, g, c) + 1, V2, W2)
  <2>1. DOMAIN V = SsaValues(f) /\ DOMAIN W = SsaValues(F)
    BY <1>7
  <2>2. QED
    BY <1>3, <1>4, <1>5, <1>6, <1>9, <1>10, <2>1, GotoAgrees
<1>13. 1 \in 1 .. Len(f.blocks[c]) + 1
  <2> DEFINE m == Len(f.blocks[c])
  <2>1. m \in Nat
    BY <1>8, <1>9, FunctionRecord
  <2> HIDE DEF m
  <2>2. 1 \in 1 .. m + 1
    BY <2>1
  <2>3. QED
    BY <2>2 DEF m
<1>14. <<c, 1>>[1] = c /\ <<c, 1>>[2] = 1
  OBVIOUS
<1>15. Synchronous(f, d, ch, fr, F, <<c, 1>>, V2, W2)
  BY <1>4, <1>9, <1>12, <1>13, <1>14 DEF Synchronous
<1>16. QED
  BY <1>11, <1>15 DEF Sound

\* The runs are sound.
RunInv ==
  IF stage = "running"
  THEN Sound(original, idom, Kids, frontier, fn, pc, before, after)
  ELSE pc = <<Entry, 1>> /\ before = << >> /\ after = << >>

\* The children are read off the tree.
LEMMA KidsKept ==
  ASSUME UNCHANGED <<original, idom, postorder>>
  PROVE  Kids' = Kids
<1>1. \A b : Children(b)' = Children(b)
  BY DEF Children, ReversePostorder
<1>2. QED
  BY <1>1 DEF Kids

\* No step of the pass is one of the runs.
LEMMA PassBeforeRun ==
  ASSUME Pass
  PROVE  stage # "running" /\ stage' # "running" /\ UNCHANGED runVars
<1>1. CASE DomNext /\ UNCHANGED <<passVars, runVars>>
  BY <1>1 DEF DomNext, FollowEdge, LeaveBlock, OrderingDone, FindIdom, SweepAgain,
              DominatorsDone, Climb, NextEdge
<1>2. CASE CollectPromotable \/ ChooseVariable \/ VariableDone \/ StartRenaming
           \/ \E b \in Blocks(fn) : InsertPhis(b)
  BY <1>2 DEF CollectPromotable, FrontiersFound, ChooseVariable, VariableDone, InsertPhis,
              StartRenaming
<1>3. CASE DefineVariable \/ RewriteLoad \/ KeepInst \/ FillPhis \/ RenameChild \/ PopVariables
  BY <1>3 DEF DefineVariable, RewriteLoad, KeepInst, FillPhis, RenameChild, domVars,
              PopVariables, RenamingInst, Renaming, RenamingChildren
<1>4. CASE Cleanup
  BY <1>4 DEF Cleanup
<1>5. QED
  BY <1>1, <1>2, <1>3, <1>4 DEF Pass

\* An access to a variable keeps the runs sound.
LEMMA AccessRuns ==
  ASSUME RunInv, Access
  PROVE  Sound(original, idom, Kids, frontier, fn, pc', before', after)
<1>1. PICK inst : inst = At(original, pc)
  OBVIOUS
<1>2. stage = "running" /\ pc \in Sites(original) /\ pc' = <<pc[1], pc[2] + 1>>
  BY DEF Access, Running
<1>3. Sound(original, idom, Kids, frontier, fn, pc, before, after)
  BY <1>2 DEF RunInv
<1>4. \/ inst.op = "load" /\ before' = [before EXCEPT ![inst.res] = before[inst.args[1]]]
      \/ inst.op = "set" /\ before' = [before EXCEPT ![inst.args[1]] = Value(before, inst.args[2])]
      \/ inst.op \in {"alloca", "phi"} /\ before' = before
  BY <1>1 DEF Access, Running
<1>5. Sound(original, idom, Kids, frontier, fn, <<pc[1], pc[2] + 1>>, before', after)
  BY <1>1, <1>2, <1>3, <1>4, AccessSound
<1>6. QED
  BY <1>2, <1>5

\* So does a computation.
LEMMA ComputeRuns ==
  ASSUME RunInv, NEW result \in Literals, Compute(result)
  PROVE  Sound(original, idom, Kids, frontier, fn, pc', before', after')
<1>1. PICK inst : inst = At(original, pc)
  OBVIOUS
<1>2. /\ stage = "running" /\ pc \in Sites(original) /\ pc' = <<pc[1], pc[2] + 1>>
      /\ inst.op \in {"arith", "call", "store"}
  BY <1>1 DEF Compute, Running
<1>3. Sound(original, idom, Kids, frontier, fn, pc, before, after)
  BY <1>2 DEF RunInv
<1>4. before' = Computed(before, inst.res, result) /\ after' = Computed(after, inst.res, result)
  BY <1>1 DEF Compute, Computed
<1>5. Sound(original, idom, Kids, frontier, fn, <<pc[1], pc[2] + 1>>, before', after')
  BY <1>1, <1>2, <1>3, <1>4, ComputeSound
<1>6. QED
  BY <1>2, <1>5

\* So does going on to another block.
LEMMA GotoRuns ==
  ASSUME RunInv, NEW c, Goto(c)
  PROVE  Sound(original, idom, Kids, frontier, fn, pc', before', after')
<1>1. /\ stage = "running" /\ pc \in Sites(original) /\ pc' = <<c, 1>>
      /\ At(original, pc).op \in {"br", "condbr"} /\ c \in Succs(original, pc[1])
      /\ before' = Arriving(original, before, pc[1], c)
      /\ after' = Arriving(fn, after, pc[1], c)
  BY DEF Goto, Running
<1>2. Sound(original, idom, Kids, frontier, fn, pc, before, after)
  BY <1>1 DEF RunInv
<1>3. Sound(original, idom, Kids, frontier, fn, <<c, 1>>, before', after')
  BY <1>1, <1>2, GotoSound
<1>4. QED
  BY <1>1, <1>3

\* They are sound at first.
LEMMA StartRuns ==
  ASSUME PromotedInv, RunInv, NEW given \in [Params(fn) -> Literals], Start(given)
  PROVE  Sound(original, idom, Kids, frontier, fn, pc', before', after')
<1>1. /\ stage = "promoted" /\ pc' = pc
      /\ before' = [v \in SsaValues(original) |-> IF v \in Params(fn) THEN given[v] ELSE Zero]
      /\ after' = [v \in SsaValues(fn) |-> IF v \in Params(fn) THEN given[v] ELSE NoValue]
  BY DEF Start
<1>2. pc' = <<Entry, 1>>
  BY <1>1 DEF RunInv
<1>3. PICK g, sig, prog, cur : Promoted(original, idom, Kids, frontier, g, sig, prog, cur, fn)
  BY <1>1 DEF PromotedInv
<1>4. Sound(original, idom, Kids, frontier, fn, <<Entry, 1>>, before', after')
  BY <1>1, <1>3, StartAgrees
<1>5. QED
  BY <1>2, <1>4

\* Every step keeps them sound.
LEMMA NextRun ==
  ASSUME PromotedInv, RunInv, [Next]_vars
  PROVE  RunInv'
<1>1. CASE Pass
  BY <1>1, PassBeforeRun DEF RunInv, runVars
<1>2. CASE UNCHANGED vars
  <2>1. Kids' = Kids
    BY <1>2, KidsKept DEF vars, domVars, passVars
  <2>2. UNCHANGED <<stage, original, idom, frontier, fn, pc, before, after>>
    BY <1>2 DEF vars, domVars, passVars, runVars
  <2>3. QED
    BY <2>1, <2>2 DEF RunInv
<1>3. ASSUME UNCHANGED <<original, idom, postorder, frontier, fn>>, stage' = "running",
             Sound(original, idom, Kids, frontier, fn, pc', before', after')
      PROVE  RunInv'
  <2>1. Kids' = Kids
    BY <1>3, KidsKept
  <2>2. QED
    BY <1>3, <2>1 DEF RunInv
<1>4. ASSUME NEW given \in [Params(fn) -> Literals], Start(given) PROVE RunInv'
  <2>1. UNCHANGED <<original, idom, postorder, frontier, fn>> /\ stage' = "running"
    BY <1>4 DEF Start, passVars
  <2>2. Sound(original, idom, Kids, frontier, fn, pc', before', after')
    BY <1>4, StartRuns
  <2>3. QED
    BY <1>3, <2>1, <2>2
<1>5. CASE Access
  <2>1. UNCHANGED <<original, idom, postorder, frontier, fn, after>> /\ stage' = "running"
    BY <1>5 DEF Access, Running, passVars, domVars
  <2>2. Sound(original, idom, Kids, frontier, fn, pc', before', after)
    BY <1>5, AccessRuns
  <2>3. QED
    BY <1>3, <2>1, <2>2
<1>6. ASSUME NEW result \in Literals, Compute(result) PROVE RunInv'
  <2>1. UNCHANGED <<original, idom, postorder, frontier, fn>> /\ stage' = "running"
    BY <1>6 DEF Compute, Running, passVars, domVars
  <2>2. Sound(original, idom, Kids, frontier, fn, pc', before', after')
    BY <1>6, ComputeRuns
  <2>3. QED
    BY <1>3, <2>1, <2>2
<1>7. ASSUME NEW c \in Blocks(fn), Goto(c) PROVE RunInv'
  <2>1. UNCHANGED <<original, idom, postorder, frontier, fn>> /\ stage' = "running"
    BY <1>7 DEF Goto, Running, passVars, domVars
  <2>2. Sound(original, idom, Kids, frontier, fn, pc', before', after')
    BY <1>7, GotoRuns
  <2>3. QED
    BY <1>3, <2>1, <2>2
<1>8. CASE Return
  <2>1. /\ UNCHANGED <<original, idom, postorder, frontier, fn, before, after>> /\ stage' = "running"
        /\ stage = "running" /\ pc' = << >>
    BY <1>8 DEF Return, Running, passVars, domVars
  <2>2. Sound(original, idom, Kids, frontier, fn, << >>, before, after)
    BY <2>1 DEF RunInv, Sound
  <2>3. QED
    BY <1>3, <2>1, <2>2
<1>9. QED
  BY <1>1, <1>2, <1>4, <1>5, <1>6, <1>7, <1>8 DEF Next, Over

-----------------------------------------------------------------------------

\* An instruction that stays reads the same values in both.
LEMMA OperandsAgree ==
  ASSUME NEW f, NEW d, NEW ch, NEW fr, NEW g, NEW sig, NEW prog, NEW cur, NEW F,
         Promoted(f, d, ch, fr, g, sig, prog, cur, F),
         NEW b \in Blocks(f), NEW i \in DOMAIN f.blocks[b], NEW p, p = Shift(f, g, b) + i,
         NEW V, NEW W, Agree(f, g, sig, cur, b, p, V, W),
         NEW inst, inst = f.blocks[b][i], inst.op \notin {"load", "set", "alloca", "phi"},
         NEW m, m = F.blocks[b][Slot(g, b, p)]
  PROVE  Args(W, m) = Args(V, inst)
<1>1. f \in Functions /\ Layout(f, g) /\ Finished(f, g, sig, cur, F)
  BY DEF Promoted, Prepared
<1>2. /\ p \in DOMAIN g.blocks[b] /\ g.blocks[b][p] = inst /\ ~IsNew(f, inst)
      /\ Shapely(f, g, b, p) /\ Supplied(f, g, b, p)
  BY <1>1, PlaceIs
<1>3. p \in KeptPlaces(g, b)
  BY <1>2 DEF KeptPlaces
<1>4. Settled(f, g, sig, cur, b, inst, m)
  <2>1. Kept(f, g, sig, cur, F, b)
    BY <1>1, FinishedIs
  <2>2. QED
    BY <1>2, <1>3, <2>1 DEF Kept
<1>5. m.args = [k \in DOMAIN inst.args |-> sig[inst.args[k]]]
  BY <1>4 DEF Settled
<1>6. ASSUME NEW k \in DOMAIN inst.args PROVE Value(W, sig[inst.args[k]]) = Value(V, inst.args[k])
  <2>1. inst.args[k] \notin Locals(f)
    BY <1>2 DEF Shapely
  <2>2. Available(f, g, inst.args[k], b, p)
    BY <1>2 DEF Supplied
  <2>3. inst.args[k] \in Literals \cup SsaValues(f)
    BY <1>1, OperandOf
  <2>4. QED
    BY <2>1, <2>2, <2>3 DEF Agree
<1>7. Args(W, m) = [k \in DOMAIN inst.args |-> Value(W, sig[inst.args[k]])]
  BY <1>5 DEF Args
<1>8. Args(V, inst) = [k \in DOMAIN inst.args |-> Value(V, inst.args[k])]
  BY DEF Args
<1>9. [k \in DOMAIN inst.args |-> Value(W, sig[inst.args[k]])]
        = [k \in DOMAIN inst.args |-> Value(V, inst.args[k])]
  BY <1>6
<1>10. QED
  BY <1>7, <1>8, <1>9, Zenon

\* Sound runs have the same operands.
LEMMA RunsAgree ==
  ASSUME Known, RunInv
  PROVE  SameOperands
<1>1. SUFFICES ASSUME Running({"arith", "call", "store", "condbr", "ret"})
               PROVE  Args(after, Counterpart(pc)) = Args(before, At(original, pc))
  BY DEF SameOperands
<1>2. /\ stage = "running" /\ pc \in Sites(original)
      /\ At(original, pc).op \in {"arith", "call", "store", "condbr", "ret"}
  BY <1>1 DEF Running
<1>3. Sound(original, idom, Kids, frontier, fn, pc, before, after)
  BY <1>2 DEF RunInv
<1>4. PICK b : b = pc[1]
  OBVIOUS
<1>5. PICK i : i = pc[2]
  OBVIOUS
<1>6. PICK inst : inst = At(original, pc)
  OBVIOUS
<1>7. /\ pc = <<b, i>> /\ b \in Blocks(original) /\ i \in DOMAIN original.blocks[b]
      /\ inst = original.blocks[b][i]
  BY <1>2, <1>3, <1>4, <1>5, <1>6, StepFrom
<1>8. PICK g, sig, prog, cur :
        /\ Promoted(original, idom, Kids, frontier, g, sig, prog, cur, fn)
        /\ Agree(original, g, sig, cur, pc[1], Shift(original, g, pc[1]) + pc[2], before, after)
  BY <1>2, <1>3, StepFrom
<1>9. PICK p : p = Shift(original, g, b) + i
  OBVIOUS
<1>10. Agree(original, g, sig, cur, b, p, before, after)
  BY <1>4, <1>5, <1>8, <1>9
<1>11. original \in Functions /\ Layout(original, g) /\ Finished(original, g, sig, cur, fn)
  BY <1>8 DEF Promoted, Prepared
<1>12. PromotableListed(original, promotable)
  BY <1>2 DEF Known, Early, Analysed
<1>13. Counterpart(<<b, i>>) = fn.blocks[b][Slot(g, b, Shift(original, g, b) + i)]
  BY <1>7, <1>11, <1>12, CounterpartIs
<1>14. PICK m : m = fn.blocks[b][Slot(g, b, p)]
  OBVIOUS
<1>15. Counterpart(pc) = m
  BY <1>7, <1>9, <1>13, <1>14
<1>16. inst.op \notin {"load", "set", "alloca", "phi"}
  BY <1>2, <1>6
<1>17. Args(after, m) = Args(before, inst)
  BY <1>7, <1>8, <1>9, <1>10, <1>14, <1>16, OperandsAgree
<1>18. QED
  BY <1>6, <1>15, <1>17

-----------------------------------------------------------------------------
(* The types. *)

\* The stages of the pass.
Stages == {"ordering", "dominators", "frontiers", "choosing", "inserting", "renaming",
           "promoted", "running"}

\* How far placing phis has got, and the stage.
Counted ==
  /\ stage \in Stages
  /\ variable \in 0 .. Len(promotable)
  /\ worklist \subseteq Blocks(original)

\* Every step keeps that.
LEMMA NextCounted ==
  ASSUME Inserting', Counted, [Next]_vars
  PROVE  Counted'
<1>1. stage' \in Stages
  <2>1. CASE UNCHANGED stage
    BY <2>1 DEF Counted
  <2>2. CASE DomNext
    BY <2>2 DEF DomNext, FollowEdge, LeaveBlock, OrderingDone, FindIdom, SweepAgain,
                DominatorsDone, Climb, NextEdge, Stages
  <2>3. CASE CollectPromotable \/ ChooseVariable \/ VariableDone \/ StartRenaming \/ Cleanup
    BY <2>3 DEF CollectPromotable, ChooseVariable, VariableDone, StartRenaming, Cleanup, Stages
  <2>4. CASE (\E b \in Blocks(fn) : InsertPhis(b))
             \/ DefineVariable \/ RewriteLoad \/ KeepInst \/ FillPhis \/ RenameChild \/ PopVariables
    BY <2>1, <2>4 DEF InsertPhis, DefineVariable, RewriteLoad, KeepInst, FillPhis, RenameChild,
                      PopVariables, domVars
  <2>5. CASE \E given \in [Params(fn) -> Literals] : Start(given)
    BY <2>5 DEF Start, Stages
  <2>6. CASE Access \/ (\E result \in Literals : Compute(result)) \/ (\E c \in Blocks(fn) : Goto(c))
             \/ Return \/ UNCHANGED vars
    BY <2>1, <2>6 DEF Access, Compute, Goto, Return, vars, domVars
  <2>7. QED
    BY <2>2, <2>3, <2>4, <2>5, <2>6 DEF Next, Pass, Over
<1>2. CASE stage' \in {"choosing", "inserting"}
  BY <1>1, <1>2 DEF Inserting, Placing, Counted
<1>3. CASE stage' \notin {"choosing", "inserting"}
  <2>1. UNCHANGED <<original, promotable, variable, worklist>>
    <3>1. CASE DomNext /\ UNCHANGED <<passVars, runVars>>
      BY <3>1 DEF passVars
    <3>2. CASE CollectPromotable \/ ChooseVariable \/ VariableDone \/ StartRenaming \/ Cleanup
      BY <1>3, <3>2 DEF CollectPromotable, ChooseVariable, VariableDone, StartRenaming, Cleanup, passVars
    <3>3. CASE \E b \in Blocks(fn) : InsertPhis(b)
      BY <1>3, <3>3 DEF InsertPhis
    <3>4. CASE DefineVariable \/ RewriteLoad \/ KeepInst \/ FillPhis \/ RenameChild \/ PopVariables
      BY <3>4 DEF DefineVariable, RewriteLoad, KeepInst, FillPhis, RenameChild, PopVariables
    <3>5. CASE \E given \in [Params(fn) -> Literals] : Start(given)
      BY <3>5 DEF Start, passVars
    <3>6. CASE Access \/ (\E result \in Literals : Compute(result)) \/ (\E c \in Blocks(fn) : Goto(c))
               \/ Return \/ UNCHANGED vars
      BY <3>6 DEF Access, Compute, Goto, Return, vars, passVars
    <3>7. QED
      BY <3>1, <3>2, <3>3, <3>4, <3>5, <3>6 DEF Next, Pass, Over
  <2>2. QED
    BY <1>1, <2>1 DEF Counted
<1>4. QED
  BY <1>2, <1>3

\* What the stacks hold while the walk lasts.
LEMMA NamesStay ==
  ASSUME NEW f \in Functions, NEW g, Layout(f, g), NEW sig, NEW prog, NEW cur, NEW F,
         Rewritten(f, g, sig, prog, cur, F)
  PROVE  Names(f, g) \ {NoValue} \subseteq SsaValues(F) \cup Literals
<1>1. Params(F) = Params(f)
  <2>1. F = [params |-> f.params, blocks |-> F.blocks, void |-> f.void, opt |-> f.opt]
    BY DEF Rewritten
  <2>2. F.params = f.params
    BY <2>1
  <2>3. QED
    BY <2>2 DEF Params
<1>2. ASSUME NEW b \in Blocks(f), NEW p \in DOMAIN g.blocks[b], g.blocks[b][p].res # NoValue
      PROVE  g.blocks[b][p].res \in Results(F)
  <2>1. PICK n : n = F.blocks[b][p]
    OBVIOUS
  <2>2. Become(f, g, sig, prog, cur, b, p, n)
    BY <2>1 DEF Rewritten
  <2>3. n.res = g.blocks[b][p].res
    <3>1. n = [op |-> g.blocks[b][p].op, res |-> g.blocks[b][p].res, args |-> n.args, to |-> n.to]
      BY <2>2 DEF Become
    <3>2. QED
      BY <3>1
  <2>4. b \in Blocks(F) /\ p \in DOMAIN F.blocks[b]
    <3>1. b \in Blocks(F)
      BY RewrittenShape
    <3>2. F.blocks[b] = [q \in 1 .. Len(g.blocks[b]) |-> F.blocks[b][q]]
      BY DEF Rewritten
    <3>3. DOMAIN g.blocks[b] = 1 .. Len(g.blocks[b])
      BY LayoutIs
    <3>4. QED
      BY <3>1, <3>2, <3>3
  <2>5. <<b, p>> \in Sites(F) /\ At(F, <<b, p>>) = n
    BY <2>1, <2>4, SitesAre
  <2>6. QED
    BY <1>2, <2>3, <2>5 DEF Results
<1>3. QED
  BY <1>1, <1>2 DEF Names, SsaValues

\* What is on the stacks can be named, and is no variable.
StacksTyped ==
  \A x \in DOMAIN stacks :
    ToSet(stacks[x]) \subseteq (SsaValues(fn) \cup Literals) \ DOMAIN stacks

\* What is to be shown of the stage the pass is in.
Placed ==
  /\ Blocks(fn) = Blocks(original)
  /\ StacksTyped
  /\ \A i \in DOMAIN walk : walk[i].block \in Blocks(original)

\* Nothing is on the stacks outside the walk.
LEMMA EmptyWalk ==
  ASSUME Blocks(fn) = Blocks(original), walk = << >>, \A x \in DOMAIN stacks : stacks[x] = << >>
  PROVE  Placed
<1>1. ToSet(<< >>) = {}
  BY DEF ToSet
<1>2. DOMAIN walk = {}
  OBVIOUS
<1>3. StacksTyped
  BY <1>1 DEF StacksTyped
<1>4. QED
  BY <1>2, <1>3 DEF Placed

\* The types hold in the walk.
LEMMA WalkTyped ==
  ASSUME Known, RenamingInv, stage = "renaming"
  PROVE  Placed
<1>1. PICK g, sig, prog, cur, H : Renames(g, sig, prog, cur, H)
  BY DEF RenamingInv
<1>2. /\ original \in Functions /\ Layout(original, g)
      /\ Rewritten(original, g, sig, prog, cur, fn)
      /\ Frames(walk) /\ Walking(original, idom, Kids, g, prog, walk)
      /\ Stacked(original, g, cur, walk, stacks, H)
  BY <1>1 DEF Renames, RenamedSoFar, Prepared
<1>3. Blocks(fn) = Blocks(original)
  BY <1>2, RewrittenShape
<1>4. ASSUME NEW i \in DOMAIN walk PROVE walk[i].block \in Blocks(original)
  <2>1. DOMAIN walk = 1 .. Len(walk)
    <3>1. walk = [k \in 1 .. Len(walk) |-> walk[k]]
      BY <1>2 DEF Frames
    <3>2. QED
      BY <3>1
  <2>2. QED
    BY <1>2, <2>1 DEF Walking
<1>5. ASSUME NEW x \in DOMAIN stacks, NEW v \in ToSet(stacks[x])
      PROVE  v \in (SsaValues(fn) \cup Literals) \ DOMAIN stacks
  <2>1. DOMAIN stacks = Locals(original)
    BY <1>2 DEF Stacked
  <2>2. PICK s : s = stacks[x]
    OBVIOUS
  <2>3. /\ Len(s) \in Nat /\ s = [i \in 1 .. Len(s) |-> s[i]]
        /\ \A i \in 1 .. Len(s) : Storable(original, g, s[i])
    BY <1>2, <2>1, <2>2 DEF Stacked
  <2>4. PICK i \in 1 .. Len(s) : v = s[i]
    <3>1. DOMAIN s = 1 .. Len(s)
      BY <2>3
    <3>2. \E i \in DOMAIN s : v = s[i]
      BY <2>2 DEF ToSet
    <3>3. QED
      BY <3>1, <3>2
  <2>5. Storable(original, g, v)
    BY <2>3, <2>4
  <2>6. v \in Names(original, g) /\ v # NoValue /\ v \notin Locals(original)
    BY <2>5 DEF Storable
  <2>7. Names(original, g) \ {NoValue} \subseteq SsaValues(fn) \cup Literals
    BY <1>2, NamesStay
  <2>8. QED
    BY <2>1, <2>6, <2>7
<1>6. QED
  BY <1>3, <1>4, <1>5 DEF Placed, StacksTyped

\* The types hold at every stage.
LEMMA TypesFollow ==
  ASSUME Known, Inserting, RenamingInv, PromotedInv, RunInv, Counted
  PROVE  TypeOK
<1>1. Placed
  <2>1. CASE Early
    <3>1. NotBegun
      BY <2>1 DEF Known
    <3>2. fn = original /\ walk = << >> /\ stacks = << >>
      BY <3>1 DEF NotBegun
    <3>3. DOMAIN stacks = {} /\ Blocks(fn) = Blocks(original)
      BY <3>2
    <3>4. QED
      BY <3>2, <3>3, EmptyWalk
  <2>2. CASE Placing
    <3>1. Layout(original, fn) /\ stacks = << >> /\ walk = << >>
      BY <2>2 DEF Inserting
    <3>2. DOMAIN stacks = {} /\ Blocks(fn) = Blocks(original)
      BY <3>1 DEF Layout, Blocks
    <3>3. QED
      BY <3>1, <3>2, EmptyWalk
  <2>3. CASE stage = "renaming"
    BY <2>3, WalkTyped
  <2>4. CASE stage \in {"promoted", "running"}
    <3>1. PICK g, sig, prog, cur : Promoted(original, idom, Kids, frontier, g, sig, prog, cur, fn)
      BY <2>4 DEF PromotedInv
    <3>2. original \in Functions /\ Layout(original, g) /\ Finished(original, g, sig, cur, fn)
      BY <3>1 DEF Promoted, Prepared
    <3>3. Blocks(fn) = Blocks(original)
      BY <3>2, FinishedShape
    <3>4. QED
      BY <2>4, <3>3, EmptyWalk DEF PromotedInv
  <2>5. QED
    BY <2>1, <2>2, <2>3, <2>4 DEF Counted, Stages, Early, Placing
<1>2. ToSet(promotable) \subseteq Results(original)
  <2>1. CASE Early
    <3>1. promotable = << >>
      BY <2>1 DEF Known, NotBegun
    <3>2. QED
      BY <3>1 DEF ToSet
  <2>2. CASE ~Early
    <3>1. PromotableListed(original, promotable) /\ original \in Functions
      BY <2>2 DEF Known, Analysed
    <3>2. ToSet(promotable) = Locals(original)
      BY <3>1, PromotableAre
    <3>3. QED
      BY <3>1, <3>2, FunctionFacts
  <2>3. QED
    BY <2>1, <2>2
<1>3. /\ \A v \in DOMAIN before : before[v] \in Literals
      /\ \A v \in DOMAIN after : after[v] \in Literals \cup {NoValue}
  <2>1. CASE stage = "running"
    BY <2>1 DEF RunInv, Sound
  <2>2. CASE stage # "running"
    <3>1. before = << >> /\ after = << >>
      BY <2>2 DEF RunInv
    <3>2. DOMAIN before = {} /\ DOMAIN after = {}
      BY <3>1
    <3>3. QED
      BY <3>2
  <2>3. QED
    BY <2>1, <2>2
<1>4. /\ postorder \in Seq(Blocks(fn)) /\ idom \in [Blocks(fn) -> Blocks(fn) \cup {0}]
      /\ frontier \in [Blocks(fn) -> SUBSET Blocks(fn)] /\ runner \in Blocks(fn) \cup {0}
  BY <1>1 DEF Placed, Known, AnalysisTyped
<1>5. /\ stage \in {"ordering", "dominators", "frontiers", "choosing", "inserting", "renaming",
                    "promoted", "running"}
      /\ variable \in 0 .. Len(promotable) /\ worklist \subseteq Blocks(fn)
  BY <1>1 DEF Counted, Stages, Placed
<1>6. /\ \A x \in DOMAIN stacks :
           ToSet(stacks[x]) \subseteq (SsaValues(fn) \cup Literals) \ DOMAIN stacks
      /\ \A i \in DOMAIN walk : walk[i].block \in Blocks(fn)
  BY <1>1 DEF Placed, StacksTyped
<1>7. QED
  BY <1>2, <1>3, <1>4, <1>5, <1>6 DEF TypeOK

-----------------------------------------------------------------------------
(* The pass as a whole. *)

\* What every state of the pass and of the runs satisfies.
PassInv == DomInv /\ Known /\ Inserting /\ RenamingInv /\ PromotedInv /\ RunInv /\ Counted

\* It holds at first.
LEMMA InitPassInv == Init => PassInv
<1> SUFFICES ASSUME Init PROVE PassInv
  OBVIOUS
<1>1. DomInv /\ Known
  BY InitDomInv, InitKnown DEF Init
<1>2. /\ stage = "ordering" /\ pc = <<Entry, 1>> /\ before = << >> /\ after = << >>
      /\ promotable = << >> /\ variable = 0 /\ worklist = {}
  BY DEF Init, DomInit
<1>3. Counted
  <2>1. 0 \in 0 .. Len(<< >>)
    OBVIOUS
  <2>2. QED
    BY <1>2, <2>1 DEF Counted, Stages
<1>4. Inserting /\ RenamingInv /\ PromotedInv /\ RunInv
  BY <1>2 DEF Inserting, Placing, RenamingInv, PromotedInv, RunInv
<1>5. QED
  BY <1>1, <1>3, <1>4 DEF PassInv

\* Every step preserves it.
LEMMA NextPassInv ==
  ASSUME PassInv, [Next]_vars
  PROVE  PassInv'
<1>1. DomInv /\ Known /\ Inserting /\ RenamingInv /\ PromotedInv /\ RunInv /\ Counted
  BY DEF PassInv
<1>2. DomInv'
  BY <1>1, NextKeepsDom
<1>3. Known'
  BY <1>1, NextKnown
<1>4. Inserting'
  BY <1>1, NextInserting
<1>5. RenamingInv'
  BY <1>1, NextRenames
<1>6. PromotedInv'
  BY <1>1, NextPromoted
<1>7. RunInv'
  BY <1>1, NextRun
<1>8. Counted'
  BY <1>1, <1>4, NextCounted
<1>9. QED
  BY <1>2, <1>3, <1>4, <1>5, <1>6, <1>7, <1>8 DEF PassInv

\* It always holds.
LEMMA AlwaysPassInv == Spec => []PassInv
BY InitPassInv, NextPassInv, PTL DEF Spec

\* The type invariant of mem2reg.cpp, for every function of any size: the blocks
\* numbered, climbed to and waiting are blocks of the function, the stacks of the
\* renaming hold values the rewritten function can name and never an alloca, and
\* the two runs keep to the values of the machine.
THEOREM Mem2RegTypeCorrect == Spec => []TypeOK
<1>1. PassInv => TypeOK
  BY TypesFollow DEF PassInv
<1>2. QED
  BY <1>1, AlwaysPassInv, PTL

\* Once promote_function has erased the loads, stores and allocas, every value is
\* defined once and before each of its uses, each phi stands at the head of its
\* block and has one entry for each predecessor, in their order: what a load was
\* replaced by is never used where it is not defined, whatever the edges are.
THEOREM PromotionIsSsa == Spec => []InSsaForm
<1>1. PassInv => InSsaForm
  BY PromotedIsSsa DEF PassInv
<1>2. QED
  BY <1>1, AlwaysPassInv, PTL

\* The function and what mem2reg has made of it, run side by side with the same
\* arguments and the same results of every computation, call and read of memory:
\* each instruction that is kept finds the same operands in both, wherever it
\* stands and however often it is reached.
THEOREM PromotionKeepsOperands == Spec => []SameOperands
<1>1. PassInv => SameOperands
  BY RunsAgree DEF PassInv
<1>2. QED
  BY <1>1, AlwaysPassInv, PTL
=============================================================================
