--------------------------- MODULE RenamingProofs ---------------------------
(***************************************************************************)
(* What the renaming walk of mem2reg works out, for every function of any  *)
(* size (RenamingInv).                                                     *)
(*                                                                         *)
(*   1. The place of phis (g) and the tree determine what each variable    *)
(*      has at each place: a system of equations along the tree, which the *)
(*      walk solves one place at a time (Solved).  Whatever the walk has   *)
(*      put down may be named where it stands, because what a parent has   *)
(*      is defined above its children.                                     *)
(*   2. The function being rewritten is g with every instruction turned    *)
(*      into what it is by then (Rewritten): loads are replaced in the     *)
(*      whole function, phis have the entries of the edges seen to.        *)
(*   3. The calls that have not returned are a path of the tree (Walking)  *)
(*      and the tops of the stacks are the solution where the walk is      *)
(*      (Stacked): a return pops what the call has pushed, no more.        *)
(*                                                                         *)
(* The solution and the heights of the stacks exist only in the proof,     *)
(* which carries them from each step to the next; RenamingInv says that    *)
(* they exist.                                                             *)
(***************************************************************************)
EXTENDS DominatorsProofs

-----------------------------------------------------------------------------
(* What the renaming has worked out. *)

\* The index of a block whose instructions and edges have been seen to.
End(g, b) == Len(g.blocks[b]) + 2

\* What instructions of g may name.
Names(f, g) ==
  Literals \cup Params(f)
  \cup UNION {{g.blocks[b][p].res : p \in DOMAIN g.blocks[b]} : b \in Blocks(f)}

\* The value is not that of a load, and no variable.
Lasting(f, g, v) ==
  \A c \in Blocks(f) : \A q \in DOMAIN g.blocks[c] :
    g.blocks[c][q].res = v /\ v # NoValue => g.blocks[c][q].op \notin {"load", "alloca"}
\* What may stand for a variable at a place.
Fits(f, g, v, b, p) == Available(f, g, v, b, p) /\ Lasting(f, g, v)

\* The value of x behind an instruction, held being what it is before.
Given(f, inst, sig, held, x) ==
  IF IsNew(f, inst) /\ inst.res[2] = x THEN inst.res
  ELSE IF inst.op = "set" /\ inst.args[1] = x THEN sig[inst.args[2]]
  ELSE held[x]

\* sig is what became of each value, cur[b][p][x] the value of x at a place, and
\* prog how far the walk has got in each block, 0 if it has not been there.
Progressing(f, g, prog) ==
  /\ prog \in [Blocks(f) -> Nat] /\ \A b \in Blocks(f) : prog[b] <= End(g, b)
  /\ prog[Entry] # 0
  /\ \A b, c \in Blocks(f) : prog[b] # 0 /\ StrictlyDominates(f, c, b) => prog[c] = End(g, c)

\* A value is still its own but for those of loads that have been seen to.
Renamed(f, g, sig, prog) ==
  /\ DOMAIN sig = Names(f, g)
  /\ \A v \in Names(f, g) :
       \/ sig[v] = v
       \/ \E b \in Blocks(f) : \E p \in DOMAIN g.blocks[b] :
            p < prog[b] /\ g.blocks[b][p].op = "load" /\ g.blocks[b][p].res = v

\* A variable has at the head of a block what it has at the end of the parent.
EntryValues(f, d, g, prog, cur) ==
  \A b \in Blocks(f) : prog[b] # 0 => \A x \in Locals(f) :
       cur[b][1][x] = IF b = Entry THEN Zero ELSE cur[d[b]][End(g, d[b])][x]

\* Behind an instruction a variable has what the instruction leaves it.
ValuesGiven(f, g, sig, prog, cur) ==
  \A b \in Blocks(f) : \A p \in DOMAIN g.blocks[b] : p < prog[b] =>
    \A x \in Locals(f) : cur[b][p + 1][x] = Given(f, g.blocks[b][p], sig, cur[b][p], x)

\* A load has been replaced by what the variable had there.
LoadsRead(f, g, sig, prog, cur) ==
  \A b \in Blocks(f) : \A p \in DOMAIN g.blocks[b] : p < prog[b] /\ g.blocks[b][p].op = "load" =>
    sig[g.blocks[b][p].res] = cur[b][p][g.blocks[b][p].args[1]]

\* Seeing to a block's edges changes no variable.
EndValues(f, g, prog, cur) ==
  \A b \in Blocks(f) : prog[b] = End(g, b) => \A x \in Locals(f) :
    cur[b][End(g, b)][x] = cur[b][Len(g.blocks[b]) + 1][x]

\* What a variable has may be named there.
ValuesFit(f, g, prog, cur) ==
  \A b \in Blocks(f) : \A p \in 1 .. prog[b] : \A x \in Locals(f) : Fits(f, g, cur[b][p][x], b, p)

\* What the renaming has worked out when it has got as far as prog.
Solved(f, d, g, sig, prog, cur) ==
  /\ Progressing(f, g, prog)
  /\ Renamed(f, g, sig, prog)
  /\ EntryValues(f, d, g, prog, cur)
  /\ ValuesGiven(f, g, sig, prog, cur)
  /\ LoadsRead(f, g, sig, prog, cur)
  /\ EndValues(f, g, prog, cur)
  /\ ValuesFit(f, g, prog, cur)

\* What is defined at a place is a name of the function.
LEMMA AvailableIsNamed ==
  ASSUME NEW f, NEW g, NEW v, NEW b, NEW p, Available(f, g, v, b, p)
  PROVE  v \in Names(f, g)
<1>1. CASE v \in Literals \cup Params(f)
  BY <1>1 DEF Names
<1>2. CASE v \notin Literals \cup Params(f)
  <2>1. PICK c \in Blocks(f) : \E q \in DOMAIN g.blocks[c] : g.blocks[c][q].res = v
    BY <1>2 DEF Available
  <2>2. QED
    BY <2>1 DEF Names
<1>3. QED
  BY <1>1, <1>2

\* What is available stays available further on.
LEMMA AvailableLater ==
  ASSUME NEW f, NEW d, DomTree(f, d), NEW g, Base(f, g), NEW v,
         NEW c \in Blocks(f), NEW q \in Int, NEW b \in Blocks(f), NEW p \in Int,
         Available(f, g, v, c, q), Ahead(f, c, q, b, p) \/ (c = b /\ q = p)
  PROVE  Available(f, g, v, b, p)
<1>1. CASE v \in Literals \cup Params(f)
  BY <1>1 DEF Available
<1>2. CASE v \notin Literals \cup Params(f)
  <2>1. PICK e, r : /\ e \in Blocks(f) /\ r \in DOMAIN g.blocks[e]
                    /\ g.blocks[e][r].res = v /\ Ahead(f, e, r, c, q) /\ v # NoValue
    BY <1>2 DEF Available
  <2>2. r \in Int
    BY <2>1 DEF Base
  <2>3. Ahead(f, e, r, b, p)
    <3>1. CASE c = b /\ q <= p
      BY <2>1, <2>2, <3>1 DEF Ahead
    <3>2. CASE StrictlyDominates(f, c, b)
      <4>1. e = c \/ StrictlyDominates(f, e, c)
        BY <2>1 DEF Ahead
      <4>2. StrictlyDominates(f, e, b)
        BY <2>1, <3>2, <4>1 DEF DomTree
      <4>3. QED
        BY <4>2 DEF Ahead
    <3>3. QED
      BY <3>1, <3>2 DEF Ahead
  <2>4. QED
    BY <2>1, <2>3 DEF Available
<1>3. QED
  BY <1>1, <1>2

\* A value that is available has been dealt with.
LEMMA DefinedBefore ==
  ASSUME NEW f, NEW g, Base(f, g), NEW prog, Progressing(f, g, prog),
         NEW c \in Blocks(f), NEW q \in DOMAIN g.blocks[c], g.blocks[c][q].res # NoValue,
         NEW b \in Blocks(f), NEW p \in 1 .. prog[b], Available(f, g, g.blocks[c][q].res, b, p)
  PROVE  q < prog[c] /\ Ahead(f, c, q, b, p)
<1> DEFINE v == g.blocks[c][q].res
<1>1. v \notin Literals \cup Params(f)
  BY DEF Base
<1>2. PICK e, r : /\ e \in Blocks(f) /\ r \in DOMAIN g.blocks[e]
                  /\ g.blocks[e][r].res = v /\ Ahead(f, e, r, b, p)
  BY <1>1 DEF Available
<1>3. e = c /\ r = q
  BY <1>2 DEF Base
<1>4. Ahead(f, c, q, b, p)
  BY <1>2, <1>3
<1>5. /\ q \in 1 .. Len(g.blocks[c]) /\ Len(g.blocks[c]) \in Nat
      /\ prog[b] \in Nat /\ prog[c] \in Nat /\ p \in Int /\ 1 <= p /\ p <= prog[b]
  BY DEF Base, Progressing
<1>6. CASE c = b /\ q < p
  BY <1>4, <1>5, <1>6
<1>7. CASE StrictlyDominates(f, c, b)
  <2>1. prog[b] # 0
    BY <1>5
  <2>2. prog[c] = Len(g.blocks[c]) + 2
    BY <1>7, <2>1 DEF Progressing, End
  <2>3. QED
    BY <1>4, <1>5, <2>2
<1>8. QED
  BY <1>4, <1>6, <1>7 DEF Ahead

\* What becomes of a value that is available is available and lasts.
LEMMA OperandsFit ==
  ASSUME NEW f, NEW d, DomTree(f, d), NEW g, Base(f, g), NEW sig, NEW prog, NEW cur,
         Solved(f, d, g, sig, prog, cur), NEW v, v \notin Locals(f),
         NEW b \in Blocks(f), NEW p \in 1 .. prog[b], Available(f, g, v, b, p)
  PROVE  Fits(f, g, sig[v], b, p)
<1>1. v \in Names(f, g)
  BY AvailableIsNamed
<1>2. prog[b] \in Nat /\ p \in Int
  BY DEF Solved, Progressing
<1>3. CASE \E c \in Blocks(f) : \E q \in DOMAIN g.blocks[c] :
             g.blocks[c][q].res = v /\ v # NoValue /\ g.blocks[c][q].op = "load"
  <2>1. PICK c, q : /\ c \in Blocks(f) /\ q \in DOMAIN g.blocks[c]
                    /\ g.blocks[c][q].res = v /\ v # NoValue /\ g.blocks[c][q].op = "load"
    BY <1>3
  <2>2. q < prog[c] /\ Ahead(f, c, q, b, p)
    BY <2>1, DefinedBefore DEF Solved
  <2> DEFINE x == g.blocks[c][q].args[1]
  <2>3. sig[v] = cur[c][q][x]
    BY <2>1, <2>2 DEF Solved, LoadsRead
  <2>4. q \in 1 .. prog[c] /\ q \in Int
    <3>1. q \in 1 .. Len(g.blocks[c]) /\ Len(g.blocks[c]) \in Nat /\ prog[c] \in Nat
      BY <2>1 DEF Base, Solved, Progressing
    <3>2. QED
      BY <2>2, <3>1
  <2>5. x \in Locals(f)
    <3>1. ~IsNew(f, g.blocks[c][q])
      BY <2>1 DEF IsNew
    <3>2. Shapely(f, g, c, q)
      BY <2>1, <3>1 DEF Base
    <3>3. QED
      BY <2>1, <3>2 DEF Shapely
  <2>6. Fits(f, g, cur[c][q][x], c, q)
    BY <2>1, <2>4, <2>5 DEF Solved, ValuesFit
  <2> HIDE DEF x
  <2>7. Available(f, g, sig[v], b, p)
    BY <1>2, <2>1, <2>2, <2>3, <2>4, <2>6, AvailableLater DEF Fits
  <2>8. QED
    BY <2>3, <2>6, <2>7 DEF Fits
<1>4. CASE ~ \E c \in Blocks(f) : \E q \in DOMAIN g.blocks[c] :
             g.blocks[c][q].res = v /\ v # NoValue /\ g.blocks[c][q].op = "load"
  <2>1. sig[v] = v
    <3>1. CASE v = NoValue
      <4>1. ~ \E c \in Blocks(f) : \E q \in DOMAIN g.blocks[c] :
               g.blocks[c][q].op = "load" /\ g.blocks[c][q].res = v
        <5>1. ASSUME NEW c \in Blocks(f), NEW q \in DOMAIN g.blocks[c], g.blocks[c][q].op = "load"
              PROVE  g.blocks[c][q].res # NoValue
          <6>1. ~IsNew(f, g.blocks[c][q])
            BY <5>1 DEF IsNew
          <6>2. Shapely(f, g, c, q)
            BY <5>1, <6>1 DEF Base
          <6>3. QED
            BY <5>1, <6>2 DEF Shapely
        <5>2. QED
          BY <3>1, <5>1
      <4>2. QED
        BY <1>1, <4>1 DEF Solved, Renamed
    <3>2. CASE v # NoValue
      BY <1>1, <1>4, <3>2 DEF Solved, Renamed
    <3>3. QED
      BY <3>1, <3>2
  <2>2. Lasting(f, g, v)
    <3>1. ASSUME NEW c \in Blocks(f), NEW q \in DOMAIN g.blocks[c], g.blocks[c][q].res = v,
                 g.blocks[c][q].op = "alloca"
          PROVE  FALSE
      <4>1. ~IsNew(f, g.blocks[c][q])
        BY <3>1 DEF IsNew
      <4>2. Shapely(f, g, c, q)
        BY <3>1, <4>1 DEF Base
      <4>3. QED
        BY <3>1, <4>2 DEF Shapely
    <3>2. QED
      BY <1>4, <3>1 DEF Lasting
  <2>3. QED
    BY <2>1, <2>2 DEF Fits
<1>5. QED
  BY <1>3, <1>4

\* The walk begins: nothing is renamed, and a variable without a value is 0.
LEMMA SolvingStarts ==
  ASSUME NEW f \in Functions, NEW d, DomTree(f, d), NEW g, Base(f, g)
  PROVE  Solved(f, d, g, [v \in Names(f, g) |-> v],
                [b \in Blocks(f) |-> IF b = Entry THEN 1 ELSE 0],
                [b \in Blocks(f) |-> [p \in Nat |-> [x \in Locals(f) |-> Zero]]])
<1> DEFINE sig == [v \in Names(f, g) |-> v]
           prog == [b \in Blocks(f) |-> IF b = Entry THEN 1 ELSE 0]
           cur == [b \in Blocks(f) |-> [p \in Nat |-> [x \in Locals(f) |-> Zero]]]
<1>1. Entry \in Blocks(f) /\ \A b \in Blocks(f) : End(g, b) \in Nat /\ End(g, b) >= 2
  <2>1. \A b \in Blocks(f) : Len(g.blocks[b]) \in Nat
    BY DEF Base
  <2>2. QED
    BY <2>1 DEF DomTree, End
<1>2. \A b \in Blocks(f) : prog[b] \in Nat /\ prog[b] <= 1 /\ (prog[b] # 0 <=> b = Entry)
  OBVIOUS
<1>3. prog \in [Blocks(f) -> Nat]
  OBVIOUS
<1> HIDE DEF prog
<1>4. Progressing(f, g, prog)
  <2>1. \A b \in Blocks(f) : prog[b] <= End(g, b)
    BY <1>1, <1>2
  <2>2. \A b, c \in Blocks(f) : ~(prog[b] # 0 /\ StrictlyDominates(f, c, b))
    BY <1>2 DEF DomTree
  <2>3. QED
    BY <1>1, <1>2, <1>3, <2>1, <2>2 DEF Progressing
<1>5. Renamed(f, g, sig, prog)
  BY DEF Renamed
<1>6. ASSUME NEW b \in Blocks(f), NEW p \in DOMAIN g.blocks[b] PROVE ~(p < prog[b])
  <2>1. p \in 1 .. Len(g.blocks[b]) /\ Len(g.blocks[b]) \in Nat
    BY DEF Base
  <2>2. QED
    BY <1>2, <2>1
<1>7. ValuesGiven(f, g, sig, prog, cur)
  BY <1>6 DEF ValuesGiven
<1>8. LoadsRead(f, g, sig, prog, cur)
  BY <1>6 DEF LoadsRead
<1>9. \A b \in Blocks(f), p \in Nat, x \in Locals(f) : cur[b][p][x] = Zero
  OBVIOUS
<1>10. EntryValues(f, d, g, prog, cur)
  BY <1>2, <1>9 DEF EntryValues
<1>11. EndValues(f, g, prog, cur)
  <2>1. \A b \in Blocks(f) : prog[b] # End(g, b)
    BY <1>1, <1>2
  <2>2. QED
    BY <2>1 DEF EndValues
<1>12. ValuesFit(f, g, prog, cur)
  <2>1. ASSUME NEW b, NEW p PROVE Fits(f, g, Zero, b, p)
    <3>1. Zero \in Literals
      BY ZeroLiteral
    <3>2. \A c \in Blocks(f) : \A q \in DOMAIN g.blocks[c] : g.blocks[c][q].res # Zero
      BY <3>1 DEF Base
    <3>3. QED
      BY <3>1, <3>2 DEF Fits, Available, Lasting
  <2>2. ASSUME NEW b \in Blocks(f), NEW p \in 1 .. prog[b] PROVE p \in Nat
    BY <1>2
  <2> HIDE DEF cur
  <2>3. QED
    BY <1>9, <2>1, <2>2 DEF ValuesFit
<1> HIDE DEF sig, cur
<1>13. Solved(f, d, g, sig, prog, cur)
  BY <1>4, <1>5, <1>7, <1>8, <1>10, <1>11, <1>12 DEF Solved
<1>14. QED
  BY <1>13 DEF sig, prog, cur

\* One step on in block h: into it, over an instruction, or over its edges.
Onward(f, d, g, sig, prog, cur, h) ==
  [x \in Locals(f) |->
     IF prog[h] = 0 THEN cur[d[h]][End(g, d[h])][x]
     ELSE IF prog[h] \in DOMAIN g.blocks[h]
     THEN Given(f, g.blocks[h][prog[h]], sig, cur[h][prog[h]], x)
     ELSE cur[h][prog[h]][x]]
\* Block h is one place further on.
NextProg(prog, h) == [prog EXCEPT ![h] = @ + 1]
\* What variables have, the next place of h added.
NextCur(f, d, g, sig, prog, cur, h) ==
  [b \in Blocks(f) |-> [p \in Nat |->
     IF b = h /\ p = prog[h] + 1 THEN Onward(f, d, g, sig, prog, cur, h) ELSE cur[b][p]]]
\* The walk stands at a load.
AtLoad(g, prog, h) == prog[h] \in DOMAIN g.blocks[h] /\ g.blocks[h][prog[h]].op = "load"
\* What became of values, the load the walk stands at added.
NextSig(f, g, sig, prog, cur, h) ==
  [v \in Names(f, g) |->
     IF AtLoad(g, prog, h) /\ v = g.blocks[h][prog[h]].res
     THEN cur[h][prog[h]][g.blocks[h][prog[h]].args[1]]
     ELSE sig[v]]

\* Where the walk may go on.
MayGoOn(d, g, prog, h) ==
  IF prog[h] = 0 THEN h # Entry /\ prog[d[h]] = End(g, d[h]) ELSE prog[h] # End(g, h)

\* What a variable has at the next place may be named there.
LEMMA OnwardFits ==
  ASSUME NEW f \in Functions, NEW d, DomTree(f, d), NEW g, Base(f, g), NEW sig, NEW prog, NEW cur,
         Solved(f, d, g, sig, prog, cur), NEW h \in Blocks(f), MayGoOn(d, g, prog, h),
         NEW x \in Locals(f)
  PROVE  Fits(f, g, Onward(f, d, g, sig, prog, cur, h)[x], h, prog[h] + 1)
<1> DEFINE i == prog[h]
           inst == g.blocks[h][i]
<1>1. /\ i \in Nat /\ i <= End(g, h) /\ End(g, h) = Len(g.blocks[h]) + 2
      /\ Len(g.blocks[h]) \in Nat /\ DOMAIN g.blocks[h] = 1 .. Len(g.blocks[h])
  BY DEF Solved, Progressing, Base, End
<1> HIDE DEF i
<1>2. ASSUME i # 0 PROVE Fits(f, g, cur[h][i][x], h, i + 1)
  <2>1. i \in 1 .. i /\ i < i + 1
    BY <1>1, <1>2
  <2>2. Fits(f, g, cur[h][i][x], h, i)
    BY <2>1 DEF Solved, ValuesFit, i
  <2>3. Ahead(f, h, i, h, i + 1) /\ i \in Int /\ i + 1 \in Int
    BY <1>1, <2>1 DEF Ahead
  <2>4. QED
    BY <2>2, <2>3, AvailableLater DEF Fits
<1>3. CASE i = 0
  <2>1. h # Entry /\ prog[d[h]] = End(g, d[h]) /\ d[h] \in Blocks(f)
    BY <1>3 DEF MayGoOn, i, DomTree
  <2>2. PICK e \in Blocks(f) : e = d[h]
    BY <2>1
  <2>3. End(g, e) \in Nat /\ End(g, e) \in 1 .. prog[e]
    <3>1. Len(g.blocks[e]) \in Nat /\ End(g, e) = Len(g.blocks[e]) + 2 /\ prog[e] = End(g, e)
      BY <2>1, <2>2 DEF Base, End
    <3>2. QED
      BY <3>1
  <2>4. Fits(f, g, cur[e][End(g, e)][x], e, End(g, e))
    BY <2>3 DEF Solved, ValuesFit
  <2>5. Ahead(f, e, End(g, e), h, i + 1) /\ End(g, e) \in Int /\ i + 1 \in Int
    BY <1>1, <2>1, <2>2, <2>3 DEF Ahead, DomTree
  <2>6. Fits(f, g, cur[e][End(g, e)][x], h, i + 1)
    BY <2>4, <2>5, AvailableLater DEF Fits
  <2>7. Onward(f, d, g, sig, prog, cur, h)[x] = cur[e][End(g, e)][x]
    BY <1>3, <2>2 DEF Onward, i
  <2>8. QED
    BY <2>6, <2>7 DEF i
<1>4. CASE i \in DOMAIN g.blocks[h]
  <2>0. i # 0 /\ i \in 1 .. i
    BY <1>1, <1>4
  <2>1. Onward(f, d, g, sig, prog, cur, h)[x] = Given(f, inst, sig, cur[h][i], x)
    BY <1>4, <2>0 DEF Onward, i
  <2>2. CASE IsNew(f, inst) /\ inst.res[2] = x
    <3>1. Given(f, inst, sig, cur[h][i], x) = inst.res
      BY <2>2 DEF Given
    <3>2. inst.res # NoValue /\ inst.op = "phi"
      BY <1>4, <2>2 DEF Base, IsNew
    <3>3. Ahead(f, h, i, h, i + 1)
      BY <1>1 DEF Ahead
    <3>4. Available(f, g, inst.res, h, i + 1)
      BY <1>4, <3>2, <3>3 DEF Available
    <3>5. ASSUME NEW c \in Blocks(f), NEW q \in DOMAIN g.blocks[c], g.blocks[c][q].res = inst.res
          PROVE  g.blocks[c][q].op = "phi"
      <4>1. c = h /\ q = i
        BY <1>4, <3>2, <3>5 DEF Base
      <4>2. QED
        BY <3>2, <4>1
    <3>6. Lasting(f, g, inst.res)
      BY <3>5 DEF Lasting
    <3>7. QED
      BY <2>1, <3>1, <3>4, <3>6 DEF Fits, i
  <2>3. CASE ~(IsNew(f, inst) /\ inst.res[2] = x) /\ inst.op = "set" /\ inst.args[1] = x
    <3>1. Given(f, inst, sig, cur[h][i], x) = sig[inst.args[2]]
      BY <2>3 DEF Given
    <3>2. ~IsNew(f, inst)
      BY <2>3 DEF IsNew
    <3>3. Shapely(f, g, h, i) /\ Supplied(f, g, h, i)
      BY <1>4, <3>2 DEF Base
    <3>4. 2 \in DOMAIN inst.args /\ inst.args[2] \notin Locals(f)
      BY <2>3, <3>3 DEF Shapely
    <3>5. Available(f, g, inst.args[2], h, i)
      BY <2>3, <3>3, <3>4 DEF Supplied
    <3>6. Fits(f, g, sig[inst.args[2]], h, i)
      <4>1. i \in 1 .. prog[h]
        BY <2>0 DEF i
      <4> HIDE DEF inst
      <4>2. QED
        BY <3>4, <3>5, <4>1, OperandsFit
    <3>7. Ahead(f, h, i, h, i + 1) /\ i \in Int /\ i + 1 \in Int
      BY <1>1 DEF Ahead
    <3> HIDE DEF inst
    <3>8. Fits(f, g, sig[inst.args[2]], h, i + 1)
      BY <3>6, <3>7, AvailableLater DEF Fits
    <3>9. QED
      BY <2>1, <3>1, <3>8 DEF i
  <2>4. CASE ~(IsNew(f, inst) /\ inst.res[2] = x) /\ ~(inst.op = "set" /\ inst.args[1] = x)
    <3>1. Given(f, inst, sig, cur[h][i], x) = cur[h][i][x]
      BY <2>4 DEF Given
    <3>2. QED
      BY <1>2, <2>0, <2>1, <3>1 DEF i
  <2>5. QED
    BY <2>2, <2>3, <2>4
<1>5. CASE i # 0 /\ i \notin DOMAIN g.blocks[h]
  <2>1. Onward(f, d, g, sig, prog, cur, h)[x] = cur[h][i][x]
    BY <1>5 DEF Onward, i
  <2>2. QED
    BY <1>2, <1>5, <2>1 DEF i
<1>6. QED
  BY <1>3, <1>4, <1>5

\* One step on keeps all that was worked out.
LEMMA SolvedFurther ==
  ASSUME NEW f \in Functions, NEW d, DomTree(f, d), NEW g, Base(f, g), NEW sig, NEW prog, NEW cur,
         Solved(f, d, g, sig, prog, cur), NEW h \in Blocks(f), MayGoOn(d, g, prog, h)
  PROVE  Solved(f, d, g, NextSig(f, g, sig, prog, cur, h), NextProg(prog, h),
                NextCur(f, d, g, sig, prog, cur, h))
<1> DEFINE i == prog[h]
           inst == g.blocks[h][i]
           on == Onward(f, d, g, sig, prog, cur, h)
           sig2 == NextSig(f, g, sig, prog, cur, h)
           prog2 == NextProg(prog, h)
           cur2 == NextCur(f, d, g, sig, prog, cur, h)
<1>1. /\ prog \in [Blocks(f) -> Nat]
      /\ \A b \in Blocks(f) : /\ prog[b] \in Nat /\ prog[b] <= End(g, b)
                              /\ End(g, b) = Len(g.blocks[b]) + 2
                              /\ Len(g.blocks[b]) \in Nat /\ DOMAIN g.blocks[b] = 1 .. Len(g.blocks[b])
  BY DEF Solved, Progressing, Base, End
<1>2. /\ prog2 \in [Blocks(f) -> Nat]
      /\ prog2[h] = i + 1
      /\ \A b \in Blocks(f) : b # h => prog2[b] = prog[b]
  BY <1>1 DEF NextProg
<1>3. /\ \A b \in Blocks(f), p \in Nat : b # h \/ p # i + 1 => cur2[b][p] = cur[b][p]
      /\ cur2[h][i + 1] = on
  <2>1. i + 1 \in Nat
    BY <1>1
  <2>2. QED
    BY <2>1 DEF NextCur
<1>4. \A v \in Names(f, g) :
        sig2[v] = IF AtLoad(g, prog, h) /\ v = inst.res THEN cur[h][i][inst.args[1]] ELSE sig[v]
  BY DEF NextSig
<1>d. DOMAIN sig2 = Names(f, g)
  BY DEF NextSig
<1>o. \A x \in Locals(f) : Fits(f, g, on[x], h, i + 1)
  BY OnwardFits
<1>on. \A x \in Locals(f) : on[x] = IF i = 0 THEN cur[d[h]][End(g, d[h])][x]
                                    ELSE IF i \in DOMAIN g.blocks[h]
                                    THEN Given(f, inst, sig, cur[h][i], x)
                                    ELSE cur[h][i][x]
  BY DEF Onward
<1>m. IF i = 0 THEN h # Entry /\ prog[d[h]] = End(g, d[h]) ELSE i # End(g, h)
  BY DEF MayGoOn
<1>w. i \in Nat /\ i + 1 # 0
  BY <1>1
<1> HIDE DEF sig2, prog2, cur2, on
<1>5. ASSUME AtLoad(g, prog, h)
      PROVE  i \in DOMAIN g.blocks[h] /\ inst.op = "load" /\ inst.res # NoValue
             /\ inst.args[1] \in Locals(f) /\ inst.res \in Names(f, g)
  <2>1. i \in DOMAIN g.blocks[h] /\ inst.op = "load"
    BY <1>5 DEF AtLoad
  <2>2. ~IsNew(f, inst)
    BY <2>1 DEF IsNew
  <2>3. Shapely(f, g, h, i)
    BY <2>1, <2>2 DEF Base
  <2>4. QED
    BY <2>1, <2>3 DEF Shapely, Names
<1> HIDE DEF inst
<1>6. ASSUME NEW b \in Blocks(f), NEW p \in 1 .. prog[b], NEW v, Available(f, g, v, b, p)
      PROVE  sig2[v] = sig[v]
  <2>1. v \in Names(f, g)
    BY <1>6, AvailableIsNamed
  <2>2. ASSUME AtLoad(g, prog, h), v = inst.res PROVE FALSE
    <3>1. i < prog[h]
      <4>1. /\ i \in DOMAIN g.blocks[h] /\ g.blocks[h][i].res # NoValue
            /\ Available(f, g, g.blocks[h][i].res, b, p)
        BY <1>5, <1>6, <2>2 DEF inst
      <4>2. Progressing(f, g, prog)
        BY DEF Solved
      <4> HIDE DEF i
      <4>3. QED
        BY <4>1, <4>2, DefinedBefore
    <3>2. QED
      BY <1>1, <3>1
  <2>3. QED
    BY <1>4, <2>1, <2>2
<1>7. ASSUME NEW b \in Blocks(f), NEW p \in DOMAIN g.blocks[b], p < prog2[b]
      PROVE  /\ p \in Nat /\ p + 1 \in Nat /\ p \in 1 .. prog[b]
             /\ p < prog[b] \/ (b = h /\ p = i)
             /\ cur2[b][p] = cur[b][p]
             /\ p < prog[b] => cur2[b][p + 1] = cur[b][p + 1]
  <2>1. p \in 1 .. Len(g.blocks[b]) /\ Len(g.blocks[b]) \in Nat /\ prog[b] \in Nat
    BY <1>1
  <2>2. CASE b = h
    <3>1. p <= i
      BY <1>2, <1>7, <1>w, <2>1, <2>2
    <3>2. p # i + 1 /\ (p < i => p + 1 # i + 1)
      BY <1>w, <2>1, <3>1
    <3>3. QED
      BY <1>3, <1>w, <2>1, <2>2, <3>1, <3>2
  <2>3. CASE b # h
    BY <1>2, <1>3, <1>7, <2>1, <2>3
  <2>4. QED
    BY <2>2, <2>3
<1>8. Progressing(f, g, prog2)
  <2>1. ASSUME NEW b \in Blocks(f) PROVE prog2[b] <= End(g, b)
    <3>1. CASE b = h
      BY <1>1, <1>2, <1>m, <1>w, <3>1
    <3>2. CASE b # h
      BY <1>1, <1>2, <3>2
    <3>3. QED
      BY <3>1, <3>2
  <2>2. prog2[Entry] # 0
    <3>1. Entry \in Blocks(f) /\ prog[Entry] # 0
      BY DEF DomTree, Solved, Progressing
    <3>2. QED
      BY <1>2, <1>w, <3>1
  <2>3. ASSUME NEW b \in Blocks(f), NEW c \in Blocks(f), prog2[b] # 0, StrictlyDominates(f, c, b)
        PROVE  prog2[c] = End(g, c)
    <3>1. \A e \in Blocks(f) : prog[b] # 0 /\ StrictlyDominates(f, e, b) => prog[e] = End(g, e)
      BY DEF Solved, Progressing
    <3>2. CASE prog[b] # 0
      <4>1. prog[c] = End(g, c)
        BY <2>3, <3>1, <3>2
      <4>2. c # h
        <5>1. End(g, c) # 0
          BY <1>1
        <5>2. QED
          BY <1>m, <4>1, <5>1
      <4>3. QED
        BY <1>2, <4>1, <4>2
    <3>3. CASE prog[b] = 0
      <4>1. b = h /\ i = 0
        BY <1>2, <2>3, <3>3
      <4>2. h # Entry /\ prog[d[h]] = End(g, d[h]) /\ d[h] \in Blocks(f)
        BY <1>m, <4>1 DEF DomTree
      <4>3. c = d[h] \/ StrictlyDominates(f, c, d[h])
        BY <2>3, <4>1, <4>2 DEF DomTree
      <4>4. prog[d[h]] # 0
        BY <1>1, <4>2
      <4>5. prog[c] = End(g, c)
        BY <4>2, <4>3, <4>4 DEF Solved, Progressing
      <4>6. c # h
        BY <2>3, <4>1 DEF DomTree
      <4>7. QED
        BY <1>2, <4>5, <4>6
    <3>4. QED
      BY <3>2, <3>3
  <2>4. QED
    BY <1>2, <2>1, <2>2, <2>3 DEF Progressing
<1>9. Renamed(f, g, sig2, prog2)
  <2>1. ASSUME NEW v \in Names(f, g), sig2[v] # v
        PROVE  \E b \in Blocks(f) : \E p \in DOMAIN g.blocks[b] :
                 p < prog2[b] /\ g.blocks[b][p].op = "load" /\ g.blocks[b][p].res = v
    <3>1. CASE AtLoad(g, prog, h) /\ v = inst.res
      <4>1. i < prog2[h]
        BY <1>2, <1>w
      <4>2. i \in DOMAIN g.blocks[h] /\ g.blocks[h][i].op = "load" /\ g.blocks[h][i].res = v
        BY <1>5, <3>1 DEF inst
      <4>3. QED
        BY <4>1, <4>2
    <3>2. CASE ~(AtLoad(g, prog, h) /\ v = inst.res)
      <4>1. sig[v] # v
        BY <1>4, <2>1, <3>2
      <4>2. PICK b, p : /\ b \in Blocks(f) /\ p \in DOMAIN g.blocks[b] /\ p < prog[b]
                        /\ g.blocks[b][p].op = "load" /\ g.blocks[b][p].res = v
        BY <4>1 DEF Solved, Renamed
      <4>3. p < prog2[b]
        <5>1. p \in 1 .. Len(g.blocks[b]) /\ Len(g.blocks[b]) \in Nat /\ prog[b] \in Nat
          BY <1>1, <4>2
        <5>2. prog2[b] = prog[b] \/ prog2[b] = prog[b] + 1
          BY <1>2, <4>2
        <5>3. QED
          BY <4>2, <5>1, <5>2
      <4>4. QED
        BY <4>2, <4>3
    <3>3. QED
      BY <3>1, <3>2
  <2>2. QED
    BY <1>d, <2>1 DEF Renamed
<1>10. EntryValues(f, d, g, prog2, cur2)
  <2>1. ASSUME NEW b \in Blocks(f), prog2[b] # 0, NEW x \in Locals(f)
        PROVE  cur2[b][1][x] = IF b = Entry THEN Zero ELSE cur2[d[b]][End(g, d[b])][x]
    <3>1. ASSUME b # Entry
          PROVE  cur2[d[b]][End(g, d[b])] = cur[d[b]][End(g, d[b])]
      <4>1. PICK e \in Blocks(f) : e = d[b]
        BY DEF DomTree
      <4>2. End(g, e) \in Nat /\ End(g, e) # 0
        BY <1>1
      <4>3. StrictlyDominates(f, e, b)
        BY <3>1, <4>1 DEF DomTree
      <4>4. prog2[e] = End(g, e)
        BY <1>8, <2>1, <4>3 DEF Progressing
      <4>5. ASSUME e = h PROVE End(g, e) # i + 1
        <5>1. CASE b = h
          BY <4>3, <4>5, <5>1 DEF DomTree
        <5>2. CASE b # h
          <6>1. prog[b] # 0
            BY <1>2, <2>1, <5>2
          <6>2. prog[e] = End(g, e)
            BY <4>3, <6>1 DEF Solved, Progressing
          <6>3. QED
            BY <1>m, <4>2, <4>5, <6>2
        <5>3. QED
          BY <5>1, <5>2
      <4>6. cur2[e][End(g, e)] = cur[e][End(g, e)]
        BY <1>3, <4>2, <4>5
      <4>7. QED
        BY <4>1, <4>6
    <3>2. CASE b = h /\ i = 0
      <4>1. cur2[b][1] = on /\ b # Entry
        BY <1>3, <1>m, <3>2
      <4>2. on[x] = cur[d[b]][End(g, d[b])][x]
        BY <1>on, <3>2
      <4>3. QED
        BY <3>1, <4>1, <4>2
    <3>3. CASE ~(b = h /\ i = 0)
      <4>1. prog[b] # 0
        BY <1>2, <2>1, <3>3
      <4>2. cur[b][1][x] = IF b = Entry THEN Zero ELSE cur[d[b]][End(g, d[b])][x]
        BY <4>1 DEF Solved, EntryValues
      <4>3. cur2[b][1] = cur[b][1]
        BY <1>3, <1>w, <3>3
      <4>4. QED
        BY <3>1, <4>2, <4>3
    <3>4. QED
      BY <3>2, <3>3
  <2>2. QED
    BY <2>1 DEF EntryValues
<1>11. ValuesGiven(f, g, sig2, prog2, cur2)
  <2>1. ASSUME NEW b \in Blocks(f), NEW p \in DOMAIN g.blocks[b], p < prog2[b], NEW x \in Locals(f)
        PROVE  cur2[b][p + 1][x] = Given(f, g.blocks[b][p], sig2, cur2[b][p], x)
    <3> DEFINE it == g.blocks[b][p]
    <3>1. /\ p \in 1 .. prog[b] /\ cur2[b][p] = cur[b][p]
          /\ p < prog[b] \/ (b = h /\ p = i)
          /\ p < prog[b] => cur2[b][p + 1] = cur[b][p + 1]
      BY <1>7, <2>1
    <3>2. cur2[b][p + 1][x] = Given(f, it, sig, cur[b][p], x)
      <4>1. CASE p < prog[b]
        BY <3>1, <4>1 DEF Solved, ValuesGiven
      <4>2. CASE b = h /\ p = i
        <5>1. cur2[b][p + 1] = on /\ i # 0 /\ i \in DOMAIN g.blocks[h]
          BY <1>1, <1>3, <3>1, <4>2
        <5>2. on[x] = Given(f, inst, sig, cur[h][i], x)
          BY <1>on, <5>1
        <5>3. QED
          BY <4>2, <5>1, <5>2 DEF inst
      <4>3. QED
        BY <3>1, <4>1, <4>2
    <3>3. ASSUME it.op = "set" PROVE sig2[it.args[2]] = sig[it.args[2]]
      <4>1. ~IsNew(f, it)
        BY <3>3 DEF IsNew
      <4>2. Shapely(f, g, b, p) /\ Supplied(f, g, b, p)
        BY <4>1 DEF Base
      <4>3. 2 \in DOMAIN it.args
        BY <3>3, <4>2 DEF Shapely
      <4>4. Available(f, g, it.args[2], b, p)
        BY <3>3, <4>2, <4>3 DEF Supplied
      <4>5. QED
        BY <1>6, <3>1, <4>4
    <3> HIDE DEF it
    <3>4. Given(f, it, sig2, cur2[b][p], x) = Given(f, it, sig, cur[b][p], x)
      BY <3>1, <3>3 DEF Given
    <3>5. QED
      BY <3>2, <3>4 DEF it
  <2>2. QED
    BY <2>1 DEF ValuesGiven
<1>12. LoadsRead(f, g, sig2, prog2, cur2)
  <2>1. ASSUME NEW b \in Blocks(f), NEW p \in DOMAIN g.blocks[b], p < prog2[b],
               g.blocks[b][p].op = "load"
        PROVE  sig2[g.blocks[b][p].res] = cur2[b][p][g.blocks[b][p].args[1]]
    <3> DEFINE it == g.blocks[b][p]
    <3>1. cur2[b][p] = cur[b][p] /\ (p < prog[b] \/ (b = h /\ p = i))
      BY <1>7, <2>1
    <3>2. it.res \in Names(f, g)
      BY DEF Names
    <3>3. CASE b = h /\ p = i
      <4>1. AtLoad(g, prog, h)
        BY <2>1, <3>3 DEF AtLoad
      <4>2. it = inst
        BY <3>3 DEF inst
      <4> HIDE DEF it
      <4>3. sig2[it.res] = cur[h][i][inst.args[1]]
        BY <1>4, <3>2, <4>1, <4>2
      <4>4. QED
        BY <3>1, <3>3, <4>2, <4>3 DEF it
    <3>4. CASE ~(b = h /\ p = i)
      <4>1. sig[it.res] = cur[b][p][it.args[1]]
        BY <2>1, <3>1, <3>4 DEF Solved, LoadsRead
      <4>2. ASSUME AtLoad(g, prog, h), it.res = inst.res PROVE FALSE
        <5>1. i \in DOMAIN g.blocks[h] /\ g.blocks[h][i].res # NoValue
              /\ g.blocks[h][i].res = g.blocks[b][p].res
          BY <1>5, <4>2 DEF inst
        <5>2. b = h /\ p = i
          BY <5>1 DEF Base
        <5>3. QED
          BY <3>4, <5>2
      <4>3. sig2[it.res] = sig[it.res]
        BY <1>4, <3>2, <4>2
      <4>4. QED
        BY <3>1, <4>1, <4>3
    <3>5. QED
      BY <3>3, <3>4
  <2>2. QED
    BY <2>1 DEF LoadsRead
<1>13. EndValues(f, g, prog2, cur2)
  <2>1. ASSUME NEW b \in Blocks(f), prog2[b] = End(g, b), NEW x \in Locals(f)
        PROVE  cur2[b][End(g, b)][x] = cur2[b][Len(g.blocks[b]) + 1][x]
    <3> DEFINE n == Len(g.blocks[b])
    <3>1. n \in Nat /\ End(g, b) = n + 2
      BY <1>1
    <3> HIDE DEF n
    <3>2. CASE b = h
      <4>1. i = n + 1 /\ i # 0 /\ i \notin DOMAIN g.blocks[h]
        <5>1. DOMAIN g.blocks[h] = 1 .. n
          BY <1>1, <3>2 DEF n
        <5>2. QED
          BY <1>2, <1>w, <2>1, <3>1, <3>2, <5>1
      <4>2. cur2[b][n + 2] = on /\ cur2[b][n + 1] = cur[b][n + 1]
        <5>1. n + 2 = i + 1 /\ n + 1 \in Nat /\ n + 1 # i + 1
          BY <3>1, <4>1
        <5>2. QED
          BY <1>3, <3>2, <5>1
      <4>3. on[x] = cur[h][i][x]
        BY <1>on, <4>1
      <4>4. QED
        BY <3>1, <3>2, <4>1, <4>2, <4>3 DEF n
    <3>3. CASE b # h
      <4>1. cur[b][n + 2][x] = cur[b][n + 1][x]
        BY <1>2, <2>1, <3>1, <3>3 DEF Solved, EndValues, n
      <4>2. cur2[b][n + 2] = cur[b][n + 2] /\ cur2[b][n + 1] = cur[b][n + 1]
        BY <1>3, <3>1, <3>3
      <4>3. QED
        BY <3>1, <4>1, <4>2 DEF n
    <3>4. QED
      BY <3>2, <3>3
  <2>2. QED
    BY <2>1 DEF EndValues
<1>14. ValuesFit(f, g, prog2, cur2)
  <2>1. ASSUME NEW b \in Blocks(f), NEW p \in 1 .. prog2[b], NEW x \in Locals(f)
        PROVE  Fits(f, g, cur2[b][p][x], b, p)
    <3>1. CASE b = h /\ p = i + 1
      BY <1>3, <1>o, <3>1
    <3>2. CASE ~(b = h /\ p = i + 1)
      <4>1. prog[b] \in Nat /\ p \in Int
        BY <1>1
      <4>2. p \in 1 .. prog[b] /\ p \in Nat
        <5>1. CASE b = h
          BY <1>2, <1>w, <3>2, <4>1, <5>1
        <5>2. CASE b # h
          BY <1>2, <4>1, <5>2
        <5>3. QED
          BY <5>1, <5>2
      <4>3. cur2[b][p] = cur[b][p]
        BY <1>3, <3>2, <4>2
      <4>4. QED
        BY <4>2, <4>3 DEF Solved, ValuesFit
    <3>3. QED
      BY <3>1, <3>2
  <2>2. QED
    BY <2>1 DEF ValuesFit
<1>15. Solved(f, d, g, sig2, prog2, cur2)
  BY <1>8, <1>9, <1>10, <1>11, <1>12, <1>13, <1>14 DEF Solved
<1>16. QED
  BY <1>15 DEF sig2, prog2, cur2

-----------------------------------------------------------------------------
(* What has become of the function. *)

\* A phi for x at the head of b has the entries of the predecessors whose edges
\* have been seen to.
Filled(f, g, prog, cur, n, x, b) ==
  /\ Len(n.to) \in Nat /\ n.to = [k \in 1 .. Len(n.to) |-> n.to[k]]
  /\ n.args = [k \in 1 .. Len(n.to) |-> n.args[k]]
  /\ \A j, k \in 1 .. Len(n.to) : n.to[j] = n.to[k] => j = k
  /\ \A c : (\E k \in 1 .. Len(n.to) : n.to[k] = c)
              <=> c \in Blocks(f) /\ b \in Succs(f, c) /\ prog[c] = End(g, c)
  /\ \A k \in 1 .. Len(n.to) : n.args[k] = cur[n.to[k]][End(g, n.to[k])][x]

\* n is what the instruction of g at a place has become.
Become(f, g, sig, prog, cur, b, p, n) ==
  LET inst == g.blocks[b][p]
  IN  /\ n = [op |-> inst.op, res |-> inst.res, args |-> n.args, to |-> n.to]
      /\ IF IsNew(f, inst)
         THEN Filled(f, g, prog, cur, n, inst.res[2], b)
         ELSE /\ n.to = inst.to
              /\ n.args = [k \in DOMAIN inst.args |-> sig[inst.args[k]]]

\* A block's parent in the tree strictly dominates it, and nothing does so itself.
LEMMA ParentDominates ==
  ASSUME NEW f, NEW d, DomTree(f, d), NEW b \in Blocks(f) \ {Entry}
  PROVE  StrictlyDominates(f, d[b], b) /\ ~StrictlyDominates(f, b, b)
<1>1. d[b] \in Blocks(f)
  BY DEF DomTree
<1>2. StrictlyDominates(f, d[b], b) <=> d[b] = d[b] \/ StrictlyDominates(f, d[b], d[b])
  BY <1>1 DEF DomTree
<1>3. ~StrictlyDominates(f, b, b)
  BY DEF DomTree
<1>4. QED
  BY <1>2, <1>3

LEMMA BecomeKeeps ==
  ASSUME NEW f, NEW g, NEW sig, NEW prog, NEW cur, NEW b, NEW p, NEW n,
         Become(f, g, sig, prog, cur, b, p, n)
  PROVE  n.op = g.blocks[b][p].op /\ (IsNew(f, g.blocks[b][p]) \/ n.to = g.blocks[b][p].to)
<1>1. PICK inst : inst = g.blocks[b][p]
  OBVIOUS
<1>2. n = [op |-> inst.op, res |-> inst.res, args |-> n.args, to |-> n.to]
  BY <1>1 DEF Become
<1>3. n.op = inst.op
  BY <1>2
<1>4. IsNew(f, inst) \/ n.to = inst.to
  BY <1>1 DEF Become
<1>5. QED
  BY <1>1, <1>3, <1>4

\* F is g with every instruction turned into what it becomes by prog.
Rewritten(f, g, sig, prog, cur, F) ==
  /\ F = [params |-> f.params, blocks |-> F.blocks, void |-> f.void, opt |-> f.opt]
  /\ DOMAIN F.blocks = Blocks(f) /\ Len(F.blocks) = Len(f.blocks)
  /\ \A b \in Blocks(f) :
       /\ F.blocks[b] = [p \in 1 .. Len(g.blocks[b]) |-> F.blocks[b][p]]
       /\ Len(F.blocks[b]) = Len(g.blocks[b])
       /\ \A p \in DOMAIN g.blocks[b] : Become(f, g, sig, prog, cur, b, p, F.blocks[b][p])

\* When a sequence is empty.
LEMMA EmptyIs ==
  ASSUME NEW s, NEW n \in Nat, DOMAIN s = 1 .. n, s = [i \in 1 .. n |-> s[i]]
  PROVE  s # << >> <=> n # 0
<1>1. ASSUME n = 0 PROVE s = << >>
  <2>1. 1 .. n = {}
    BY <1>1
  <2>2. s = [i \in {} |-> s[i]]
    BY <2>1
  <2>3. << >> = [i \in {} |-> << >>[i]]
    OBVIOUS
  <2>4. [i \in {} |-> s[i]] = [i \in {} |-> << >>[i]]
    OBVIOUS
  <2>5. QED
    BY <2>2, <2>3, <2>4
<1>2. ASSUME s = << >> PROVE n = 0
  <2>1. 1 .. n = {}
    BY <1>2
  <2>2. QED
    BY <2>1
<1>3. QED
  BY <1>1, <1>2

\* A block of F ends as it does in f.
EndsAlike(f, F, b) ==
  LET ends(g) == g.blocks[b] # << >> /\ Last(g.blocks[b]).op \in {"br", "condbr"}
  IN  /\ ends(F) <=> ends(f)
      /\ ends(f) => Last(F.blocks[b]).to = Last(f.blocks[b]).to

\* Blocks that end alike have the same successors.
LEMMA EdgesAlike ==
  ASSUME NEW f, NEW F, NEW b, EndsAlike(f, F, b)
  PROVE  SuccSeq(F, b) = SuccSeq(f, b) /\ Succs(F, b) = Succs(f, b)
<1> DEFINE ends(g) == g.blocks[b] # << >> /\ Last(g.blocks[b]).op \in {"br", "condbr"}
<1>1. ASSUME NEW g
      PROVE  /\ SuccSeq(g, b) = IF ends(g) THEN Last(g.blocks[b]).to ELSE << >>
             /\ Succs(g, b) = IF ends(g) THEN ToSet(Last(g.blocks[b]).to) ELSE {}
  BY DEF SuccSeq, Succs, Terminated
<1>2. (ends(F) <=> ends(f)) /\ (ends(f) => Last(F.blocks[b]).to = Last(f.blocks[b]).to)
  BY DEF EndsAlike
<1> HIDE DEF ends
<1>3. QED
  BY <1>1, <1>2

\* A function with the blocks of f and its edges has its paths.
LEMMA ShapedAlike ==
  ASSUME NEW f \in Functions, NEW F, DOMAIN F.blocks = Blocks(f), Len(F.blocks) = Len(f.blocks),
         \A b \in Blocks(f) : EndsAlike(f, F, b)
  PROVE  /\ Blocks(F) = Blocks(f) /\ Shaped(F)
         /\ \A b \in Blocks(f) : Succs(F, b) = Succs(f, b) /\ Preds(F, b) = Preds(f, b)
         /\ \A b, c : StrictlyDominates(F, b, c) <=> StrictlyDominates(f, b, c)
<1>1. Blocks(F) = Blocks(f)
  BY DEF Blocks
<1>2. \A b \in Blocks(f) : SuccSeq(F, b) = SuccSeq(f, b) /\ Succs(F, b) = Succs(f, b)
  BY EdgesAlike
<1>3. Shaped(f)
  BY FunctionsShaped
<1>4. Shaped(F)
  BY <1>1, <1>2, <1>3 DEF Shaped
<1>5. ASSUME NEW b PROVE Preds(F, b) = Preds(f, b)
  <2> DEFINE from(g, c) == LET edges == {i \in DOMAIN SuccSeq(g, c) : SuccSeq(g, c)[i] = b}
                           IN  [k \in 1 .. Cardinality(edges) |-> c]
  <2>1. \A c \in Blocks(f) : from(F, c) = from(f, c)
    BY <1>2
  <2>2. \A g : Preds(g, b) = FlattenSeq([c \in Blocks(g) |-> from(g, c)])
    BY DEF Preds
  <2> HIDE DEF from
  <2>3. [c \in Blocks(F) |-> from(F, c)] = [c \in Blocks(f) |-> from(f, c)]
    BY <1>1, <2>1
  <2>4. QED
    BY <2>2, <2>3
<1>6. \A b, c : StrictlyDominates(F, b, c) <=> StrictlyDominates(f, b, c)
  BY <1>2, <1>3, <1>4, SameDominance
<1>7. QED
  BY <1>1, <1>2, <1>4, <1>5, <1>6

\* Until the cleanup, every block ends in what it ended in.
LEMMA RewrittenShape ==
  ASSUME NEW f \in Functions, NEW g, Layout(f, g), NEW sig, NEW prog, NEW cur, NEW F,
         Rewritten(f, g, sig, prog, cur, F)
  PROVE  /\ Blocks(F) = Blocks(f)
         /\ \A b \in Blocks(f) : Succs(F, b) = Succs(f, b) /\ Preds(F, b) = Preds(f, b)
<1>1. ASSUME NEW b \in Blocks(f) PROVE EndsAlike(f, F, b)
  <2> DEFINE m == Len(f.blocks[b])
             n == Len(g.blocks[b])
             s == Shift(f, g, b)
  <2>1. /\ m \in Nat /\ n \in Nat /\ s \in Nat /\ n = s + m
        /\ DOMAIN f.blocks[b] = 1 .. m /\ DOMAIN g.blocks[b] = 1 .. n
        /\ Len(F.blocks[b]) = n /\ DOMAIN F.blocks[b] = 1 .. n
        /\ F.blocks[b] = [p \in 1 .. n |-> F.blocks[b][p]]
    <3>1. /\ Len(F.blocks[b]) = Len(g.blocks[b])
          /\ F.blocks[b] = [p \in 1 .. Len(g.blocks[b]) |-> F.blocks[b][p]]
      BY DEF Rewritten
    <3>2. /\ m \in Nat /\ n \in Nat /\ s \in Nat /\ n = s + m
          /\ DOMAIN f.blocks[b] = 1 .. m /\ DOMAIN g.blocks[b] = 1 .. n
      BY LayoutIs
    <3> HIDE DEF m, s
    <3>3. DOMAIN F.blocks[b] = 1 .. n
      BY <3>1
    <3>4. QED
      BY <3>1, <3>2, <3>3
  <2>2. Last(F.blocks[b]) = F.blocks[b][n] /\ Last(f.blocks[b]) = f.blocks[b][m]
    BY <2>1 DEF Last
  <2>3. (F.blocks[b] # << >> <=> n # 0) /\ (f.blocks[b] # << >> <=> m # 0)
    <3>1. f.blocks[b] = [p \in 1 .. m |-> f.blocks[b][p]]
      BY FunctionRecord
    <3> HIDE DEF m, n, s
    <3>2. QED
      BY <2>1, <3>1, EmptyIs
  <2>4. ASSUME n # 0 PROVE /\ F.blocks[b][n].op = g.blocks[b][n].op
                           /\ IsNew(f, g.blocks[b][n]) \/ F.blocks[b][n].to = g.blocks[b][n].to
    <3>1. n \in DOMAIN g.blocks[b]
      BY <2>1, <2>4
    <3>2. Become(f, g, sig, prog, cur, b, n, F.blocks[b][n])
      BY <3>1 DEF Rewritten
    <3>3. QED
      BY <3>2, BecomeKeeps
  <2>5. CASE m = 0
    <3>1. ASSUME n # 0 PROVE F.blocks[b][n].op = "phi"
      <4>1. n \in DOMAIN g.blocks[b] /\ n <= s
        BY <2>1, <2>5, <3>1
      <4>2. IsNew(f, g.blocks[b][n])
        BY <4>1, LayoutIs
      <4>3. QED
        BY <2>4, <3>1, <4>2 DEF IsNew
    <3> HIDE DEF m, n, s
    <3>2. QED
      BY <2>2, <2>3, <2>5, <3>1 DEF EndsAlike
  <2>6. CASE m # 0
    <3>1. m \in DOMAIN f.blocks[b] /\ n # 0
      BY <2>1, <2>6
    <3>2. g.blocks[b][n] = f.blocks[b][m] /\ ~IsNew(f, g.blocks[b][n])
      <4>1. /\ g.blocks[b][s + m] = f.blocks[b][m] /\ ~IsNew(f, g.blocks[b][s + m])
        BY <3>1, LayoutIs
      <4>2. QED
        BY <2>1, <4>1
    <3> HIDE DEF m, n, s
    <3>3. QED
      BY <2>2, <2>3, <2>4, <2>6, <3>1, <3>2 DEF EndsAlike
  <2>7. QED
    BY <2>5, <2>6
<1>2. DOMAIN F.blocks = Blocks(f) /\ Len(F.blocks) = Len(f.blocks)
  BY DEF Rewritten
<1>3. QED
  BY <1>1, <1>2, ShapedAlike

\* What a function is made of, after the renaming has got anywhere.
LEMMA PhiOf ==
  ASSUME NEW f, NEW g, Base(f, g), NEW b \in Blocks(f), NEW p \in DOMAIN g.blocks[b],
         IsNew(f, g.blocks[b][p])
  PROVE  /\ g.blocks[b][p].res[2] \in Locals(f)
         /\ g.blocks[b][p] = NewPhi(g.blocks[b][p].res[2], b)
<1>1. PICK x \in Locals(f) : g.blocks[b][p] = NewPhi(x, b)
  BY DEF Base
<1>2. NewPhi(x, b).res[2] = x
  BY DEF NewPhi, PhiValue
<1>3. QED
  BY <1>1, <1>2

\* Operands are names of the function.
LEMMA OperandsNamed ==
  ASSUME NEW f, NEW g, Base(f, g), NEW b \in Blocks(f), NEW p \in DOMAIN g.blocks[b],
         ~IsNew(f, g.blocks[b][p]), NEW k \in DOMAIN g.blocks[b][p].args
  PROVE  g.blocks[b][p].args[k] \in Names(f, g)
<1>1. Supplied(f, g, b, p)
  BY DEF Base
<1>2. \E c, q : Available(f, g, g.blocks[b][p].args[k], c, q)
  BY <1>1 DEF Supplied
<1>3. QED
  BY <1>2, AvailableIsNamed

\* Nothing happens to a variable, nor to a load that has not been seen to.
LEMMA LoadsAndVariables ==
  ASSUME NEW f, NEW d, NEW g, Base(f, g), NEW sig, NEW prog, NEW cur,
         Solved(f, d, g, sig, prog, cur)
  PROVE  /\ \A x \in Locals(f) \cap Names(f, g) : sig[x] = x
         /\ \A b \in Blocks(f) : \A p \in DOMAIN g.blocks[b] :
              g.blocks[b][p].op = "load" /\ p >= prog[b] =>
                \A v \in Names(f, g) : sig[v] = g.blocks[b][p].res <=> v = g.blocks[b][p].res
<1>1. Renamed(f, g, sig, prog) /\ LoadsRead(f, g, sig, prog, cur) /\ ValuesFit(f, g, prog, cur)
  BY DEF Solved
<1>2. ASSUME NEW b \in Blocks(f), NEW p \in DOMAIN g.blocks[b], g.blocks[b][p].op = "load"
      PROVE  /\ g.blocks[b][p].res \notin Locals(f) /\ g.blocks[b][p].res # NoValue
             /\ g.blocks[b][p].args[1] \in Locals(f)
             /\ g.blocks[b][p].res \in Names(f, g)
  <2>1. ~IsNew(f, g.blocks[b][p])
    BY <1>2 DEF IsNew
  <2>2. Shapely(f, g, b, p)
    BY <2>1 DEF Base
  <2>3. QED
    BY <1>2, <2>2 DEF Shapely, Names
<1>3. ASSUME NEW x \in Locals(f) \cap Names(f, g) PROVE sig[x] = x
  BY <1>1, <1>2 DEF Renamed
<1>4. ASSUME NEW b \in Blocks(f), NEW p \in DOMAIN g.blocks[b],
             g.blocks[b][p].op = "load", p >= prog[b], NEW v \in Names(f, g)
      PROVE  sig[v] = g.blocks[b][p].res <=> v = g.blocks[b][p].res
  <2> DEFINE r == g.blocks[b][p].res
  <2>0. /\ prog \in [Blocks(f) -> Nat]
        /\ \A c \in Blocks(f) : prog[c] \in Nat /\ DOMAIN g.blocks[c] = 1 .. Len(g.blocks[c])
                                /\ Len(g.blocks[c]) \in Nat
    BY DEF Solved, Progressing, Base
  <2>1. r # NoValue
    BY <1>2, <1>4
  <2>2. ASSUME v = r PROVE sig[v] = r
    <3>1. SUFFICES ASSUME NEW c \in Blocks(f), NEW q \in DOMAIN g.blocks[c],
                          q < prog[c], g.blocks[c][q].res = v
                   PROVE  FALSE
      BY <1>1, <2>2 DEF Renamed
    <3>2. c = b /\ q = p
      BY <2>1, <2>2, <3>1 DEF Base
    <3>3. p \in Int /\ prog[b] \in Nat
      BY <2>0
    <3>4. QED
      BY <1>4, <3>1, <3>2, <3>3
  <2>3. ASSUME sig[v] = r, v # r PROVE FALSE
    <3>1. PICK c \in Blocks(f) : \E q \in DOMAIN g.blocks[c] :
                 q < prog[c] /\ g.blocks[c][q].op = "load" /\ g.blocks[c][q].res = v
      BY <1>1, <2>3 DEF Renamed
    <3>2. PICK q \in DOMAIN g.blocks[c] :
                 q < prog[c] /\ g.blocks[c][q].op = "load" /\ g.blocks[c][q].res = v
      BY <3>1
    <3>3. sig[v] = cur[c][q][g.blocks[c][q].args[1]]
      BY <1>1, <3>2 DEF LoadsRead
    <3>4. q \in 1 .. prog[c]
      BY <2>0, <3>2
    <3>5. g.blocks[c][q].args[1] \in Locals(f)
      BY <1>2, <3>2
    <3>6. Fits(f, g, r, c, q)
      BY <1>1, <2>3, <3>3, <3>4, <3>5 DEF ValuesFit
    <3>7. QED
      BY <1>4, <2>1, <3>6 DEF Fits, Lasting
  <2>4. QED
    BY <2>2, <2>3
<1>5. QED
  BY <1>3, <1>4

\* Before the walk.
LEMMA RewritingStarts ==
  ASSUME NEW f \in Functions, NEW g, Layout(f, g), NEW prog, NEW cur, NEW sig,
         sig = [v \in Names(f, g) |-> v],
         \A b \in Blocks(f) : prog[b] \in {0, 1}
  PROVE  Rewritten(f, g, sig, prog, cur, g)
<1>1. Base(f, g)
  BY LayoutIsBase
<1>2. ASSUME NEW b \in Blocks(f), NEW p \in DOMAIN g.blocks[b]
      PROVE  Become(f, g, sig, prog, cur, b, p, g.blocks[b][p])
  <2> DEFINE n == g.blocks[b][p]
  <2>0. Record(n)
    BY <1>1 DEF Base
  <2>1. n = [op |-> n.op, res |-> n.res, args |-> n.args, to |-> n.to]
    BY <2>0 DEF Record
  <2>2. ASSUME ~IsNew(f, n) PROVE n.args = [k \in DOMAIN n.args |-> sig[n.args[k]]]
    <3>1. \A k \in DOMAIN n.args : n.args[k] \in Names(f, g)
      BY <1>1, <2>2, OperandsNamed
    <3>2. n.args = [k \in DOMAIN n.args |-> n.args[k]]
      <4>1. DOMAIN n.args = 1 .. Len(n.args) /\ n.args = [k \in 1 .. Len(n.args) |-> n.args[k]]
        BY <2>0 DEF Record
      <4> HIDE DEF n
      <4>2. QED
        BY <4>1
    <3> HIDE DEF n
    <3>3. QED
      BY <3>1, <3>2
  <2>3. ASSUME IsNew(f, n) PROVE Filled(f, g, prog, cur, n, n.res[2], b)
    <3>1. n.args = << >> /\ n.to = << >>
      <4>1. \E x : n = NewPhi(x, b)
        BY <1>1, <2>3, PhiOf
      <4>2. QED
        BY <4>1 DEF NewPhi
    <3>2. Len(n.to) = 0 /\ Len(n.to) \in Nat /\ 1 .. Len(n.to) = {}
      BY <3>1
    <3>3. n.to = [k \in 1 .. Len(n.to) |-> n.to[k]] /\ n.args = [k \in 1 .. Len(n.to) |-> n.args[k]]
      <4>1. \A F : [k \in {} |-> F[k]] = << >>
        OBVIOUS
      <4>2. QED
        BY <3>1, <3>2, <4>1
    <3>4. \A c \in Blocks(f) : prog[c] # End(g, c)
      <4>1. \A c \in Blocks(f) : Len(g.blocks[c]) \in Nat
        BY <1>1 DEF Base
      <4>2. QED
        BY <4>1 DEF End
    <3> HIDE DEF n
    <3>5. QED
      BY <3>2, <3>3, <3>4 DEF Filled
  <2>4. QED
    BY <2>1, <2>2, <2>3 DEF Become
<1>3. QED
  BY <1>2 DEF Rewritten, Layout

\* A step that reads no load and takes no edge leaves the function alone.
LEMMA RewrittenStill ==
  ASSUME NEW f, NEW d, NEW g, Base(f, g), NEW sig, NEW prog, NEW cur, NEW F,
         Rewritten(f, g, sig, prog, cur, F), Solved(f, d, g, sig, prog, cur),
         NEW h \in Blocks(f), prog[h] # End(g, h), prog[h] # Len(g.blocks[h]) + 1,
         ~AtLoad(g, prog, h)
  PROVE  Rewritten(f, g, NextSig(f, g, sig, prog, cur, h), NextProg(prog, h),
                   NextCur(f, d, g, sig, prog, cur, h), F)
<1> DEFINE sig2 == NextSig(f, g, sig, prog, cur, h)
           prog2 == NextProg(prog, h)
           cur2 == NextCur(f, d, g, sig, prog, cur, h)
<1>1. \A v \in Names(f, g) : sig2[v] = sig[v]
  BY DEF NextSig
<1>2. /\ prog \in [Blocks(f) -> Nat]
      /\ \A c \in Blocks(f) : Len(g.blocks[c]) \in Nat /\ End(g, c) = Len(g.blocks[c]) + 2
                              /\ prog[c] \in Nat
  BY DEF Solved, Progressing, Base, End
<1>3. \A c \in Blocks(f) : prog2[c] = IF c = h THEN prog[c] + 1 ELSE prog[c]
  BY <1>2 DEF NextProg
<1>4. \A c \in Blocks(f) : prog2[c] = End(g, c) <=> prog[c] = End(g, c)
  BY <1>2, <1>3
<1>5. \A c \in Blocks(f), q \in Nat : c # h => cur2[c][q] = cur[c][q]
  BY DEF NextCur
<1>6. \A c \in Blocks(f) : prog[c] = End(g, c) => cur2[c][End(g, c)] = cur[c][End(g, c)]
  BY <1>2, <1>5
<1> HIDE DEF sig2, prog2, cur2
<1>7. ASSUME NEW b \in Blocks(f), NEW p \in DOMAIN g.blocks[b]
      PROVE  Become(f, g, sig2, prog2, cur2, b, p, F.blocks[b][p])
  <2> DEFINE n == F.blocks[b][p]
             inst == g.blocks[b][p]
  <2>1. Become(f, g, sig, prog, cur, b, p, n)
    BY DEF Rewritten
  <2>2. ASSUME ~IsNew(f, inst)
        PROVE  [k \in DOMAIN inst.args |-> sig2[inst.args[k]]]
                = [k \in DOMAIN inst.args |-> sig[inst.args[k]]]
    <3>1. \A k \in DOMAIN inst.args : inst.args[k] \in Names(f, g)
      BY <2>2, OperandsNamed
    <3> HIDE DEF inst
    <3>2. QED
      BY <1>1, <3>1
  <2>3. ASSUME NEW x, Filled(f, g, prog, cur, n, x, b) PROVE Filled(f, g, prog2, cur2, n, x, b)
    <3> HIDE DEF n
    <3>1. \A k \in 1 .. Len(n.to) : n.to[k] \in Blocks(f) /\ prog[n.to[k]] = End(g, n.to[k])
      BY <2>3, Zenon DEF Filled
    <3>2. \A k \in 1 .. Len(n.to) : cur2[n.to[k]][End(g, n.to[k])] = cur[n.to[k]][End(g, n.to[k])]
      BY <1>6, <3>1
    <3>3. QED
      BY <1>4, <2>3, <3>2 DEF Filled
  <2>4. QED
    BY <2>1, <2>2, <2>3 DEF Become
<1>8. QED
  BY <1>7 DEF Rewritten, sig2, prog2, cur2

\* replace_all_uses_with
Swapped(F, r, u) ==
  [F EXCEPT !.blocks = [b \in Blocks(F) |-> [i \in DOMAIN F.blocks[b] |->
     [F.blocks[b][i] EXCEPT !.args = Replaced(@, r, u)]]]]

\* The uses of a load become uses of what the variable has.
LEMMA RewrittenLoad ==
  ASSUME NEW f, NEW d, NEW g, Base(f, g), NEW sig, NEW prog, NEW cur, NEW F,
         Rewritten(f, g, sig, prog, cur, F), Solved(f, d, g, sig, prog, cur),
         NEW h \in Blocks(f), AtLoad(g, prog, h)
  PROVE  Rewritten(f, g, NextSig(f, g, sig, prog, cur, h), NextProg(prog, h),
                   NextCur(f, d, g, sig, prog, cur, h),
                   Swapped(F, g.blocks[h][prog[h]].res,
                           cur[h][prog[h]][g.blocks[h][prog[h]].args[1]]))
<1> DEFINE sig2 == NextSig(f, g, sig, prog, cur, h)
           prog2 == NextProg(prog, h)
           cur2 == NextCur(f, d, g, sig, prog, cur, h)
           r == g.blocks[h][prog[h]].res
           u == cur[h][prog[h]][g.blocks[h][prog[h]].args[1]]
           F2 == Swapped(F, r, u)
<1>0. prog[h] \in DOMAIN g.blocks[h] /\ g.blocks[h][prog[h]].op = "load"
  BY DEF AtLoad
<1>1. \A v \in Names(f, g) : sig2[v] = IF sig[v] = r THEN u ELSE sig[v]
  <2>1. prog[h] \in Nat /\ prog[h] >= prog[h]
    BY DEF Solved, Progressing
  <2>2. \A v \in Names(f, g) : sig[v] = r <=> v = r
    BY <1>0, <2>1, LoadsAndVariables, SMTT(30)
  <2>3. \A v \in Names(f, g) : sig2[v] = IF v = r THEN u ELSE sig[v]
    BY DEF NextSig
  <2>4. QED
    BY <2>2, <2>3
<1>2. /\ prog \in [Blocks(f) -> Nat]
      /\ \A c \in Blocks(f) : Len(g.blocks[c]) \in Nat /\ End(g, c) = Len(g.blocks[c]) + 2
                              /\ prog[c] \in Nat /\ DOMAIN g.blocks[c] = 1 .. Len(g.blocks[c])
  BY DEF Solved, Progressing, Base, End
<1>3. \A c \in Blocks(f) : prog2[c] = IF c = h THEN prog[c] + 1 ELSE prog[c]
  BY <1>2 DEF NextProg
<1>4. \A c \in Blocks(f) : prog2[c] = End(g, c) <=> prog[c] = End(g, c)
  <2>1. prog[h] # Len(g.blocks[h]) + 1 /\ prog[h] # Len(g.blocks[h]) + 2
    BY <1>0, <1>2
  <2>2. QED
    BY <1>2, <1>3, <2>1
<1>5. \A c \in Blocks(f), q \in Nat : c # h => cur2[c][q] = cur[c][q]
  BY DEF NextCur
<1>6. \A c \in Blocks(f) : prog[c] = End(g, c) => cur2[c][End(g, c)] = cur[c][End(g, c)]
  <2>1. prog[h] # End(g, h)
    BY <1>0, <1>2
  <2>2. QED
    BY <1>2, <1>5, <2>1
<1>f. ASSUME NEW c \in Blocks(f), prog[c] = End(g, c), NEW x \in Locals(f)
      PROVE  cur[c][End(g, c)][x] # r
  <2>1. ValuesFit(f, g, prog, cur)
    BY DEF Solved
  <2>2. End(g, c) \in 1 .. prog[c]
    BY <1>2, <1>f
  <2>3. Fits(f, g, cur[c][End(g, c)][x], c, End(g, c))
    BY <2>1, <2>2 DEF ValuesFit
  <2>4. r # NoValue
    <3>1. ~IsNew(f, g.blocks[h][prog[h]])
      BY <1>0 DEF IsNew
    <3>2. Shapely(f, g, h, prog[h])
      BY <1>0, <3>1 DEF Base
    <3>3. QED
      BY <1>0, <3>2 DEF Shapely
  <2>5. QED
    BY <1>0, <2>3, <2>4 DEF Fits, Lasting
<1>s. /\ F2 = [params |-> F.params, blocks |-> F2.blocks, void |-> F.void, opt |-> F.opt]
      /\ F2.blocks = [b \in Blocks(F) |-> [i \in DOMAIN F.blocks[b] |->
                       [F.blocks[b][i] EXCEPT !.args = Replaced(@, r, u)]]]
  <2>1. F = [params |-> f.params, blocks |-> F.blocks, void |-> f.void, opt |-> f.opt]
    BY DEF Rewritten
  <2> HIDE DEF r, u
  <2>2. QED
    BY <2>1, SMTT(30) DEF Swapped
<1> HIDE DEF sig2, prog2, cur2, F2
<1>7. ASSUME NEW b \in Blocks(f), NEW p \in DOMAIN g.blocks[b]
      PROVE  Become(f, g, sig2, prog2, cur2, b, p, F2.blocks[b][p])
  <2> DEFINE n == F.blocks[b][p]
             m == F2.blocks[b][p]
             inst == g.blocks[b][p]
  <2>1. Become(f, g, sig, prog, cur, b, p, n)
    BY DEF Rewritten
  <2>2. m = [n EXCEPT !.args = Replaced(@, r, u)]
    <3>1. DOMAIN F.blocks = Blocks(f) /\ F.blocks[b] = [q \in 1 .. Len(g.blocks[b]) |-> F.blocks[b][q]]
      BY DEF Rewritten
    <3>2. p \in DOMAIN F.blocks[b]
      BY <1>2, <3>1
    <3> HIDE DEF r, u
    <3>3. QED
      BY <1>s, <3>1, <3>2 DEF Blocks
  <2>3. n = [op |-> inst.op, res |-> inst.res, args |-> n.args, to |-> n.to]
    BY <2>1 DEF Become
  <2>4. m = [op |-> inst.op, res |-> inst.res, args |-> m.args, to |-> m.to]
        /\ m.to = n.to /\ m.args = [k \in DOMAIN n.args |-> IF n.args[k] = r THEN u ELSE n.args[k]]
    <3> HIDE DEF n, m, inst, r, u
    <3>1. QED
      BY <2>2, <2>3 DEF Replaced
  <2>5. ASSUME ~IsNew(f, inst)
        PROVE  m.to = inst.to /\ m.args = [k \in DOMAIN inst.args |-> sig2[inst.args[k]]]
    <3>1. \A k \in DOMAIN inst.args : inst.args[k] \in Names(f, g)
      BY <2>5, OperandsNamed
    <3>2. n.to = inst.to /\ n.args = [k \in DOMAIN inst.args |-> sig[inst.args[k]]]
      BY <2>1, <2>5 DEF Become
    <3> HIDE DEF inst, n, m, r, u
    <3>3. QED
      BY <1>1, <2>4, <3>1, <3>2
  <2>6. ASSUME NEW x \in Locals(f), Filled(f, g, prog, cur, n, x, b)
        PROVE  Filled(f, g, prog2, cur2, m, x, b)
    <3> HIDE DEF n, m, r, u
    <3>1. \A k \in 1 .. Len(n.to) : n.to[k] \in Blocks(f) /\ prog[n.to[k]] = End(g, n.to[k])
      BY <2>6, Zenon DEF Filled
    <3>2. \A k \in 1 .. Len(n.to) : cur2[n.to[k]][End(g, n.to[k])] = cur[n.to[k]][End(g, n.to[k])]
      BY <1>6, <3>1
    <3>3. \A k \in 1 .. Len(n.to) : n.args[k] = cur[n.to[k]][End(g, n.to[k])][x]
      BY <2>6 DEF Filled
    <3>4. \A k \in 1 .. Len(n.to) : n.args[k] # r
      BY <1>f, <3>1, <3>3
    <3>5. n.args = [k \in 1 .. Len(n.to) |-> n.args[k]]
      BY <2>6 DEF Filled
    <3>6. m.args = n.args
      BY <2>4, <3>4, <3>5
    <3>7. \A k \in 1 .. Len(n.to) : m.args[k] = cur2[n.to[k]][End(g, n.to[k])][x]
      BY <3>2, <3>3, <3>6
    <3>8. m.args = [k \in 1 .. Len(n.to) |-> m.args[k]]
      BY <3>5, <3>6
    <3>9. m.to = n.to
      BY <2>4
    <3>10. \A c : (\E k \in 1 .. Len(n.to) : n.to[k] = c)
                     <=> c \in Blocks(f) /\ b \in Succs(f, c) /\ prog2[c] = End(g, c)
      BY <1>4, <2>6, Zenon DEF Filled
    <3>11. /\ Len(n.to) \in Nat /\ n.to = [k \in 1 .. Len(n.to) |-> n.to[k]]
           /\ \A j, k \in 1 .. Len(n.to) : n.to[j] = n.to[k] => j = k
      BY <2>6 DEF Filled
    <3>12. Filled(f, g, prog2, cur2, [to |-> n.to, args |-> m.args], x, b)
      BY <3>7, <3>8, <3>10, <3>11 DEF Filled
    <3>13. QED
      BY <3>9, <3>12 DEF Filled
  <2>7. IsNew(f, inst) => inst.res[2] \in Locals(f)
    BY PhiOf
  <2>8. IF IsNew(f, inst)
        THEN Filled(f, g, prog, cur, n, inst.res[2], b)
        ELSE /\ n.to = inst.to
             /\ n.args = [k \in DOMAIN inst.args |-> sig[inst.args[k]]]
    BY <2>1 DEF Become
  <2>9. IF IsNew(f, inst)
        THEN Filled(f, g, prog2, cur2, m, inst.res[2], b)
        ELSE /\ m.to = inst.to
             /\ m.args = [k \in DOMAIN inst.args |-> sig2[inst.args[k]]]
    <3> HIDE DEF inst, n, m
    <3>1. QED
      BY <2>5, <2>6, <2>7, <2>8
  <2>10. QED
    BY <2>4, <2>9 DEF Become
<1>8. ASSUME NEW b \in Blocks(f)
      PROVE  /\ F2.blocks[b] = [p \in 1 .. Len(g.blocks[b]) |-> F2.blocks[b][p]]
             /\ Len(F2.blocks[b]) = Len(g.blocks[b])
  <2>1. DOMAIN F.blocks = Blocks(f) /\ F.blocks[b] = [q \in 1 .. Len(g.blocks[b]) |-> F.blocks[b][q]]
    BY DEF Rewritten
  <2> HIDE DEF r, u
  <2>2. DOMAIN F.blocks[b] = 1 .. Len(g.blocks[b]) /\ Len(g.blocks[b]) \in Nat
    BY <1>2, <2>1
  <2>3. F2.blocks[b] = [i \in 1 .. Len(g.blocks[b]) |-> [F.blocks[b][i] EXCEPT !.args = Replaced(@, r, u)]]
    BY <1>s, <2>1, <2>2 DEF Blocks
  <2>4. QED
    BY <2>2, <2>3
<1>9. DOMAIN F2.blocks = Blocks(f) /\ Len(F2.blocks) = Len(f.blocks)
      /\ F2 = [params |-> f.params, blocks |-> F2.blocks, void |-> f.void, opt |-> f.opt]
  <2>1. /\ DOMAIN F.blocks = Blocks(f) /\ Len(F.blocks) = Len(f.blocks)
        /\ F = [params |-> f.params, blocks |-> F.blocks, void |-> f.void, opt |-> f.opt]
    BY DEF Rewritten
  <2> HIDE DEF r, u
  <2>2. QED
    BY <1>s, <2>1 DEF Blocks
<1>10. Rewritten(f, g, sig2, prog2, cur2, F2)
  <2> HIDE DEF r, u
  <2>1. QED
    BY <1>7, <1>8, <1>9 DEF Rewritten
<1>11. QED
  BY <1>10 DEF sig2, prog2, cur2, F2

\* What Append does, place by place.
LEMMA AppendIs ==
  ASSUME NEW s, NEW n \in Nat, s = [k \in 1 .. n |-> s[k]], NEW e
  PROVE  /\ Len(Append(s, e)) = n + 1
         /\ Append(s, e) = [k \in 1 .. n + 1 |-> IF k = n + 1 THEN e ELSE s[k]]
OBVIOUS

\* The edges out of h are seen to: val is the value each variable has.
EdgeSeen(f, F, h, val, c, i) ==
  IF c \in Succs(F, h) /\ i \in PhiSites(F, c) /\ IsNew(f, F.blocks[c][i])
  THEN [F.blocks[c][i] EXCEPT !.args = Append(@, val[F.blocks[c][i].res[2]]),
                              !.to = Append(@, h)]
  ELSE F.blocks[c][i]
\* The phis of h's successors have been given the entry from h.
EdgesSeen(f, F, h, val) ==
  [F EXCEPT !.blocks = [c \in Blocks(F) |-> [i \in DOMAIN F.blocks[c] |->
     EdgeSeen(f, F, h, val, c, i)]]]

\* A record with one more entry.
LEMMA EntryAdded ==
  ASSUME NEW n, n = [op |-> n.op, res |-> n.res, args |-> n.args, to |-> n.to], NEW v, NEW h
  PROVE  [n EXCEPT !.args = Append(@, v), !.to = Append(@, h)]
         = [op |-> n.op, res |-> n.res, args |-> Append(n.args, v), to |-> Append(n.to, h)]
<1> DEFINE a == Append(n.args, v)
           t == Append(n.to, h)
           k == [n EXCEPT !.args = a]
           m == [k EXCEPT !.to = t]
<1>1. [n EXCEPT !.args = Append(@, v), !.to = Append(@, h)] = m
  OBVIOUS
<1>2. k = [op |-> n.op, res |-> n.res, args |-> a, to |-> n.to]
  <2> HIDE DEF a
  <2>1. QED
    OBVIOUS
<1> HIDE DEF k, a, t
<1>3. m = [op |-> n.op, res |-> n.res, args |-> a, to |-> t]
  BY <1>2
<1>4. QED
  BY <1>1, <1>3 DEF a, t

\* The edges of h are what is new.
SeenTo(f, g, prog, cur, prog2, cur2, h) ==
  /\ prog[h] # End(g, h)
  /\ \A c \in Blocks(f) : prog2[c] = End(g, c) <=> prog[c] = End(g, c) \/ c = h
  /\ \A c \in Blocks(f) : c # h => cur2[c][End(g, c)] = cur[c][End(g, c)]

\* A phi that gets the entry of h.
LEMMA FilledFurther ==
  ASSUME NEW f, NEW g, NEW prog, NEW cur, NEW prog2, NEW cur2, NEW h \in Blocks(f),
         NEW x, NEW b, b \in Succs(f, h), NEW n, NEW m,
         Filled(f, g, prog, cur, n, x, b), SeenTo(f, g, prog, cur, prog2, cur2, h),
         m.to = Append(n.to, h), m.args = Append(n.args, cur2[h][End(g, h)][x])
  PROVE  Filled(f, g, prog2, cur2, m, x, b)
<1> DEFINE L == Len(n.to)
<1>0. /\ prog[h] # End(g, h)
      /\ \A c \in Blocks(f) : prog2[c] = End(g, c) <=> prog[c] = End(g, c) \/ c = h
      /\ \A c \in Blocks(f) : c # h => cur2[c][End(g, c)] = cur[c][End(g, c)]
  BY DEF SeenTo
<1>1. L \in Nat /\ n.to = [k \in 1 .. L |-> n.to[k]] /\ n.args = [k \in 1 .. L |-> n.args[k]]
  BY DEF Filled
<1>2. \A c : (\E k \in 1 .. L : n.to[k] = c)
               <=> c \in Blocks(f) /\ b \in Succs(f, c) /\ prog[c] = End(g, c)
  BY DEF Filled
<1>3. \A j, k \in 1 .. L : n.to[j] = n.to[k] => j = k
  BY DEF Filled
<1>4. \A k \in 1 .. L : n.args[k] = cur[n.to[k]][End(g, n.to[k])][x]
  BY DEF Filled
<1> HIDE DEF L
<1>5. Len(m.to) = L + 1 /\ m.to = [k \in 1 .. L + 1 |-> IF k = L + 1 THEN h ELSE n.to[k]]
  BY <1>1, AppendIs
<1>6. m.args = [k \in 1 .. L + 1 |-> IF k = L + 1 THEN cur2[h][End(g, h)][x] ELSE n.args[k]]
  BY <1>1, AppendIs
<1>7. \A k \in 1 .. L : n.to[k] # h /\ n.to[k] \in Blocks(f)
  BY <1>0, <1>2
<1>8. L + 1 \in Nat /\ \A k \in 1 .. L + 1 : k \in 1 .. L \/ k = L + 1
  BY <1>1
<1>9. \A k \in 1 .. L : k # L + 1 /\ k \in 1 .. L + 1
  BY <1>1
<1>10. L + 1 \in 1 .. L + 1
  BY <1>1
<1>11. ASSUME NEW j \in 1 .. L + 1, NEW k \in 1 .. L + 1, m.to[j] = m.to[k] PROVE j = k
  BY <1>3, <1>5, <1>7, <1>8, <1>11
<1>12. ASSUME NEW c
       PROVE  (\E k \in 1 .. L + 1 : m.to[k] = c)
                <=> c \in Blocks(f) /\ b \in Succs(f, c) /\ prog2[c] = End(g, c)
  <2>1. ASSUME NEW k \in 1 .. L + 1, m.to[k] = c
        PROVE  c \in Blocks(f) /\ b \in Succs(f, c) /\ prog2[c] = End(g, c)
    <3>1. CASE k = L + 1
      <4>1. c = h
        BY <1>5, <2>1, <3>1
      <4>2. QED
        BY <1>0, <4>1
    <3>2. CASE k \in 1 .. L
      <4>1. n.to[k] = c
        BY <1>5, <1>9, <2>1, <3>2
      <4>2. c \in Blocks(f) /\ b \in Succs(f, c) /\ prog[c] = End(g, c)
        BY <1>2, <3>2, <4>1
      <4>3. QED
        BY <1>0, <4>2
    <3>3. QED
      BY <1>8, <3>1, <3>2
  <2>2. ASSUME c \in Blocks(f), b \in Succs(f, c), prog2[c] = End(g, c)
        PROVE  \E k \in 1 .. L + 1 : m.to[k] = c
    <3>1. CASE c = h
      BY <1>5, <1>10, <3>1
    <3>2. CASE c # h
      <4>1. prog[c] = End(g, c)
        BY <1>0, <2>2, <3>2
      <4>2. PICK k \in 1 .. L : n.to[k] = c
        BY <1>2, <2>2, <4>1
      <4>3. m.to[k] = c
        BY <1>5, <1>9, <4>2
      <4>4. QED
        BY <1>9, <4>3
    <3>3. QED
      BY <3>1, <3>2
  <2>3. QED
    BY <2>1, <2>2
<1>13. ASSUME NEW k \in 1 .. L + 1 PROVE m.args[k] = cur2[m.to[k]][End(g, m.to[k])][x]
  <2>1. CASE k = L + 1
    BY <1>5, <1>6, <2>1
  <2>2. CASE k \in 1 .. L
    <3>1. m.to[k] = n.to[k] /\ m.args[k] = n.args[k]
      BY <1>5, <1>6, <1>9, <2>2
    <3>2. n.args[k] = cur[n.to[k]][End(g, n.to[k])][x]
      BY <1>4, <2>2
    <3>3. n.to[k] # h /\ n.to[k] \in Blocks(f)
      BY <1>7, <2>2
    <3>4. QED
      BY <1>0, <3>1, <3>2, <3>3
  <2>3. QED
    BY <1>8, <2>1, <2>2
<1>14. m.to = [k \in 1 .. L + 1 |-> m.to[k]] /\ m.args = [k \in 1 .. L + 1 |-> m.args[k]]
  BY <1>5, <1>6
<1>15. QED
  BY <1>5, <1>8, <1>11, <1>12, <1>13, <1>14 DEF Filled

\* Seeing to the edges of h turns F into what it becomes at the next place.
LEMMA RewrittenEdges ==
  ASSUME NEW f \in Functions, NEW d, NEW g, Layout(f, g), NEW sig, NEW prog, NEW cur, NEW F,
         Rewritten(f, g, sig, prog, cur, F), Solved(f, d, g, sig, prog, cur),
         NEW h \in Blocks(f), prog[h] = Len(g.blocks[h]) + 1,
         NEW val, \A x \in Locals(f) : val[x] = cur[h][prog[h]][x]
  PROVE  Rewritten(f, g, NextSig(f, g, sig, prog, cur, h), NextProg(prog, h),
                   NextCur(f, d, g, sig, prog, cur, h), EdgesSeen(f, F, h, val))
<1> DEFINE sig2 == NextSig(f, g, sig, prog, cur, h)
           prog2 == NextProg(prog, h)
           cur2 == NextCur(f, d, g, sig, prog, cur, h)
           F2 == EdgesSeen(f, F, h, val)
<1>0. Base(f, g)
  BY LayoutIsBase
<1>2. /\ prog \in [Blocks(f) -> Nat]
      /\ \A c \in Blocks(f) : Len(g.blocks[c]) \in Nat /\ End(g, c) = Len(g.blocks[c]) + 2
                              /\ prog[c] \in Nat /\ DOMAIN g.blocks[c] = 1 .. Len(g.blocks[c])
  BY <1>0 DEF Solved, Progressing, Base, End
<1>n. prog[h] \notin DOMAIN g.blocks[h] /\ prog[h] # 0 /\ prog[h] # End(g, h)
      /\ prog[h] + 1 = End(g, h) /\ prog[h] \in Nat /\ End(g, h) \in Nat
  BY <1>2
<1>1. \A v \in Names(f, g) : sig2[v] = sig[v]
  BY <1>n DEF NextSig, AtLoad
<1>3. \A c \in Blocks(f) : prog2[c] = IF c = h THEN prog[c] + 1 ELSE prog[c]
  BY <1>2 DEF NextProg
<1>4. \A c \in Blocks(f) : prog2[c] = End(g, c) <=> prog[c] = End(g, c) \/ c = h
  BY <1>2, <1>3, <1>n
<1>5. \A c \in Blocks(f), q \in Nat : c # h => cur2[c][q] = cur[c][q]
  BY DEF NextCur
<1>6. \A c \in Blocks(f) : c # h => cur2[c][End(g, c)] = cur[c][End(g, c)]
  BY <1>2, <1>5
<1>7. ASSUME NEW x \in Locals(f) PROVE cur2[h][End(g, h)][x] = val[x]
  <2>1. cur2[h][End(g, h)] = Onward(f, d, g, sig, prog, cur, h)
    BY <1>n DEF NextCur
  <2>2. Onward(f, d, g, sig, prog, cur, h)[x] = cur[h][prog[h]][x]
    BY <1>n DEF Onward
  <2>3. QED
    BY <2>1, <2>2
<1>s. /\ F2 = [params |-> F.params, blocks |-> F2.blocks, void |-> F.void, opt |-> F.opt]
      /\ F2.blocks = [c \in Blocks(F) |-> [i \in DOMAIN F.blocks[c] |->
           EdgeSeen(f, F, h, val, c, i)]]
  <2>1. F = [params |-> f.params, blocks |-> F.blocks, void |-> f.void, opt |-> f.opt]
    BY DEF Rewritten
  <2>2. QED
    BY <2>1 DEF EdgesSeen
<1>b. Blocks(F) = Blocks(f) /\ Succs(F, h) = Succs(f, h)
  BY RewrittenShape
<1>d. \A b \in Blocks(f) : DOMAIN F.blocks[b] = DOMAIN g.blocks[b]
  BY <1>2 DEF Rewritten
<1>p. ASSUME NEW b \in Blocks(f), NEW p \in DOMAIN g.blocks[b], IsNew(f, g.blocks[b][p])
      PROVE  p \in PhiSites(F, b)
  <2>1. \A q \in 1 .. p : q \in DOMAIN g.blocks[b] /\ IsNew(f, g.blocks[b][q])
    <3>1. \A q \in 1 .. p : q \in DOMAIN g.blocks[b]
      BY <1>2
    <3>2. QED
      BY <1>0, <1>p, <3>1 DEF Base
  <2>2. ASSUME NEW q \in 1 .. p PROVE F.blocks[b][q].op = g.blocks[b][q].op
    <3>1. Become(f, g, sig, prog, cur, b, q, F.blocks[b][q])
      BY <2>1 DEF Rewritten
    <3>2. QED
      BY <3>1 DEF Become
  <2>3. \A q \in 1 .. p : F.blocks[b][q].op = "phi"
    BY <2>1, <2>2 DEF IsNew
  <2>4. QED
    BY <1>d, <2>3 DEF PhiSites
<1> HIDE DEF sig2, prog2, cur2, F2
<1>8. ASSUME NEW b \in Blocks(f), NEW p \in DOMAIN g.blocks[b]
      PROVE  Become(f, g, sig2, prog2, cur2, b, p, F2.blocks[b][p])
  <2> DEFINE n == F.blocks[b][p]
             m == F2.blocks[b][p]
             inst == g.blocks[b][p]
             x == inst.res[2]
  <2>1. Become(f, g, sig, prog, cur, b, p, n)
    BY DEF Rewritten
  <2>2. n = [op |-> inst.op, res |-> inst.res, args |-> n.args, to |-> n.to]
    BY <2>1 DEF Become
  <2>3. (IsNew(f, n) <=> IsNew(f, inst)) /\ n.res[2] = x
    BY <2>2 DEF IsNew
  <2>11. m = EdgeSeen(f, F, h, val, b, p)
    BY <1>s, <1>b, <1>d
  <2>12. [n EXCEPT !.args = Append(@, val[n.res[2]]), !.to = Append(@, h)]
         = [op |-> n.op, res |-> n.res, args |-> Append(n.args, val[n.res[2]]),
            to |-> Append(n.to, h)]
    <3>1. n = [op |-> n.op, res |-> n.res, args |-> n.args, to |-> n.to]
      <4> HIDE DEF n, inst
      <4>1. QED
        BY <2>2
    <3> HIDE DEF n
    <3>2. QED
      BY <3>1, EntryAdded
  <2>4. m = IF b \in Succs(f, h) /\ p \in PhiSites(F, b) /\ IsNew(f, n)
            THEN [op |-> n.op, res |-> n.res, args |-> Append(n.args, val[n.res[2]]),
                  to |-> Append(n.to, h)]
            ELSE n
    BY <1>b, <2>11, <2>12 DEF EdgeSeen
  <2>5. m = IF b \in Succs(f, h) /\ IsNew(f, inst)
            THEN [op |-> inst.op, res |-> inst.res, args |-> Append(n.args, val[x]),
                  to |-> Append(n.to, h)]
            ELSE n
    <3>1. IsNew(f, inst) => p \in PhiSites(F, b)
      BY <1>p
    <3>3. n.op = inst.op /\ n.res = inst.res
      BY <2>2
    <3> HIDE DEF n, m, inst, x
    <3>2. QED
      BY <2>3, <2>4, <3>1, <3>3
  <2>6. m = [op |-> inst.op, res |-> inst.res, args |-> m.args, to |-> m.to]
    <3> HIDE DEF n, m, inst, x
    <3>1. QED
      BY <2>2, <2>5
  <2>7. ASSUME ~IsNew(f, inst)
        PROVE  m.to = inst.to /\ m.args = [k \in DOMAIN inst.args |-> sig2[inst.args[k]]]
    <3>1. \A k \in DOMAIN inst.args : inst.args[k] \in Names(f, g)
      BY <1>0, <2>7, OperandsNamed
    <3>2. n.to = inst.to /\ n.args = [k \in DOMAIN inst.args |-> sig[inst.args[k]]]
      BY <2>1, <2>7 DEF Become
    <3> HIDE DEF inst, n, m
    <3>3. QED
      BY <1>1, <2>5, <2>7, <3>1, <3>2
  <2>8. ASSUME IsNew(f, inst) PROVE Filled(f, g, prog2, cur2, m, x, b)
    <3>1. Filled(f, g, prog, cur, n, x, b)
      BY <2>1, <2>8 DEF Become
    <3>2. x \in Locals(f)
      BY <1>0, <2>8, PhiOf
    <3>3. CASE b \in Succs(f, h)
      <4> HIDE DEF n, m, inst, x
      <4>1. m.to = Append(n.to, h) /\ m.args = Append(n.args, cur2[h][End(g, h)][x])
        BY <1>7, <2>2, <2>5, <2>8, <3>2, <3>3
      <4>2. SeenTo(f, g, prog, cur, prog2, cur2, h)
        BY <1>4, <1>6, <1>n DEF SeenTo
      <4>3. QED
        BY <3>1, <3>3, <4>1, <4>2, FilledFurther
    <3>4. CASE b \notin Succs(f, h)
      <4>1. m = n
        BY <2>5, <3>4
      <4>2. \A k \in 1 .. Len(n.to) : n.to[k] \in Blocks(f) /\ b \in Succs(f, n.to[k])
        BY <3>1, Zenon DEF Filled
      <4>3. \A k \in 1 .. Len(n.to) : cur2[n.to[k]][End(g, n.to[k])] = cur[n.to[k]][End(g, n.to[k])]
        BY <1>6, <3>4, <4>2
      <4>4. \A c : (\E k \in 1 .. Len(n.to) : n.to[k] = c)
                     <=> c \in Blocks(f) /\ b \in Succs(f, c) /\ prog2[c] = End(g, c)
        BY <1>4, <3>1, <3>4, Zenon DEF Filled
      <4>5. Filled(f, g, prog2, cur2, n, x, b)
        BY <3>1, <4>3, <4>4 DEF Filled
      <4>6. QED
        BY <4>1, <4>5
    <3>5. QED
      BY <3>3, <3>4
  <2>9. IF IsNew(f, inst)
        THEN Filled(f, g, prog2, cur2, m, x, b)
        ELSE /\ m.to = inst.to
             /\ m.args = [k \in DOMAIN inst.args |-> sig2[inst.args[k]]]
    <3> HIDE DEF inst, n, m, x
    <3>1. QED
      BY <2>7, <2>8
  <2>10. QED
    BY <2>6, <2>9 DEF Become
<1>9. ASSUME NEW b \in Blocks(f)
      PROVE  /\ F2.blocks[b] = [p \in 1 .. Len(g.blocks[b]) |-> F2.blocks[b][p]]
             /\ Len(F2.blocks[b]) = Len(g.blocks[b])
  <2>1. DOMAIN F.blocks[b] = 1 .. Len(g.blocks[b]) /\ Len(g.blocks[b]) \in Nat
    BY <1>2, <1>d
  <2>2. F2.blocks[b] = [i \in DOMAIN F.blocks[b] |-> EdgeSeen(f, F, h, val, b, i)]
    BY <1>s, <1>b
  <2>3. QED
    BY <2>1, <2>2
<1>10. DOMAIN F2.blocks = Blocks(f) /\ Len(F2.blocks) = Len(f.blocks)
      /\ F2 = [params |-> f.params, blocks |-> F2.blocks, void |-> f.void, opt |-> f.opt]
  <2>1. /\ DOMAIN F.blocks = Blocks(f) /\ Len(F.blocks) = Len(f.blocks)
        /\ F = [params |-> f.params, blocks |-> F.blocks, void |-> f.void, opt |-> f.opt]
    BY DEF Rewritten
  <2>2. DOMAIN F2.blocks = Blocks(f)
    BY <1>s, <1>b
  <2>4. Len(f.blocks) \in Nat /\ Blocks(f) = 1 .. Len(f.blocks)
    BY BlocksInOrder DEF Blocks
  <2>5. Len(F2.blocks) = Len(f.blocks)
    <3>1. F2.blocks = [c \in 1 .. Len(f.blocks) |-> F2.blocks[c]]
      BY <1>s, <1>b, <2>4
    <3>2. QED
      BY <2>4, <3>1
  <2>6. F2 = [params |-> f.params, blocks |-> F2.blocks, void |-> f.void, opt |-> f.opt]
    <3>1. F2 = [params |-> F.params, blocks |-> F2.blocks, void |-> F.void, opt |-> F.opt]
      BY <1>s
    <3>2. F.params = f.params /\ F.void = f.void /\ F.opt = f.opt
      BY <2>1
    <3>3. QED
      BY <3>1, <3>2
  <2>7. QED
    BY <2>2, <2>5, <2>6
<1>11. Rewritten(f, g, sig2, prog2, cur2, F2)
  BY <1>8, <1>9, <1>10 DEF Rewritten
<1>12. QED
  BY <1>11 DEF sig2, prog2, cur2, F2

-----------------------------------------------------------------------------
(* The walk of the dominator tree. *)

\* A call of the renaming.
Framed(c) ==
  /\ c = [block |-> c.block, index |-> c.index, child |-> c.child, pushed |-> c.pushed]
  /\ Len(c.pushed) \in Nat /\ c.pushed = [i \in 1 .. Len(c.pushed) |-> c.pushed[i]]

\* A stack of such calls.
Frames(w) ==
  Len(w) \in Nat /\ w = [k \in 1 .. Len(w) |-> w[k]] /\ \A k \in 1 .. Len(w) : Framed(w[k])

\* The calls that have not returned are a path of the tree; children are entered
\* in order; a block whose call has returned is done, its children have been entered.
Walking(f, d, ch, g, prog, w) ==
  /\ \A k \in 1 .. Len(w) :
       /\ w[k].block \in Blocks(f) /\ w[k].index = prog[w[k].block] /\ w[k].index # 0
       /\ w[k].child \in 1 .. Len(ch[w[k].block]) + 1
       /\ w[k].child # 1 => w[k].index = End(g, w[k].block)
       /\ \A j \in DOMAIN ch[w[k].block] : prog[ch[w[k].block][j]] # 0 <=> j < w[k].child
  /\ \A k \in 2 .. Len(w) : w[k - 1].index = End(g, w[k - 1].block)
  /\ \A j, k \in 1 .. Len(w) : w[j].block = w[k].block => j = k
  /\ \A b \in Blocks(f) : prog[b] # 0 =>
       \/ \E k \in 1 .. Len(w) : w[k].block = b
       \/ prog[b] = End(g, b) /\ \A j \in DOMAIN ch[b] : prog[ch[b][j]] # 0

\* w with c for its newest call.
Onto(w, c) == [k \in 1 .. Len(w) |-> IF k = Len(w) THEN c ELSE w[k]]

\* What replacing the top of the stack does.
LEMMA OntoIs ==
  ASSUME NEW w, Frames(w), Len(w) # 0, NEW c, Framed(c)
  PROVE  /\ Frames(Onto(w, c)) /\ Len(Onto(w, c)) = Len(w)
         /\ \A k \in 1 .. Len(w) : Onto(w, c)[k] = IF k = Len(w) THEN c ELSE w[k]
<1> DEFINE n == Len(w)
           v == Onto(w, c)
<1>1. n \in Nat /\ \A k \in 1 .. n : Framed(w[k])
  BY DEF Frames
<1>2. v = [k \in 1 .. n |-> IF k = n THEN c ELSE w[k]]
  BY DEF Onto
<1> HIDE DEF n, v
<1>3. Len(v) = n /\ v = [k \in 1 .. n |-> v[k]] /\ \A k \in 1 .. n : v[k] = IF k = n THEN c ELSE w[k]
  BY <1>1, <1>2
<1>4. \A k \in 1 .. n : Framed(v[k])
  BY <1>1, <1>3
<1>5. QED
  BY <1>1, <1>3, <1>4 DEF Frames, n, v

\* The walk after the edits that the steps make of it.
LEMMA TopMoves ==
  ASSUME NEW w, Frames(w), w # << >>
  PROVE  /\ Len(w) \in Nat \ {0} /\ Last(w) = w[Len(w)]
         /\ [w EXCEPT ![Len(w)].index = @ + 1]
              = Onto(w, [block |-> Last(w).block, index |-> Last(w).index + 1,
                         child |-> Last(w).child, pushed |-> Last(w).pushed])
         /\ [w EXCEPT ![Len(w)].child = @ + 1]
              = Onto(w, [block |-> Last(w).block, index |-> Last(w).index,
                         child |-> Last(w).child + 1, pushed |-> Last(w).pushed])
         /\ \A x : [w EXCEPT ![Len(w)].index = @ + 1, ![Len(w)].pushed = Append(@, x)]
              = Onto(w, [block |-> Last(w).block, index |-> Last(w).index + 1,
                         child |-> Last(w).child, pushed |-> Append(Last(w).pushed, x)])
<1> DEFINE n == Len(w)
           t == w[n]
<1>1. n \in Nat /\ w = [k \in 1 .. n |-> w[k]] /\ \A k \in 1 .. n : Framed(w[k])
  BY DEF Frames
<1>2. n # 0
  <2> HIDE DEF n
  <2>1. DOMAIN w = 1 .. n
    BY <1>1
  <2>2. QED
    BY <1>1, <2>1, EmptyIs
<1>3. Last(w) = t
  BY DEF Last
<1>4. n \in 1 .. n
  <2> HIDE DEF n
  <2>1. QED
    BY <1>1, <1>2
<1>5. t = [block |-> t.block, index |-> t.index, child |-> t.child, pushed |-> t.pushed]
  BY <1>1, <1>4 DEF Framed
<1>6. \A c : Onto(w, c) = [k \in 1 .. n |-> IF k = n THEN c ELSE w[k]]
  BY DEF Onto
<1>w. DOMAIN w = 1 .. n
  <2> HIDE DEF n, t
  <2>1. QED
    BY <1>1
<1>7. ASSUME NEW c PROVE [w EXCEPT ![n] = c] = Onto(w, c)
  <2> HIDE DEF n, t
  <2>1. [w EXCEPT ![n] = c] = [k \in 1 .. n |-> IF k = n THEN c ELSE w[k]]
    BY <1>1, <1>w
  <2>2. QED
    BY <1>6, <2>1
<1>8. [w EXCEPT ![n].index = @ + 1]
        = Onto(w, [block |-> t.block, index |-> t.index + 1, child |-> t.child, pushed |-> t.pushed])
  <2>1. [w EXCEPT ![n].index = @ + 1] = [w EXCEPT ![n] = [t EXCEPT !.index = t.index + 1]]
    OBVIOUS
  <2>2. [t EXCEPT !.index = t.index + 1]
          = [block |-> t.block, index |-> t.index + 1, child |-> t.child, pushed |-> t.pushed]
    <3> HIDE DEF t
    <3>1. QED
      BY <1>5
  <2>3. QED
    BY <1>7, <2>1, <2>2
<1>9. [w EXCEPT ![n].child = @ + 1]
        = Onto(w, [block |-> t.block, index |-> t.index, child |-> t.child + 1, pushed |-> t.pushed])
  <2>1. [w EXCEPT ![n].child = @ + 1] = [w EXCEPT ![n] = [t EXCEPT !.child = t.child + 1]]
    OBVIOUS
  <2>2. [t EXCEPT !.child = t.child + 1]
          = [block |-> t.block, index |-> t.index, child |-> t.child + 1, pushed |-> t.pushed]
    <3> HIDE DEF t
    <3>1. QED
      BY <1>5
  <2>3. QED
    BY <1>7, <2>1, <2>2
<1>10. ASSUME NEW x
       PROVE  [w EXCEPT ![n].index = @ + 1, ![n].pushed = Append(@, x)]
                = Onto(w, [block |-> t.block, index |-> t.index + 1, child |-> t.child,
                           pushed |-> Append(t.pushed, x)])
  <2> DEFINE v == [w EXCEPT ![n].index = @ + 1]
             c == [block |-> t.block, index |-> t.index + 1, child |-> t.child, pushed |-> t.pushed]
             e == [block |-> t.block, index |-> t.index + 1, child |-> t.child,
                   pushed |-> Append(t.pushed, x)]
  <2>1. [w EXCEPT ![n].index = @ + 1, ![n].pushed = Append(@, x)]
          = [v EXCEPT ![n].pushed = Append(@, x)]
    OBVIOUS
  <2>2. v = [k \in 1 .. n |-> IF k = n THEN c ELSE w[k]]
    BY <1>6, <1>8
  <2>3. [v EXCEPT ![n].pushed = Append(@, x)]
          = [v EXCEPT ![n] = [v[n] EXCEPT !.pushed = Append(v[n].pushed, x)]]
    <3> HIDE DEF v
    <3>1. QED
      OBVIOUS
  <2>4. v[n] = c
    <3> HIDE DEF v, c, n
    <3>1. QED
      BY <1>4, <2>2
  <2>5. [c EXCEPT !.pushed = Append(c.pushed, x)] = e
    <3>1. c.pushed = t.pushed
      OBVIOUS
    <3>2. \A a : [c EXCEPT !.pushed = a]
            = [block |-> t.block, index |-> t.index + 1, child |-> t.child, pushed |-> a]
      OBVIOUS
    <3>3. QED
      BY <3>1, <3>2
  <2>6. [v EXCEPT ![n].pushed = Append(@, x)] = [v EXCEPT ![n] = e]
    <3> HIDE DEF v, c, e
    <3>1. QED
      BY <2>3, <2>4, <2>5
  <2>7. [v EXCEPT ![n] = e] = [k \in 1 .. n |-> IF k = n THEN e ELSE w[k]]
    <3> HIDE DEF v, c, e, n
    <3>1. QED
      BY <2>2
  <2>8. QED
    BY <1>6, <2>1, <2>6, <2>7
<1>11. QED
  BY <1>1, <1>2, <1>3, <1>8, <1>9, <1>10

\* What the list of children says.
LEMMA ListedIs ==
  ASSUME NEW f, NEW d, NEW ch, ChildrenListed(f, d, ch), NEW b \in Blocks(f)
  PROVE  /\ Len(ch[b]) \in Nat /\ DOMAIN ch[b] = 1 .. Len(ch[b])
         /\ \A j \in DOMAIN ch[b] : ch[b][j] \in Blocks(f) /\ ch[b][j] # Entry /\ d[ch[b][j]] = b
         /\ \A i, j \in DOMAIN ch[b] : ch[b][i] = ch[b][j] => i = j
<1>1. ch[b] \in Seq(Blocks(f) \ {Entry})
  BY DEF ChildrenListed
<1>2. /\ Len(ch[b]) \in Nat /\ DOMAIN ch[b] = 1 .. Len(ch[b])
      /\ \A j \in DOMAIN ch[b] : ch[b][j] \in Blocks(f) \ {Entry}
  BY <1>1, SequenceIs
<1>3. QED
  BY <1>2 DEF ChildrenListed

\* Only h gets further.
LEMMA StepIs ==
  ASSUME NEW f, NEW prog \in [Blocks(f) -> Nat], NEW h \in Blocks(f)
  PROVE  \A b \in Blocks(f) : NextProg(prog, h)[b] = IF b = h THEN prog[h] + 1 ELSE prog[b]
BY DEF NextProg

\* An instruction, or the edges, of the block that is being renamed.
LEMMA WalkOn ==
  ASSUME NEW f, NEW d, NEW ch, ChildrenListed(f, d, ch), NEW g, NEW prog \in [Blocks(f) -> Nat],
         NEW w, Frames(w), Len(w) # 0, Walking(f, d, ch, g, prog, w),
         NEW h \in Blocks(f), h = w[Len(w)].block, prog[h] # End(g, h),
         NEW c, Framed(c), c.block = h, c.index = prog[h] + 1, c.child = w[Len(w)].child
  PROVE  Walking(f, d, ch, g, NextProg(prog, h), Onto(w, c))
<1> DEFINE n == Len(w)
           v == Onto(w, c)
           prog2 == NextProg(prog, h)
<1>1. /\ \A k \in 1 .. n :
       /\ w[k].block \in Blocks(f) /\ w[k].index = prog[w[k].block] /\ w[k].index # 0
       /\ w[k].child \in 1 .. Len(ch[w[k].block]) + 1
       /\ w[k].child # 1 => w[k].index = End(g, w[k].block)
       /\ \A j \in DOMAIN ch[w[k].block] : prog[ch[w[k].block][j]] # 0 <=> j < w[k].child
  BY DEF Walking
<1>2. \A k \in 2 .. n : w[k - 1].index = End(g, w[k - 1].block)
  BY DEF Walking
<1>3. \A j, k \in 1 .. n : w[j].block = w[k].block => j = k
  BY DEF Walking
<1>4. \A b \in Blocks(f) : prog[b] # 0 =>
       \/ \E k \in 1 .. n : w[k].block = b
       \/ prog[b] = End(g, b) /\ \A j \in DOMAIN ch[b] : prog[ch[b][j]] # 0
  BY DEF Walking
<1>5. Len(v) = n /\ \A k \in 1 .. n : v[k] = IF k = n THEN c ELSE w[k]
  BY OntoIs
<1>6. n \in Nat /\ n \in 1 .. n
  <2>1. n \in Nat /\ n # 0
    BY DEF Frames
  <2> HIDE DEF n
  <2>2. QED
    BY <2>1
<1>7. \A b \in Blocks(f) : prog2[b] = IF b = h THEN prog[h] + 1 ELSE prog[b]
  BY StepIs
<1>8. prog[h] # 0 /\ prog[h] + 1 # 0
  BY <1>1, <1>6
<1>9. \A b \in Blocks(f) : prog2[b] # 0 <=> prog[b] # 0
  BY <1>7, <1>8
<1>10. \A b \in Blocks(f) : \A j \in DOMAIN ch[b] : ch[b][j] \in Blocks(f)
  BY ListedIs
<1>e. w[n].child = 1
  BY <1>1, <1>6
<1>c. c.block = w[n].block /\ c.block = h /\ c.index = prog[h] + 1 /\ c.child = w[n].child
  OBVIOUS
<1> HIDE DEF n, v, prog2
<1>11. \A k \in 1 .. n : v[k].block = w[k].block /\ v[k].child = w[k].child
  BY <1>5, <1>c
<1>12. ASSUME NEW k \in 1 .. n
       PROVE  /\ v[k].index = prog2[v[k].block] /\ v[k].index # 0
              /\ v[k].child # 1 => v[k].index = End(g, v[k].block)
  <2>1. CASE k = n
    BY <1>5, <1>7, <1>8, <1>c, <1>e, <2>1
  <2>2. CASE k # n
    <3>1. v[k] = w[k]
      BY <1>5, <2>2
    <3>2. w[k].block # h
      BY <1>3, <1>6, <2>2 DEF n
    <3>3. /\ w[k].block \in Blocks(f) /\ w[k].index = prog[w[k].block] /\ w[k].index # 0
          /\ w[k].child # 1 => w[k].index = End(g, w[k].block)
      BY <1>1
    <3>4. prog2[w[k].block] = prog[w[k].block]
      BY <1>7, <3>2, <3>3
    <3>5. QED
      BY <3>1, <3>3, <3>4
  <2>3. QED
    BY <2>1, <2>2
<1>13. ASSUME NEW k \in 1 .. n
       PROVE  /\ v[k].block \in Blocks(f)
              /\ v[k].child \in 1 .. Len(ch[v[k].block]) + 1
              /\ \A j \in DOMAIN ch[v[k].block] : prog2[ch[v[k].block][j]] # 0 <=> j < v[k].child
  <2>1. PICK e : e = w[k].block
    OBVIOUS
  <2>2. /\ e \in Blocks(f) /\ w[k].child \in 1 .. Len(ch[e]) + 1
        /\ \A j \in DOMAIN ch[e] : prog[ch[e][j]] # 0 <=> j < w[k].child
    BY <1>1, <2>1
  <2>3. v[k].block = e /\ v[k].child = w[k].child
    BY <1>11, <2>1
  <2>4. \A j \in DOMAIN ch[e] : prog2[ch[e][j]] # 0 <=> j < w[k].child
    BY <1>9, <1>10, <2>2
  <2>5. QED
    BY <2>2, <2>3, <2>4
<1>14. ASSUME NEW k \in 2 .. n PROVE v[k - 1].index = End(g, v[k - 1].block)
  <2>1. k - 1 \in 1 .. n /\ k - 1 # n
    BY <1>6
  <2>2. QED
    BY <1>2, <1>5, <2>1
<1>15. ASSUME NEW b \in Blocks(f), prog2[b] # 0
       PROVE  \/ \E k \in 1 .. n : v[k].block = b
              \/ prog2[b] = End(g, b) /\ \A j \in DOMAIN ch[b] : prog2[ch[b][j]] # 0
  <2>1. CASE \E k \in 1 .. n : w[k].block = b
    BY <1>11, <2>1
  <2>2. CASE ~\E k \in 1 .. n : w[k].block = b
    <3>1. b # h
      BY <1>6, <2>2 DEF n
    <3>2. prog[b] = End(g, b) /\ \A j \in DOMAIN ch[b] : prog[ch[b][j]] # 0
      BY <1>4, <1>9, <1>15, <2>2
    <3>3. QED
      BY <1>7, <1>9, <1>10, <3>1, <3>2
  <2>3. QED
    BY <2>1, <2>2
<1>16. \A j, k \in 1 .. n : v[j].block = v[k].block => j = k
  BY <1>3, <1>11
<1>17. Walking(f, d, ch, g, prog2, v)
  BY <1>5, <1>12, <1>13, <1>14, <1>15, <1>16 DEF Walking
<1>18. QED
  BY <1>17 DEF prog2, v

\* The walk begins in the entry.
LEMMA WalkStarts ==
  ASSUME NEW f, NEW d, NEW ch, ChildrenListed(f, d, ch), NEW g, Entry \in Blocks(f)
  PROVE  /\ Frames(<<Call(Entry)>>)
         /\ Walking(f, d, ch, g, [b \in Blocks(f) |-> IF b = Entry THEN 1 ELSE 0], <<Call(Entry)>>)
<1> DEFINE w == <<Call(Entry)>>
           prog == [b \in Blocks(f) |-> IF b = Entry THEN 1 ELSE 0]
<1>1. Len(w) = 1 /\ w = [k \in 1 .. Len(w) |-> w[k]] /\ w[1] = Call(Entry)
  OBVIOUS
<1>2. Framed(Call(Entry))
  <2> DEFINE e == << >>
  <2>1. Len(e) = 0 /\ e = [i \in 1 .. Len(e) |-> e[i]]
    <3>1. 1 .. 0 = {} /\ \A F : [i \in {} |-> F[i]] = << >>
      OBVIOUS
    <3>2. QED
      BY <3>1
  <2>2. QED
    BY <2>1 DEF Framed, Call
<1>3. Frames(w)
  BY <1>1, <1>2 DEF Frames
<1>4. Call(Entry).block = Entry /\ Call(Entry).index = 1 /\ Call(Entry).child = 1
  BY DEF Call
<1>5. \A b \in Blocks(f) : prog[b] = IF b = Entry THEN 1 ELSE 0
  OBVIOUS
<1> HIDE DEF w, prog
<1>6. \A k \in 1 .. Len(w) : k = 1 /\ w[k] = Call(Entry)
  BY <1>1
<1>7. \A j \in DOMAIN ch[Entry] : prog[ch[Entry][j]] = 0 /\ ~(j < 1)
  <2>1. \A j \in DOMAIN ch[Entry] : ch[Entry][j] \in Blocks(f) /\ ch[Entry][j] # Entry
    BY ListedIs
  <2>2. Len(ch[Entry]) \in Nat /\ DOMAIN ch[Entry] = 1 .. Len(ch[Entry])
    BY ListedIs
  <2>3. QED
    BY <1>5, <2>1, <2>2
<1>8. 1 \in 1 .. Len(ch[Entry]) + 1
  <2>1. Len(ch[Entry]) \in Nat
    BY ListedIs
  <2>2. QED
    BY <2>1
<1>9. 1 \in 1 .. Len(w) /\ ~\E k \in 2 .. Len(w) : TRUE
  BY <1>1
<1>10. ASSUME NEW k \in 1 .. Len(w)
       PROVE  /\ w[k].block \in Blocks(f) /\ w[k].index = prog[w[k].block] /\ w[k].index # 0
              /\ w[k].child \in 1 .. Len(ch[w[k].block]) + 1
              /\ w[k].child # 1 => w[k].index = End(g, w[k].block)
              /\ \A j \in DOMAIN ch[w[k].block] : prog[ch[w[k].block][j]] # 0 <=> j < w[k].child
  BY <1>4, <1>5, <1>6, <1>7, <1>8
<1>11. \A b \in Blocks(f) : prog[b] # 0 => b = Entry
  BY <1>5
<1>12. w[1].block = Entry
  BY <1>4, <1>6, <1>9
<1>13. Walking(f, d, ch, g, prog, w)
  BY <1>6, <1>9, <1>10, <1>11, <1>12 DEF Walking
<1>14. QED
  BY <1>3, <1>13 DEF w, prog

\* The next child of a block that is done itself.
LEMMA WalkDown ==
  ASSUME NEW f, NEW d, DomTree(f, d), NEW ch, ChildrenListed(f, d, ch), NEW g, Base(f, g), NEW prog,
         Progressing(f, g, prog),
         NEW w, Frames(w), Len(w) # 0, Walking(f, d, ch, g, prog, w),
         NEW h \in Blocks(f), h = w[Len(w)].block, prog[h] = End(g, h),
         w[Len(w)].child \in DOMAIN ch[h], NEW e, e = ch[h][w[Len(w)].child],
         NEW c, Framed(c), c.block = h, c.index = prog[h], c.child = w[Len(w)].child + 1
  PROVE  /\ e \in Blocks(f) /\ prog[e] = 0 /\ e # Entry /\ d[e] = h
         /\ Frames(Append(Onto(w, c), Call(e)))
         /\ Walking(f, d, ch, g, NextProg(prog, e), Append(Onto(w, c), Call(e)))
<1> DEFINE n == Len(w)
           u == Onto(w, c)
           v == Append(u, Call(e))
           prog2 == NextProg(prog, e)
           i == w[n].child
<1>p. prog \in [Blocks(f) -> Nat]
  BY DEF Progressing
<1>1. /\ \A k \in 1 .. n :
       /\ w[k].block \in Blocks(f) /\ w[k].index = prog[w[k].block] /\ w[k].index # 0
       /\ w[k].child \in 1 .. Len(ch[w[k].block]) + 1
       /\ w[k].child # 1 => w[k].index = End(g, w[k].block)
       /\ \A j \in DOMAIN ch[w[k].block] : prog[ch[w[k].block][j]] # 0 <=> j < w[k].child
  BY DEF Walking
<1>2. \A k \in 2 .. n : w[k - 1].index = End(g, w[k - 1].block)
  BY DEF Walking
<1>3. \A j, k \in 1 .. n : w[j].block = w[k].block => j = k
  BY DEF Walking
<1>4. \A b \in Blocks(f) : prog[b] # 0 =>
       \/ \E k \in 1 .. n : w[k].block = b
       \/ prog[b] = End(g, b) /\ \A j \in DOMAIN ch[b] : prog[ch[b][j]] # 0
  BY DEF Walking
<1>5. Len(u) = n /\ Frames(u) /\ \A k \in 1 .. n : u[k] = IF k = n THEN c ELSE w[k]
  BY OntoIs
<1>6. n \in Nat /\ n \in 1 .. n
  <2>1. n \in Nat /\ n # 0
    BY DEF Frames
  <2> HIDE DEF n
  <2>2. QED
    BY <2>1
<1>7. /\ Len(ch[h]) \in Nat /\ DOMAIN ch[h] = 1 .. Len(ch[h])
      /\ \A j \in DOMAIN ch[h] : ch[h][j] \in Blocks(f) /\ ch[h][j] # Entry /\ d[ch[h][j]] = h
      /\ \A k, j \in DOMAIN ch[h] : ch[h][k] = ch[h][j] => k = j
  BY ListedIs
<1>8. e \in Blocks(f) /\ e # Entry /\ d[e] = h
  BY <1>7
<1>9. prog[e] = 0
  <2>1. i \in Int /\ ~(i < i)
    BY <1>7
  <2>2. ~(prog[ch[h][i]] # 0)
    BY <1>1, <1>6, <2>1
  <2>3. QED
    BY <2>2
<1>10. \A b \in Blocks(f) : prog2[b] = IF b = e THEN 1 ELSE prog[b]
  <2>1. \A b \in Blocks(f) : prog2[b] = IF b = e THEN prog[e] + 1 ELSE prog[b]
    BY <1>8, <1>p, StepIs
  <2>2. QED
    BY <1>9, <2>1
<1>11. \A b \in Blocks(f) : \A j \in DOMAIN ch[b] :
         ch[b][j] \in Blocks(f) /\ ch[b][j] # Entry /\ d[ch[b][j]] = b
  BY ListedIs
<1>12. \A j \in DOMAIN ch[e] : prog[ch[e][j]] = 0 /\ ch[e][j] # e /\ ~(j < 1)
  <2>1. ASSUME NEW j \in DOMAIN ch[e] PROVE prog[ch[e][j]] = 0 /\ ch[e][j] # e
    <3> DEFINE b == ch[e][j]
    <3>1. b \in Blocks(f) \ {Entry} /\ d[b] = e
      BY <1>8, <1>11, <2>1
    <3>0. DomTree(f, d)
      BY <1>8
    <3> HIDE DEF b
    <3>2. StrictlyDominates(f, e, b)
      BY <3>0, <3>1, ParentDominates
    <3>3. b # e
      BY <3>0, <3>1, <3>2, ParentDominates
    <3>4. prog[b] # 0 => prog[e] = End(g, e)
      BY <1>8, <3>1, <3>2 DEF Progressing
    <3>5. End(g, e) # 0
      <4>1. Len(g.blocks[e]) \in Nat
        BY <1>8 DEF Base
      <4>2. QED
        BY <4>1 DEF End
    <3>6. QED
      BY <1>9, <3>3, <3>4, <3>5 DEF b
  <2>2. Len(ch[e]) \in Nat /\ DOMAIN ch[e] = 1 .. Len(ch[e])
    BY <1>8, ListedIs
  <2>3. \A j \in DOMAIN ch[e] : ~(j < 1)
    BY <2>2
  <2>4. QED
    BY <2>1, <2>3, Zenon
<1>13. Framed(Call(e)) /\ Call(e).block = e /\ Call(e).index = 1 /\ Call(e).child = 1
  <2> DEFINE z == << >>
  <2>1. Len(z) = 0 /\ z = [k \in 1 .. Len(z) |-> z[k]]
    <3>1. 1 .. 0 = {} /\ \A F : [k \in {} |-> F[k]] = << >>
      OBVIOUS
    <3>2. QED
      BY <3>1
  <2>2. QED
    BY <2>1 DEF Framed, Call
<1>i. /\ i \in DOMAIN ch[h] /\ e = ch[h][i] /\ i = w[n].child /\ h = w[n].block
      /\ c.block = h /\ c.index = prog[h] /\ c.child = i + 1 /\ prog[h] = End(g, h)
  OBVIOUS
<1> HIDE DEF n, v, u, prog2, i
<1>14. /\ Len(v) = n + 1 /\ v = [k \in 1 .. n + 1 |-> v[k]]
       /\ \A k \in 1 .. n : v[k] = IF k = n THEN c ELSE w[k]
       /\ v[n + 1] = Call(e)
       /\ n + 1 \in Nat
  <2>1. u = [k \in 1 .. n |-> u[k]]
    BY <1>5 DEF Frames
  <2>2. Len(Append(u, Call(e))) = n + 1
        /\ Append(u, Call(e)) = [k \in 1 .. n + 1 |-> IF k = n + 1 THEN Call(e) ELSE u[k]]
    BY <1>6, <2>1, AppendIs
  <2>3. v = [k \in 1 .. n + 1 |-> IF k = n + 1 THEN Call(e) ELSE u[k]] /\ Len(v) = n + 1
    BY <2>2 DEF v
  <2>4. n + 1 \in 1 .. n + 1 /\ \A k \in 1 .. n : k \in 1 .. n + 1 /\ k # n + 1
    BY <1>6
  <2>5. QED
    BY <1>5, <1>6, <2>3, <2>4
<1>15. \A k \in 1 .. n + 1 : k \in 1 .. n \/ k = n + 1
  BY <1>6
<1>16. Frames(v)
  <2>1. \A k \in 1 .. n : Framed(v[k])
    BY <1>5, <1>14 DEF Frames
  <2>2. \A k \in 1 .. n + 1 : Framed(v[k])
    BY <1>13, <1>14, <1>15, <2>1
  <2>3. QED
    BY <1>14, <2>2 DEF Frames
<1>17. ASSUME NEW k \in 1 .. n PROVE v[k].block = w[k].block /\ v[k].index = w[k].index
  <2>1. CASE k = n
    <3>1. w[n].block = h /\ w[n].index = prog[h]
      BY <1>1, <1>6, <1>i
    <3>2. QED
      BY <1>14, <1>i, <2>1, <3>1
  <2>2. CASE k # n
    BY <1>14, <2>2
  <2>3. QED
    BY <2>1, <2>2
<1>18. \A k \in 1 .. n : w[k].block # e
  BY <1>1, <1>9
<1>19. ASSUME NEW k \in 1 .. n
       PROVE  /\ v[k].block \in Blocks(f) /\ v[k].index = prog2[v[k].block] /\ v[k].index # 0
              /\ v[k].child \in 1 .. Len(ch[v[k].block]) + 1
              /\ v[k].child # 1 => v[k].index = End(g, v[k].block)
              /\ \A j \in DOMAIN ch[v[k].block] : prog2[ch[v[k].block][j]] # 0 <=> j < v[k].child
  <2>1. v[k].block \in Blocks(f) /\ v[k].index = prog2[v[k].block] /\ v[k].index # 0
    BY <1>1, <1>10, <1>17, <1>18
  <2>2. CASE k = n
    <3>1. v[k].child = i + 1 /\ v[k].block = h
      BY <1>14, <1>i, <2>2
    <3>2. i + 1 \in 1 .. Len(ch[h]) + 1
      BY <1>7, <1>i, SMTT(30)
    <3>3. v[k].index = End(g, v[k].block)
      BY <1>14, <1>i, <2>2
    <3>4. ASSUME NEW j \in DOMAIN ch[h] PROVE prog2[ch[h][j]] # 0 <=> j < i + 1
      <4>1. prog[ch[h][j]] # 0 <=> j < i
        BY <1>1, <1>6, <1>i
      <4>2. ch[h][j] = e <=> j = i
        BY <1>7, <1>i
      <4>3. j \in Int /\ i \in Int
        BY <1>7, <1>i
      <4>4. j < i + 1 <=> j < i \/ j = i
        BY <4>3
      <4>5. QED
        BY <1>7, <1>10, <4>1, <4>2, <4>4
    <3>5. QED
      BY <2>1, <3>1, <3>2, <3>3, <3>4
  <2>3. CASE k # n
    <3>1. v[k] = w[k]
      BY <1>14, <2>3
    <3>2. \A j \in DOMAIN ch[w[k].block] : ch[w[k].block][j] # e
      <4>1. w[k].block # h
        BY <1>3, <1>6, <1>i, <2>3
      <4>2. QED
        BY <1>1, <1>8, <1>11, <4>1, SMTT(60)
    <3>3. \A j \in DOMAIN ch[w[k].block] : prog2[ch[w[k].block][j]] = prog[ch[w[k].block][j]]
      BY <1>1, <1>10, <1>11, <3>2
    <3>4. QED
      BY <1>1, <2>1, <3>1, <3>3
  <2>4. QED
    BY <2>2, <2>3
<1>20. /\ v[n + 1].block \in Blocks(f) /\ v[n + 1].index = prog2[v[n + 1].block] /\ v[n + 1].index # 0
       /\ v[n + 1].child \in 1 .. Len(ch[v[n + 1].block]) + 1
       /\ v[n + 1].child # 1 => v[n + 1].index = End(g, v[n + 1].block)
       /\ \A j \in DOMAIN ch[v[n + 1].block] : prog2[ch[v[n + 1].block][j]] # 0 <=> j < v[n + 1].child
  <2>1. 1 \in 1 .. Len(ch[e]) + 1
    <3>1. Len(ch[e]) \in Nat
      BY <1>8, ListedIs
    <3>2. QED
      BY <3>1
  <2>2. \A j \in DOMAIN ch[e] : prog2[ch[e][j]] = 0 /\ ~(j < 1)
    BY <1>8, <1>10, <1>11, <1>12
  <2>3. v[n + 1].block = e /\ v[n + 1].index = 1 /\ v[n + 1].child = 1 /\ prog2[e] = 1
    BY <1>8, <1>10, <1>13, <1>14
  <2> DEFINE t == v[n + 1]
  <2>4. t.block = e /\ t.index = 1 /\ t.child = 1
    BY <2>3
  <2> HIDE DEF t
  <2>5. /\ t.block \in Blocks(f) /\ t.index = prog2[t.block] /\ t.index # 0
        /\ t.child \in 1 .. Len(ch[t.block]) + 1
        /\ t.child # 1 => t.index = End(g, t.block)
        /\ \A j \in DOMAIN ch[t.block] : prog2[ch[t.block][j]] # 0 <=> j < t.child
    <3>1. \A j \in DOMAIN ch[t.block] : prog2[ch[t.block][j]] # 0 <=> j < t.child
      BY <2>2, <2>4, Zenon
    <3>2. t.child \in 1 .. Len(ch[t.block]) + 1
      BY <2>1, <2>4, Zenon
    <3>3. t.block \in Blocks(f) /\ t.index = prog2[t.block]
      BY <1>8, <2>3, <2>4, Zenon
    <3>4. t.index # 0
      BY <2>4
    <3>5. QED
      BY <2>4, <3>1, <3>2, <3>3, <3>4, Zenon
  <2>6. QED
    BY <2>5 DEF t
<1>21. \A k \in 1 .. n + 1 :
       /\ v[k].block \in Blocks(f) /\ v[k].index = prog2[v[k].block] /\ v[k].index # 0
       /\ v[k].child \in 1 .. Len(ch[v[k].block]) + 1
       /\ v[k].child # 1 => v[k].index = End(g, v[k].block)
       /\ \A j \in DOMAIN ch[v[k].block] : prog2[ch[v[k].block][j]] # 0 <=> j < v[k].child
  BY <1>15, <1>19, <1>20
<1>22. ASSUME NEW k \in 2 .. n + 1 PROVE v[k - 1].index = End(g, v[k - 1].block)
  <2>1. k - 1 \in 1 .. n /\ (k - 1 = n \/ k \in 2 .. n)
    BY <1>6
  <2>2. CASE k - 1 = n
    BY <1>6, <1>14, <2>2
  <2>3. CASE k \in 2 .. n
    BY <1>2, <1>17, <2>1, <2>3
  <2>4. QED
    BY <2>1, <2>2, <2>3
<1>23. ASSUME NEW j \in 1 .. n + 1, NEW k \in 1 .. n + 1, v[j].block = v[k].block PROVE j = k
  <2>1. \A m \in 1 .. n : v[m].block = w[m].block /\ v[m].block # e
    BY <1>17, <1>18
  <2>2. v[n + 1].block = e
    BY <1>13, <1>14
  <2>3. QED
    BY <1>3, <1>15, <1>23, <2>1, <2>2
<1>24. ASSUME NEW b \in Blocks(f), prog2[b] # 0
       PROVE  \/ \E k \in 1 .. n + 1 : v[k].block = b
              \/ prog2[b] = End(g, b) /\ \A j \in DOMAIN ch[b] : prog2[ch[b][j]] # 0
  <2>0. n + 1 \in 1 .. n + 1 /\ \A k \in 1 .. n : k \in 1 .. n + 1
    BY <1>6
  <2>1. CASE b = e
    BY <1>13, <1>14, <2>0, <2>1
  <2>2. CASE \E k \in 1 .. n : w[k].block = b
    BY <1>17, <2>0, <2>2
  <2>3. CASE b # e /\ ~\E k \in 1 .. n : w[k].block = b
    <3>1. prog[b] = End(g, b) /\ \A j \in DOMAIN ch[b] : prog[ch[b][j]] # 0
      BY <1>4, <1>10, <1>24, <2>3
    <3>2. \A j \in DOMAIN ch[b] : prog2[ch[b][j]] # 0
      BY <1>10, <1>11, <3>1
    <3>3. QED
      BY <1>10, <2>3, <3>1, <3>2
  <2>4. QED
    BY <2>1, <2>2, <2>3
<1>25. Walking(f, d, ch, g, prog2, v)
  BY <1>14, <1>21, <1>22, <1>23, <1>24 DEF Walking
<1>26. QED
  BY <1>8, <1>9, <1>16, <1>25 DEF prog2, v, u

\* v is w without its newest call.
Shorter(v, w) == Len(v) = Len(w) - 1 /\ \A k \in 1 .. Len(w) - 1 : v[k] = w[k]

\* The call of a block whose children have all been renamed returns.
LEMMA WalkUp ==
  ASSUME NEW f, NEW d, NEW ch, ChildrenListed(f, d, ch), NEW g, NEW prog,
         NEW w, Frames(w), Len(w) # 0, Walking(f, d, ch, g, prog, w),
         w[Len(w)].child \notin DOMAIN ch[w[Len(w)].block],
         prog[w[Len(w)].block] = End(g, w[Len(w)].block)
  PROVE  /\ Frames(Front(w)) /\ Walking(f, d, ch, g, prog, Front(w))
         /\ Shorter(Front(w), w)
<1> DEFINE n == Len(w)
           v == Front(w)
           h == w[n].block
<1>1. /\ \A k \in 1 .. n :
       /\ w[k].block \in Blocks(f) /\ w[k].index = prog[w[k].block] /\ w[k].index # 0
       /\ w[k].child \in 1 .. Len(ch[w[k].block]) + 1
       /\ w[k].child # 1 => w[k].index = End(g, w[k].block)
       /\ \A j \in DOMAIN ch[w[k].block] : prog[ch[w[k].block][j]] # 0 <=> j < w[k].child
  BY DEF Walking
<1>2. \A k \in 2 .. n : w[k - 1].index = End(g, w[k - 1].block)
  BY DEF Walking
<1>3. \A j, k \in 1 .. n : w[j].block = w[k].block => j = k
  BY DEF Walking
<1>4. \A b \in Blocks(f) : prog[b] # 0 =>
       \/ \E k \in 1 .. n : w[k].block = b
       \/ prog[b] = End(g, b) /\ \A j \in DOMAIN ch[b] : prog[ch[b][j]] # 0
  BY DEF Walking
<1>5. n \in Nat /\ w = [k \in 1 .. n |-> w[k]] /\ \A k \in 1 .. n : Framed(w[k])
  BY DEF Frames
<1>f. v = SubSeq(w, 1, n - 1)
  BY DEF Front
<1>h. prog[h] = End(g, h) /\ w[n].child \notin DOMAIN ch[h]
  OBVIOUS
<1> HIDE DEF n, v, h
<1>6. n \in 1 .. n /\ n - 1 \in Nat
  BY <1>5 DEF n
<1>7. Len(v) = n - 1 /\ v = [k \in 1 .. n - 1 |-> w[k]]
  BY <1>5, <1>6, <1>f
<1>8. /\ \A k \in 1 .. n - 1 : v[k] = w[k] /\ k \in 1 .. n
      /\ v = [k \in 1 .. n - 1 |-> v[k]]
  BY <1>6, <1>7
<1>9. Frames(v)
  BY <1>5, <1>6, <1>7, <1>8 DEF Frames
<1>10. \A j \in DOMAIN ch[h] : prog[ch[h][j]] # 0
  <2>1. /\ w[n].child \in 1 .. Len(ch[h]) + 1 /\ h \in Blocks(f)
        /\ \A j \in DOMAIN ch[h] : prog[ch[h][j]] # 0 <=> j < w[n].child
    BY <1>1, <1>6 DEF h
  <2>2. Len(ch[h]) \in Nat /\ DOMAIN ch[h] = 1 .. Len(ch[h])
    BY <2>1, ListedIs
  <2>3. \A j \in DOMAIN ch[h] : j < w[n].child
    BY <1>h, <2>1, <2>2
  <2>4. QED
    BY <2>1, <2>3
<1>11. ASSUME NEW b \in Blocks(f), prog[b] # 0
       PROVE  \/ \E k \in 1 .. n - 1 : v[k].block = b
              \/ prog[b] = End(g, b) /\ \A j \in DOMAIN ch[b] : prog[ch[b][j]] # 0
  <2>1. CASE b = h
    BY <1>10, <1>h, <2>1
  <2>2. CASE b # h /\ \E k \in 1 .. n : w[k].block = b
    <3>1. PICK k \in 1 .. n : w[k].block = b
      BY <2>2
    <3>2. k # n
      BY <2>2, <3>1 DEF h
    <3>3. k \in 1 .. n - 1
      BY <1>5, <3>2
    <3>4. QED
      BY <1>8, <3>1, <3>3
  <2>3. CASE ~\E k \in 1 .. n : w[k].block = b
    BY <1>4, <1>11, <2>3
  <2>4. QED
    BY <2>1, <2>2, <2>3
<1>12. ASSUME NEW k \in 2 .. n - 1 PROVE v[k - 1].index = End(g, v[k - 1].block)
  <2>1. k \in 2 .. n /\ k - 1 \in 1 .. n - 1
    BY <1>6
  <2>2. QED
    BY <1>2, <1>8, <2>1
<1>13. Walking(f, d, ch, g, prog, v)
  BY <1>1, <1>3, <1>7, <1>8, <1>11, <1>12 DEF Walking
<1>14. QED
  BY <1>7, <1>8, <1>9, <1>13 DEF n, v, Shorter

\* When the first call has returned, all blocks are done.
LEMMA WalkOver ==
  ASSUME NEW f, NEW d, DomTree(f, d), NEW ch, ChildrenListed(f, d, ch), NEW g, NEW prog,
         Progressing(f, g, prog), Walking(f, d, ch, g, prog, << >>)
  PROVE  \A b \in Blocks(f) : prog[b] = End(g, b)
<1>1. ASSUME NEW b \in Blocks(f), prog[b] # 0
      PROVE  prog[b] = End(g, b) /\ \A j \in DOMAIN ch[b] : prog[ch[b][j]] # 0
  <2>1. 1 .. Len(<< >>) = {}
    OBVIOUS
  <2>2. QED
    BY <1>1, <2>1 DEF Walking
<1> DEFINE S == {b \in Blocks(f) : prog[b] # 0}
<1>2. Entry \in S
  BY DEF Progressing, DomTree
<1>3. ASSUME NEW c \in Blocks(f) \ {Entry}, d[c] \in S PROVE c \in S
  <2>1. PICK i \in DOMAIN ch[d[c]] : ch[d[c]][i] = c
    BY DEF ChildrenListed
  <2>2. QED
    BY <1>1, <1>3, <2>1
<1>4. S \in SUBSET Blocks(f)
  OBVIOUS
<1> HIDE DEF S
<1>5. S = Blocks(f)
  BY <1>2, <1>3, <1>4 DEF DomTree
<1>6. QED
  BY <1>1, <1>5 DEF S

-----------------------------------------------------------------------------
(* The stacks. *)

\* What may be on a stack.
Storable(f, g, v) == v \in Names(f, g) /\ v # NoValue /\ v \notin Locals(f)

\* How often x is in s.
Count(s, x) == Cardinality({i \in DOMAIN s : s[i] = x})

\* What is on top of s when it has n values.
HeldAt(s, n) == IF n = 0 THEN Zero ELSE s[n]

\* H[k] is how high the stacks were when the k-th call had pushed what it has:
\* what was on top then is the value of the variable where that call is.
Stacked(f, g, cur, w, st, H) ==
  /\ DOMAIN st = Locals(f)
  /\ \A x \in Locals(f) :
       /\ Len(st[x]) \in Nat /\ st[x] = [i \in 1 .. Len(st[x]) |-> st[x][i]]
       /\ \A i \in 1 .. Len(st[x]) : Storable(f, g, st[x][i])
       /\ H[0][x] = 0 /\ H[Len(w)][x] = Len(st[x])
       /\ \A k \in 0 .. Len(w) : H[k][x] \in Nat
       /\ \A j, k \in 0 .. Len(w) : j <= k => H[j][x] <= H[k][x]
       /\ \A k \in 1 .. Len(w) :
            /\ H[k][x] = H[k - 1][x] + Count(w[k].pushed, x)
            /\ HeldAt(st[x], H[k][x]) = cur[w[k].block][w[k].index][x]

\* How counts grow.
LEMMA CountIs ==
  ASSUME NEW s, Len(s) \in Nat, s = [i \in 1 .. Len(s) |-> s[i]], NEW x
  PROVE  /\ Count(s, x) \in Nat
         /\ Count(Append(s, x), x) = Count(s, x) + 1
         /\ \A y : y # x => Count(Append(s, x), y) = Count(s, y)
<1> DEFINE n == Len(s)
           t == Append(s, x)
           P(y) == {i \in 1 .. n : s[i] = y}
<1>1. n \in Nat /\ Len(t) = n + 1 /\ t = [k \in 1 .. n + 1 |-> IF k = n + 1 THEN x ELSE s[k]]
  <2>1. n \in Nat /\ s = [k \in 1 .. n |-> s[k]]
    OBVIOUS
  <2> HIDE DEF n
  <2>2. QED
    BY <2>1, AppendIs
<1>2. DOMAIN s = 1 .. n
  <2> HIDE DEF n
  <2>1. n = Len(s)
    BY DEF n
  <2>2. s = [i \in 1 .. n |-> s[i]]
    BY <2>1
  <2>3. QED
    BY <2>2
<1> HIDE DEF n, t
<1>3. DOMAIN t = 1 .. n + 1
  BY <1>1
<1>4. \A y : IsFiniteSet(P(y)) /\ Cardinality(P(y)) \in Nat
  <2>0. n \in Int
    BY <1>1
  <2>1. IsFiniteSet(1 .. n)
    BY <2>0, FS_Interval
  <2>2. \A y : P(y) \in SUBSET (1 .. n)
    OBVIOUS
  <2>3. QED
    BY <2>1, <2>2, FS_Subset, FS_CardinalityType
<1>5. \A y : Count(s, y) = Cardinality(P(y))
  BY <1>2 DEF Count
<1>6. {i \in DOMAIN t : t[i] = x} = P(x) \cup {n + 1} /\ n + 1 \notin P(x)
  BY <1>1, <1>3
<1>7. Cardinality(P(x) \cup {n + 1}) = Cardinality(P(x)) + 1
  <2> DEFINE Q == P(x)
  <2>1. IsFiniteSet(Q) /\ n + 1 \notin Q
    BY <1>4, <1>6
  <2> HIDE DEF Q
  <2>2. Cardinality(Q \cup {n + 1}) = Cardinality(Q) + 1
    BY <2>1, FS_AddElement
  <2>3. QED
    BY <2>2 DEF Q
<1>8. \A y : y # x => {i \in DOMAIN t : t[i] = y} = P(y)
  BY <1>1, <1>3
<1>9. QED
  BY <1>4, <1>5, <1>6, <1>7, <1>8 DEF Count, t

\* What a variable has at a place may be on its stack.
LEMMA FitsIsStorable ==
  ASSUME NEW f \in Functions, NEW g, Layout(f, g), NEW v, NEW b, NEW p, Fits(f, g, v, b, p)
  PROVE  Storable(f, g, v)
<1>1. Base(f, g)
  BY LayoutIsBase
<1>2. v \in Names(f, g)
  BY AvailableIsNamed DEF Fits
<1>3. v # NoValue
  <2>1. NoValue \notin Params(f) \cup Literals
    BY FunctionFacts
  <2>2. QED
    BY <2>1 DEF Fits, Available
<1>4. v \notin Locals(f)
  <2>1. SUFFICES ASSUME v \in Locals(f) PROVE FALSE
    OBVIOUS
  <2>2. PICK c \in Blocks(f) : \E i \in DOMAIN f.blocks[c] :
          f.blocks[c][i].op = "alloca" /\ f.blocks[c][i].res = v
    BY <2>1, LocalsAre
  <2>3. PICK i \in DOMAIN f.blocks[c] : f.blocks[c][i].op = "alloca" /\ f.blocks[c][i].res = v
    BY <2>2
  <2>4. /\ Shift(f, g, c) + i \in DOMAIN g.blocks[c]
        /\ g.blocks[c][Shift(f, g, c) + i] = f.blocks[c][i]
    BY LayoutIs
  <2>5. QED
    BY <1>3, <2>3, <2>4 DEF Fits, Lasting
<1>5. QED
  BY <1>2, <1>3, <1>4 DEF Storable

\* The variables are where they were, for the first m calls.
Unmoved(f, cur, cur2, w, m) ==
  \A k \in 1 .. m : \A y \in Locals(f) :
    cur2[w[k].block][w[k].index][y] = cur[w[k].block][w[k].index][y]

\* The newest call goes on without pushing.
LEMMA StackStays ==
  ASSUME NEW f, NEW g, NEW cur, NEW w, Frames(w), Len(w) # 0, NEW st, NEW H,
         Stacked(f, g, cur, w, st, H),
         NEW cur2, Unmoved(f, cur, cur2, w, Len(w) - 1),
         NEW c, Framed(c), c.pushed = w[Len(w)].pushed,
         \A y \in Locals(f) : cur2[c.block][c.index][y] = cur[w[Len(w)].block][w[Len(w)].index][y]
  PROVE  Stacked(f, g, cur2, Onto(w, c), st, H)
<1> DEFINE n == Len(w)
           u == Onto(w, c)
<1>1. Len(u) = n /\ \A k \in 1 .. n : u[k] = IF k = n THEN c ELSE w[k]
  BY OntoIs
<1>2. n \in Nat
  BY DEF Frames
<1>3. c.pushed = w[n].pushed
  OBVIOUS
<1>4. \A k \in 1 .. n - 1 : \A y \in Locals(f) :
        cur2[w[k].block][w[k].index][y] = cur[w[k].block][w[k].index][y]
  BY DEF Unmoved
<1>5. \A y \in Locals(f) : cur2[c.block][c.index][y] = cur[w[n].block][w[n].index][y]
  OBVIOUS
<1>6. /\ DOMAIN st = Locals(f)
      /\ \A x \in Locals(f) :
           /\ Len(st[x]) \in Nat /\ st[x] = [i \in 1 .. Len(st[x]) |-> st[x][i]]
           /\ \A i \in 1 .. Len(st[x]) : Storable(f, g, st[x][i])
           /\ H[0][x] = 0 /\ H[n][x] = Len(st[x])
           /\ \A k \in 0 .. n : H[k][x] \in Nat
           /\ \A j, k \in 0 .. n : j <= k => H[j][x] <= H[k][x]
  BY DEF Stacked
<1>7. \A x \in Locals(f) : \A k \in 1 .. n :
        /\ H[k][x] = H[k - 1][x] + Count(w[k].pushed, x)
        /\ HeldAt(st[x], H[k][x]) = cur[w[k].block][w[k].index][x]
  BY DEF Stacked
<1> HIDE DEF n, u
<1>8. ASSUME NEW k \in 1 .. n, NEW x \in Locals(f)
      PROVE  u[k].pushed = w[k].pushed /\ cur2[u[k].block][u[k].index][x] = cur[w[k].block][w[k].index][x]
  <2>1. CASE k = n
    BY <1>1, <1>3, <1>5, <2>1
  <2>2. CASE k # n
    <3>1. k \in 1 .. n - 1
      BY <1>2, <2>2
    <3>2. QED
      BY <1>1, <1>4, <2>2, <3>1
  <2>3. QED
    BY <2>1, <2>2
<1>9. \A x \in Locals(f) : \A k \in 1 .. n :
        /\ H[k][x] = H[k - 1][x] + Count(u[k].pushed, x)
        /\ HeldAt(st[x], H[k][x]) = cur2[u[k].block][u[k].index][x]
  BY <1>7, <1>8
<1>10. QED
  BY <1>1, <1>6, <1>9 DEF Stacked, u

\* It pushes a value v of the variable x.
LEMMA StackPushed ==
  ASSUME NEW f, NEW g, NEW cur, NEW w, Frames(w), Len(w) # 0, NEW st, NEW H,
         Stacked(f, g, cur, w, st, H),
         NEW cur2, Unmoved(f, cur, cur2, w, Len(w) - 1),
         NEW x \in Locals(f), NEW v, Storable(f, g, v),
         NEW c, Framed(c), c.pushed = Append(w[Len(w)].pushed, x),
         \A y \in Locals(f) : cur2[c.block][c.index][y]
                                = IF y = x THEN v ELSE cur[w[Len(w)].block][w[Len(w)].index][y]
  PROVE  \E H2 : Stacked(f, g, cur2, Onto(w, c), [st EXCEPT ![x] = Append(@, v)], H2)
<1> DEFINE n == Len(w)
           u == Onto(w, c)
           st2 == [st EXCEPT ![x] = Append(@, v)]
           H2 == [k \in 0 .. n |-> [y \in Locals(f) |-> IF k = n /\ y = x THEN H[n][x] + 1 ELSE H[k][y]]]
<1>1. Len(u) = n /\ \A k \in 1 .. n : u[k] = IF k = n THEN c ELSE w[k]
  BY OntoIs
<1>2. n \in Nat /\ n # 0
  BY DEF Frames
<1>3. c.pushed = Append(w[n].pushed, x)
  OBVIOUS
<1>4. \A k \in 1 .. n - 1 : \A y \in Locals(f) :
        cur2[w[k].block][w[k].index][y] = cur[w[k].block][w[k].index][y]
  BY DEF Unmoved
<1>5. \A y \in Locals(f) : cur2[c.block][c.index][y] = IF y = x THEN v ELSE cur[w[n].block][w[n].index][y]
  OBVIOUS
<1>6. /\ DOMAIN st = Locals(f)
      /\ \A y \in Locals(f) :
           /\ Len(st[y]) \in Nat /\ st[y] = [i \in 1 .. Len(st[y]) |-> st[y][i]]
           /\ \A i \in 1 .. Len(st[y]) : Storable(f, g, st[y][i])
           /\ H[0][y] = 0 /\ H[n][y] = Len(st[y])
           /\ \A k \in 0 .. n : H[k][y] \in Nat
           /\ \A j, k \in 0 .. n : j <= k => H[j][y] <= H[k][y]
  BY DEF Stacked
<1>7. \A y \in Locals(f) : \A k \in 1 .. n :
        /\ H[k][y] = H[k - 1][y] + Count(w[k].pushed, y)
        /\ HeldAt(st[y], H[k][y]) = cur[w[k].block][w[k].index][y]
  BY DEF Stacked
<1>8. \A k \in 0 .. n : \A y \in Locals(f) : H2[k][y] = IF k = n /\ y = x THEN H[n][x] + 1 ELSE H[k][y]
  OBVIOUS
<1>9. /\ DOMAIN st2 = Locals(f)
      /\ \A y \in Locals(f) : st2[y] = IF y = x THEN Append(st[x], v) ELSE st[y]
  BY <1>6
<1>w. \A k \in 1 .. n : Framed(w[k])
  BY DEF Frames
<1> HIDE DEF n, u, H2, st2
<1>10. LET m == Len(st[x])
       IN  /\ Len(Append(st[x], v)) = m + 1
           /\ Append(st[x], v) = [k \in 1 .. m + 1 |-> IF k = m + 1 THEN v ELSE st[x][k]]
  <2>1. Len(st[x]) \in Nat /\ st[x] = [i \in 1 .. Len(st[x]) |-> st[x][i]]
    BY <1>6
  <2>2. QED
    BY <2>1, AppendIs
<1> DEFINE m == Len(st[x])
<1>11. m \in Nat /\ H[n][x] = m /\ Len(st2[x]) = m + 1
       /\ st2[x] = [k \in 1 .. m + 1 |-> IF k = m + 1 THEN v ELSE st[x][k]]
  BY <1>6, <1>9, <1>10
<1>12. \A i \in 1 .. m : Storable(f, g, st[x][i])
  BY <1>6
<1> HIDE DEF m
<1>13. n \in 1 .. n /\ n \in 0 .. n /\ 0 \in 0 .. n /\ 0 # n /\ n - 1 \in 0 .. n
       /\ \A k \in 1 .. n : k \in 0 .. n /\ k - 1 \in 0 .. n /\ k - 1 # n
  BY <1>2
<1>14. ASSUME NEW y \in Locals(f)
       PROVE  /\ Len(st2[y]) \in Nat /\ st2[y] = [i \in 1 .. Len(st2[y]) |-> st2[y][i]]
              /\ \A i \in 1 .. Len(st2[y]) : Storable(f, g, st2[y][i])
              /\ H2[0][y] = 0 /\ H2[n][y] = Len(st2[y])
              /\ \A k \in 0 .. n : H2[k][y] \in Nat
              /\ \A j, k \in 0 .. n : j <= k => H2[j][y] <= H2[k][y]
  <2>1. CASE y = x
    <3>1. Len(st2[x]) \in Nat
      BY <1>11
    <3>2. st2[x] = [i \in 1 .. m + 1 |-> st2[x][i]]
      BY <1>11
    <3>3. \A i \in 1 .. m + 1 : Storable(f, g, st2[x][i])
      <4>1. \A i \in 1 .. m + 1 : i = m + 1 \/ i \in 1 .. m
        BY <1>11
      <4>2. \A i \in 1 .. m + 1 : st2[x][i] = IF i = m + 1 THEN v ELSE st[x][i]
        BY <1>11
      <4>3. QED
        BY <1>12, <4>1, <4>2
    <3>4. H2[0][x] = 0 /\ H2[n][x] = m + 1
      BY <1>6, <1>8, <1>11, <1>13
    <3>5. \A k \in 0 .. n : H2[k][x] \in Nat
      <4>1. H[n][x] + 1 \in Nat /\ \A k \in 0 .. n : H[k][x] \in Nat
        BY <1>6, <1>11
      <4>2. QED
        BY <1>8, <4>1
    <3>6. ASSUME NEW j \in 0 .. n, NEW k \in 0 .. n, j <= k PROVE H2[j][x] <= H2[k][x]
      <4>1. H[j][x] \in Nat /\ H[k][x] \in Nat /\ H[n][x] \in Nat /\ H[j][x] <= H[k][x]
        BY <1>6, <1>13, <3>6
      <4>2. CASE k = n
        BY <1>8, <4>1, <4>2
      <4>3. CASE k # n
        <5>1. j # n
          BY <1>2, <3>6, <4>3
        <5>2. QED
          BY <1>8, <4>1, <4>3, <5>1
      <4>4. QED
        BY <4>2, <4>3
    <3>7. QED
      BY <1>11, <2>1, <3>1, <3>2, <3>3, <3>4, <3>5, <3>6
  <2>2. CASE y # x
    <3>1. st2[y] = st[y] /\ \A k \in 0 .. n : H2[k][y] = H[k][y]
      BY <1>8, <1>9, <2>2
    <3>2. QED
      BY <1>6, <1>13, <3>1
  <2>3. QED
    BY <2>1, <2>2
<1>15. ASSUME NEW y \in Locals(f), NEW k \in 1 .. n
       PROVE  /\ H2[k][y] = H2[k - 1][y] + Count(u[k].pushed, y)
              /\ HeldAt(st2[y], H2[k][y]) = cur2[u[k].block][u[k].index][y]
  <2>1. /\ H[k][y] = H[k - 1][y] + Count(w[k].pushed, y)
        /\ HeldAt(st[y], H[k][y]) = cur[w[k].block][w[k].index][y]
    BY <1>7
  <2>2. H2[k - 1][y] = H[k - 1][y] /\ H[k - 1][y] \in Nat /\ H[k][y] \in Nat
    BY <1>6, <1>8, <1>13
  <2>3. /\ Count(w[k].pushed, y) \in Nat
        /\ Count(Append(w[k].pushed, x), x) = Count(w[k].pushed, x) + 1
        /\ y # x => Count(Append(w[k].pushed, x), y) = Count(w[k].pushed, y)
    <3>1. Len(w[k].pushed) \in Nat /\ w[k].pushed = [i \in 1 .. Len(w[k].pushed) |-> w[k].pushed[i]]
      BY <1>w DEF Framed
    <3>2. QED
      BY <3>1, CountIs
  <2>4. CASE k = n
    <3>1. u[k] = c /\ u[k].pushed = Append(w[k].pushed, x)
      BY <1>1, <1>3, <2>4
    <3>2. CASE y = x
      <4>1. H2[k][y] = H[n][x] + 1 /\ H2[k][y] = m + 1
        BY <1>8, <1>11, <1>13, <2>4, <3>2
      <4>2. H2[k][y] = H2[k - 1][y] + Count(u[k].pushed, y)
        <5>1. Count(u[k].pushed, y) = Count(w[k].pushed, y) + 1
          BY <2>3, <3>1, <3>2
        <5>2. H[n][x] = H[k][y]
          BY <2>4, <3>2
        <5>3. \A a, b, p \in Nat : a = b + p => a + 1 = b + (p + 1)
          OBVIOUS
        <5>4. H[k][y] + 1 = H[k - 1][y] + (Count(w[k].pushed, y) + 1)
          BY <2>1, <2>2, <2>3, <5>3
        <5>5. QED
          BY <2>2, <4>1, <5>1, <5>2, <5>4
      <4>3. HeldAt(st2[y], m + 1) = v
        <5>1. m + 1 # 0 /\ m + 1 \in 1 .. m + 1
          BY <1>11
        <5>2. st2[x][m + 1] = v
          BY <1>11, <5>1
        <5>3. QED
          BY <3>2, <5>1, <5>2 DEF HeldAt
      <4>4. QED
        BY <1>5, <3>1, <3>2, <4>1, <4>2, <4>3
    <3>3. CASE y # x
      <4>1. H2[k][y] = H[k][y] /\ st2[y] = st[y]
        BY <1>8, <1>9, <1>13, <3>3
      <4>2. cur2[u[k].block][u[k].index][y] = cur[w[k].block][w[k].index][y]
        BY <1>5, <2>4, <3>1, <3>3
      <4>3. QED
        BY <2>1, <2>2, <2>3, <3>1, <3>3, <4>1, <4>2
    <3>4. QED
      BY <3>2, <3>3
  <2>5. CASE k # n
    <3>1. k \in 1 .. n - 1 /\ k \in 0 .. n
      BY <1>2, <2>5
    <3>2. u[k] = w[k] /\ cur2[u[k].block][u[k].index][y] = cur[w[k].block][w[k].index][y]
      BY <1>1, <1>4, <2>5, <3>1, SMTT(30)
    <3>3. H2[k][y] = H[k][y]
      BY <1>8, <2>5, <3>1
    <3>4. HeldAt(st2[y], H[k][y]) = HeldAt(st[y], H[k][y])
      <4>1. CASE y = x
        <5>1. H[k][x] <= m
          <6>1. k <= n
            BY <1>2, <3>1
          <6>2. \A j, l \in 0 .. n : j <= l => H[j][x] <= H[l][x]
            BY <1>6
          <6>3. H[k][x] <= H[n][x]
            BY <1>13, <3>1, <6>1, <6>2
          <6>4. QED
            BY <1>11, <6>3
        <5>2. H[k][x] # 0 => H[k][x] \in 1 .. m + 1 /\ H[k][x] # m + 1
          BY <1>11, <2>2, <4>1, <5>1
        <5>3. H[k][x] # 0 => st2[x][H[k][x]] = st[x][H[k][x]]
          BY <1>11, <5>2
        <5>4. QED
          BY <4>1, <5>3 DEF HeldAt
      <4>2. CASE y # x
        BY <1>9, <4>2
      <4>3. QED
        BY <4>1, <4>2
    <3>5. QED
      BY <2>1, <2>2, <3>2, <3>3, <3>4
  <2>6. QED
    BY <2>4, <2>5
<1>16. Stacked(f, g, cur2, u, st2, H2)
  BY <1>1, <1>9, <1>14, <1>15 DEF Stacked
<1>17. QED
  BY <1>16 DEF u, st2

\* What is on top of a stack is the value of the variable where the walk is.
LEMMA TopHeld ==
  ASSUME NEW f, NEW g, NEW cur, NEW w, Frames(w), Len(w) # 0, NEW st, NEW H,
         Stacked(f, g, cur, w, st, H), NEW x \in Locals(f)
  PROVE  (IF st[x] = << >> THEN Zero ELSE Last(st[x])) = cur[w[Len(w)].block][w[Len(w)].index][x]
<1> DEFINE n == Len(w)
           s == st[x]
<1>1. n \in Nat /\ n # 0
  BY DEF Frames
<1>2. /\ Len(s) \in Nat /\ s = [i \in 1 .. Len(s) |-> s[i]] /\ H[n][x] = Len(s)
      /\ \A k \in 1 .. n : HeldAt(s, H[k][x]) = cur[w[k].block][w[k].index][x]
  BY DEF Stacked
<1>3. Last(s) = s[Len(s)]
  BY DEF Last
<1> HIDE DEF n, s
<1>4. n \in 1 .. n
  BY <1>1
<1>5. HeldAt(s, Len(s)) = cur[w[n].block][w[n].index][x]
  BY <1>2, <1>4
<1>6. s # << >> <=> Len(s) # 0
  <2> DEFINE m == Len(s)
  <2>1. m \in Nat /\ s = [i \in 1 .. m |-> s[i]]
    BY <1>2
  <2> HIDE DEF m
  <2>2. DOMAIN s = 1 .. m
    BY <2>1
  <2>3. s # << >> <=> m # 0
    BY <2>1, <2>2, EmptyIs
  <2>4. QED
    BY <2>3 DEF m
<1>7. (IF s = << >> THEN Zero ELSE Last(s)) = HeldAt(s, Len(s))
  BY <1>3, <1>6 DEF HeldAt
<1>8. QED
  BY <1>5, <1>7 DEF n, s

\* Nothing has been pushed.
LEMMA CountNothing == ASSUME NEW x PROVE Count(<< >>, x) = 0
<1>1. {i \in DOMAIN << >> : << >>[i] = x} = {}
  OBVIOUS
<1>2. QED
  BY <1>1, FS_EmptySet DEF Count

\* The stacks are empty at first, and every variable is zero.
LEMMA StackStarts ==
  ASSUME NEW f, NEW g, NEW cur, NEW w, Len(w) = 1, w[1].pushed = << >>,
         \A x \in Locals(f) : cur[w[1].block][w[1].index][x] = Zero,
         NEW st, st = [x \in Locals(f) |-> << >>]
  PROVE  \E H : Stacked(f, g, cur, w, st, H)
<1> DEFINE H == [k \in 0 .. 1 |-> [x \in Locals(f) |-> 0]]
<1>1. \A k \in 0 .. 1 : \A x \in Locals(f) : H[k][x] = 0
  OBVIOUS
<1>2. \A k \in 1 .. 1 : k = 1 /\ k - 1 = 0
  OBVIOUS
<1> HIDE DEF H
<1>3. ASSUME NEW x \in Locals(f)
      PROVE  /\ Len(st[x]) \in Nat /\ st[x] = [i \in 1 .. Len(st[x]) |-> st[x][i]]
             /\ \A i \in 1 .. Len(st[x]) : Storable(f, g, st[x][i])
             /\ H[1][x] = Len(st[x])
  <2> DEFINE e == st[x]
  <2>1. e = << >>
    OBVIOUS
  <2>2. Len(e) = 0 /\ 1 .. 0 = {}
    BY <2>1
  <2>3. e = [i \in 1 .. Len(e) |-> e[i]]
    <3>1. \A F : [i \in {} |-> F[i]] = << >>
      OBVIOUS
    <3> HIDE DEF e
    <3>2. QED
      BY <2>1, <2>2, <3>1
  <2> HIDE DEF e
  <2>4. QED
    BY <1>1, <2>2, <2>3 DEF e
<1>4. ASSUME NEW x \in Locals(f)
      PROVE  /\ H[0][x] = 0 /\ \A k \in 0 .. 1 : H[k][x] \in Nat
             /\ \A j, k \in 0 .. 1 : j <= k => H[j][x] <= H[k][x]
  BY <1>1
<1>5. ASSUME NEW x \in Locals(f), NEW k \in 1 .. 1
      PROVE  /\ H[k][x] = H[k - 1][x] + Count(w[k].pushed, x)
             /\ HeldAt(st[x], H[k][x]) = cur[w[k].block][w[k].index][x]
  <2>1. H[1][x] = 0 /\ H[0][x] = 0
    BY <1>1
  <2>2. Count(w[1].pushed, x) = 0
    BY CountNothing
  <2>3. k = 1 /\ k - 1 = 0
    BY <1>2
  <2>4. H[k][x] = H[k - 1][x] + Count(w[k].pushed, x)
    BY <2>1, <2>2, <2>3
  <2>5. HeldAt(st[x], H[k][x]) = Zero
    BY <2>1, <2>3 DEF HeldAt
  <2>6. QED
    BY <2>3, <2>4, <2>5
<1>6. DOMAIN st = Locals(f)
  OBVIOUS
<1> DEFINE n == Len(w)
<1>7. n = 1
  OBVIOUS
<1> HIDE DEF n
<1>8. Stacked(f, g, cur, w, st, H)
  <2>1. \A x \in Locals(f) :
       /\ Len(st[x]) \in Nat /\ st[x] = [i \in 1 .. Len(st[x]) |-> st[x][i]]
       /\ \A i \in 1 .. Len(st[x]) : Storable(f, g, st[x][i])
       /\ H[0][x] = 0 /\ H[n][x] = Len(st[x])
       /\ \A k \in 0 .. n : H[k][x] \in Nat
       /\ \A j, k \in 0 .. n : j <= k => H[j][x] <= H[k][x]
       /\ \A k \in 1 .. n :
            /\ H[k][x] = H[k - 1][x] + Count(w[k].pushed, x)
            /\ HeldAt(st[x], H[k][x]) = cur[w[k].block][w[k].index][x]
    BY <1>3, <1>4, <1>5, <1>7
  <2>2. QED
    BY <1>6, <2>1 DEF Stacked, n
<1>9. QED
  BY <1>8

\* A call for a child begins with the stacks as they are.
LEMMA StackDown ==
  ASSUME NEW f, NEW g, NEW cur, NEW w, Frames(w), NEW st, NEW H,
         Len(w) # 0,
         Stacked(f, g, cur, w, st, H),
         NEW e, Framed(e), e.pushed = << >>,
         \A y \in Locals(f) : cur[e.block][e.index][y] = cur[w[Len(w)].block][w[Len(w)].index][y]
  PROVE  \E H2 : Stacked(f, g, cur, Append(w, e), st, H2)
<1> DEFINE n == Len(w)
           v == Append(w, e)
           H2 == [k \in 0 .. n + 1 |-> IF k = n + 1 THEN H[n] ELSE H[k]]
<1>1. n \in Nat /\ w = [k \in 1 .. n |-> w[k]]
  BY DEF Frames
<1>2. /\ DOMAIN st = Locals(f)
      /\ \A x \in Locals(f) :
           /\ Len(st[x]) \in Nat /\ st[x] = [i \in 1 .. Len(st[x]) |-> st[x][i]]
           /\ \A i \in 1 .. Len(st[x]) : Storable(f, g, st[x][i])
           /\ H[0][x] = 0 /\ H[n][x] = Len(st[x])
           /\ \A k \in 0 .. n : H[k][x] \in Nat
           /\ \A j, k \in 0 .. n : j <= k => H[j][x] <= H[k][x]
  BY DEF Stacked
<1>3. \A x \in Locals(f) : \A k \in 1 .. n :
        /\ H[k][x] = H[k - 1][x] + Count(w[k].pushed, x)
        /\ HeldAt(st[x], H[k][x]) = cur[w[k].block][w[k].index][x]
  BY DEF Stacked
<1>4. \A k \in 0 .. n + 1 : H2[k] = IF k = n + 1 THEN H[n] ELSE H[k]
  OBVIOUS
<1>5. \A y \in Locals(f) : cur[e.block][e.index][y] = cur[w[n].block][w[n].index][y]
  OBVIOUS
<1>z. n # 0
  OBVIOUS
<1> HIDE DEF n, v, H2
<1>6. Len(v) = n + 1 /\ v = [k \in 1 .. n + 1 |-> IF k = n + 1 THEN e ELSE w[k]]
  BY <1>1, AppendIs DEF v
<1>7. /\ \A k \in 0 .. n : k \in 0 .. n + 1 /\ k # n + 1 /\ H2[k] = H[k]
      /\ n + 1 \in 0 .. n + 1 /\ n + 1 \in 1 .. n + 1 /\ H2[n + 1] = H[n] /\ n \in 0 .. n /\ 0 \in 0 .. n
      /\ \A k \in 1 .. n : k \in 1 .. n + 1 /\ v[k] = w[k] /\ k \in 0 .. n /\ k - 1 \in 0 .. n
      /\ v[n + 1] = e
      /\ \A k \in 0 .. n + 1 : k = n + 1 \/ k \in 0 .. n
      /\ \A k \in 1 .. n + 1 : k = n + 1 \/ k \in 1 .. n
      /\ n \in 1 .. n /\ (n + 1) - 1 = n
  <2>1. /\ \A k \in 0 .. n : k \in 0 .. n + 1 /\ k # n + 1
        /\ n + 1 \in 0 .. n + 1 /\ n + 1 \in 1 .. n + 1 /\ n \in 0 .. n /\ 0 \in 0 .. n
        /\ \A k \in 1 .. n : k \in 1 .. n + 1 /\ k \in 0 .. n /\ k - 1 \in 0 .. n /\ k # n + 1
    BY <1>1
  <2>2. /\ \A k \in 0 .. n + 1 : k = n + 1 \/ k \in 0 .. n
        /\ \A k \in 1 .. n + 1 : k = n + 1 \/ k \in 1 .. n
        /\ n \in 1 .. n /\ (n + 1) - 1 = n
    BY <1>1, <1>z
  <2>3. QED
    BY <1>4, <1>6, <2>1, <2>2
<1>8. ASSUME NEW x \in Locals(f)
      PROVE  /\ H2[0][x] = 0 /\ H2[n + 1][x] = Len(st[x])
             /\ \A k \in 0 .. n + 1 : H2[k][x] \in Nat
             /\ \A j, k \in 0 .. n + 1 : j <= k => H2[j][x] <= H2[k][x]
  <2>1. H2[0][x] = 0 /\ H2[n + 1][x] = Len(st[x])
    BY <1>2, <1>7
  <2>2. \A k \in 0 .. n + 1 : H2[k][x] \in Nat
    <3>1. \A k \in 0 .. n : H[k][x] \in Nat
      BY <1>2
    <3>2. SUFFICES ASSUME NEW k \in 0 .. n + 1 PROVE H2[k][x] \in Nat
      OBVIOUS
    <3>3. CASE k = n + 1
      BY <1>7, <3>1, <3>3, Zenon
    <3>4. CASE k \in 0 .. n
      BY <1>7, <3>1, <3>4, Zenon
    <3>5. QED
      BY <1>7, <3>3, <3>4
  <2>3. ASSUME NEW j \in 0 .. n + 1, NEW k \in 0 .. n + 1, j <= k PROVE H2[j][x] <= H2[k][x]
    <3>1. CASE k = n + 1 /\ j = n + 1
      BY <2>2, <3>1
    <3>2. CASE k = n + 1 /\ j \in 0 .. n
      <4>1. j <= n
        BY <1>1, <3>2
      <4>2. H2[j][x] = H[j][x] /\ H2[k][x] = H[n][x] /\ H[j][x] <= H[n][x]
        BY <1>2, <1>7, <3>2, <4>1
      <4>3. QED
        BY <4>2
    <3>3. CASE k \in 0 .. n
      <4>1. j \in 0 .. n
        BY <1>1, <2>3, <3>3
      <4>2. QED
        BY <1>2, <1>7, <2>3, <3>3, <4>1
    <3>4. QED
      BY <1>7, <3>1, <3>2, <3>3
  <2>4. QED
    BY <2>1, <2>2, <2>3
<1>9. ASSUME NEW x \in Locals(f), NEW k \in 1 .. n + 1
      PROVE  /\ H2[k][x] = H2[k - 1][x] + Count(v[k].pushed, x)
             /\ HeldAt(st[x], H2[k][x]) = cur[v[k].block][v[k].index][x]
  <2>1. CASE k = n + 1
    <3>1. H2[k] = H[n] /\ H2[k - 1] = H[n] /\ v[k] = e
      BY <1>7, <2>1
    <3>2. Count(v[k].pushed, x) = 0
      BY <3>1, CountNothing
    <3>3. H[n][x] \in Nat
      BY <1>2, <1>7
    <3>4. H2[k][x] = H2[k - 1][x] + Count(v[k].pushed, x)
      BY <3>1, <3>2, <3>3
    <3>5. HeldAt(st[x], H[n][x]) = cur[w[n].block][w[n].index][x]
      BY <1>3, <1>7
    <3>6. cur[w[n].block][w[n].index][x] = cur[e.block][e.index][x]
      BY <1>5
    <3>7. HeldAt(st[x], H2[k][x]) = cur[v[k].block][v[k].index][x]
      BY <3>1, <3>5, <3>6
    <3>8. QED
      BY <3>4, <3>7
  <2>2. CASE k \in 1 .. n
    <3>1. H2[k] = H[k] /\ H2[k - 1] = H[k - 1] /\ v[k] = w[k]
      BY <1>7, <2>2
    <3>2. /\ H[k][x] = H[k - 1][x] + Count(w[k].pushed, x)
          /\ HeldAt(st[x], H[k][x]) = cur[w[k].block][w[k].index][x]
      BY <1>3, <2>2
    <3>3. QED
      BY <3>1, <3>2
  <2>3. QED
    BY <1>7, <2>1, <2>2
<1>10. Stacked(f, g, cur, v, st, H2)
  BY <1>2, <1>6, <1>8, <1>9 DEF Stacked
<1>11. QED
  BY <1>10 DEF v

\* The stacks with what p lists taken off again.
Popped(st, p) ==
  [x \in DOMAIN st |-> LET pushed == {i \in DOMAIN p : p[i] = x}
                       IN  SubSeq(st[x], 1, Len(st[x]) - Cardinality(pushed))]

\* The call of a block returns, and what it pushed is popped.
LEMMA StackPopped ==
  ASSUME NEW f, NEW g, NEW cur, NEW w, Frames(w), Len(w) # 0, NEW st, NEW H,
         Stacked(f, g, cur, w, st, H),
         NEW v, Shorter(v, w)
  PROVE  Stacked(f, g, cur, v, Popped(st, w[Len(w)].pushed), H)
<1> DEFINE n == Len(w)
           p == w[n].pushed
           st2 == Popped(st, p)
<1>1. n \in Nat /\ n # 0 /\ Len(v) = n - 1 /\ \A k \in 1 .. n - 1 : v[k] = w[k]
  BY DEF Frames, Shorter
<1>2. /\ DOMAIN st = Locals(f)
      /\ \A x \in Locals(f) :
           /\ Len(st[x]) \in Nat /\ st[x] = [i \in 1 .. Len(st[x]) |-> st[x][i]]
           /\ \A i \in 1 .. Len(st[x]) : Storable(f, g, st[x][i])
           /\ H[0][x] = 0 /\ H[n][x] = Len(st[x])
           /\ \A k \in 0 .. n : H[k][x] \in Nat
           /\ \A j, k \in 0 .. n : j <= k => H[j][x] <= H[k][x]
  BY DEF Stacked
<1>3. \A x \in Locals(f) : \A k \in 1 .. n :
        /\ H[k][x] = H[k - 1][x] + Count(w[k].pushed, x)
        /\ HeldAt(st[x], H[k][x]) = cur[w[k].block][w[k].index][x]
  BY DEF Stacked
<1>4. \A x \in Locals(f) : st2[x] = SubSeq(st[x], 1, Len(st[x]) - Count(p, x))
  BY <1>2 DEF Count, Popped
<1>5. DOMAIN st2 = Locals(f)
  BY <1>2 DEF Popped
<1>6. \A k \in 1 .. n : Framed(w[k])
  BY DEF Frames
<1>7. p = w[n].pushed
  OBVIOUS
<1> HIDE DEF n, p, st2
<1>8. /\ n \in 1 .. n /\ n - 1 \in 0 .. n /\ n \in 0 .. n /\ n - 1 <= n /\ n - 1 \in Nat
      /\ \A k \in 0 .. n - 1 : k \in 0 .. n /\ k <= n - 1
      /\ \A k \in 1 .. n - 1 : k \in 1 .. n /\ k \in 0 .. n - 1
  BY <1>1
<1>9. ASSUME NEW x \in Locals(f)
      PROVE  /\ Len(st2[x]) \in Nat /\ st2[x] = [i \in 1 .. Len(st2[x]) |-> st2[x][i]]
             /\ \A i \in 1 .. Len(st2[x]) : Storable(f, g, st2[x][i])
             /\ H[n - 1][x] = Len(st2[x])
             /\ \A k \in 1 .. n - 1 : HeldAt(st2[x], H[k][x]) = HeldAt(st[x], H[k][x])
  <2> DEFINE m == H[n - 1][x]
             s == st[x]
             t == st2[x]
  <2>1. H[n][x] = m + Count(p, x) /\ H[n][x] = Len(s) /\ m \in Nat
    BY <1>2, <1>3, <1>7, <1>8
  <2>2. Count(p, x) \in Nat
    <3>1. Len(p) \in Nat /\ p = [i \in 1 .. Len(p) |-> p[i]]
      BY <1>6, <1>7, <1>8 DEF Framed
    <3>2. QED
      BY <3>1, CountIs
  <2>3. t = SubSeq(s, 1, Len(s) - Count(p, x))
    BY <1>4
  <2>4. \A k \in 1 .. n - 1 : H[k][x] \in Nat /\ H[k][x] <= m
    BY <1>2, <1>8
  <2>5. /\ Len(s) \in Nat /\ s = [i \in 1 .. Len(s) |-> s[i]] /\ \A i \in 1 .. Len(s) : Storable(f, g, s[i])
    BY <1>2
  <2>m. m = H[n - 1][x]
    OBVIOUS
  <2> HIDE DEF m, s, t
  <2>6. Len(s) - Count(p, x) = m /\ m <= Len(s)
    BY <2>1, <2>2, <2>5
  <2>7. t = SubSeq(s, 1, m)
    BY <2>3, <2>6
  <2>8. Len(t) = m /\ t = [i \in 1 .. m |-> s[i]]
    BY <2>1, <2>5, <2>6, <2>7
  <2>9. \A i \in 1 .. m : t[i] = s[i] /\ i \in 1 .. Len(s)
    BY <2>1, <2>5, <2>6, <2>8
  <2>10. /\ Len(t) \in Nat /\ t = [i \in 1 .. Len(t) |-> t[i]]
         /\ \A i \in 1 .. Len(t) : Storable(f, g, t[i])
         /\ m = Len(t)
    BY <2>1, <2>5, <2>8, <2>9
  <2>11. \A k \in 1 .. n - 1 : HeldAt(t, H[k][x]) = HeldAt(s, H[k][x])
    <3>1. \A k \in 1 .. n - 1 : H[k][x] # 0 => H[k][x] \in 1 .. m
      BY <2>1, <2>4
    <3>2. QED
      BY <2>9, <3>1 DEF HeldAt
  <2>12. QED
    BY <2>10, <2>11, <2>m DEF s, t
<1>10. ASSUME NEW x \in Locals(f)
       PROVE  /\ H[0][x] = 0
              /\ \A k \in 0 .. n - 1 : H[k][x] \in Nat
              /\ \A j, k \in 0 .. n - 1 : j <= k => H[j][x] <= H[k][x]
  BY <1>2, <1>8
<1>11. ASSUME NEW x \in Locals(f), NEW k \in 1 .. n - 1
       PROVE  /\ H[k][x] = H[k - 1][x] + Count(v[k].pushed, x)
              /\ HeldAt(st2[x], H[k][x]) = cur[v[k].block][v[k].index][x]
  <2>1. v[k] = w[k] /\ k \in 1 .. n
    BY <1>1, <1>8
  <2>2. /\ H[k][x] = H[k - 1][x] + Count(w[k].pushed, x)
        /\ HeldAt(st[x], H[k][x]) = cur[w[k].block][w[k].index][x]
    BY <1>3, <2>1
  <2>3. HeldAt(st2[x], H[k][x]) = HeldAt(st[x], H[k][x])
    BY <1>9
  <2>4. QED
    BY <2>1, <2>2, <2>3
<1>12. Stacked(f, g, cur, v, st2, H)
  BY <1>1, <1>5, <1>9, <1>10, <1>11 DEF Stacked
<1>13. QED
  BY <1>12 DEF st2, p, n

\* Everything that the renaming finds.
Prepared(f, d, ch, fr, g) ==
  /\ f \in Functions
  /\ DomTree(f, d) /\ ChildrenListed(f, d, ch) /\ FrontiersListed(f, fr)
  /\ Layout(f, g)
  /\ \A x \in Locals(f) : ClosedBut(f, g, fr, x, {})

\* Everything that is to be shown of the renaming.
RenamedSoFar(f, d, ch, g, sig, prog, cur, F, w, st, H) ==
  /\ Solved(f, d, g, sig, prog, cur)
  /\ Rewritten(f, g, sig, prog, cur, F)
  /\ Frames(w) /\ Walking(f, d, ch, g, prog, w)
  /\ Stacked(f, g, cur, w, st, H)

\* It holds when the entry is called.
LEMMA RenamingStarts ==
  ASSUME NEW f, NEW d, NEW ch, NEW fr, NEW g, Prepared(f, d, ch, fr, g)
  PROVE  \E sig, prog, cur, H :
           RenamedSoFar(f, d, ch, g, sig, prog, cur, g, <<Call(Entry)>>, [x \in Locals(f) |-> << >>], H)
<1> DEFINE w == <<Call(Entry)>>
           st == [x \in Locals(f) |-> << >>]
           sig == [v \in Names(f, g) |-> v]
           prog == [b \in Blocks(f) |-> IF b = Entry THEN 1 ELSE 0]
           cur == [b \in Blocks(f) |-> [p \in Nat |-> [x \in Locals(f) |-> Zero]]]
<1>1. f \in Functions /\ DomTree(f, d) /\ ChildrenListed(f, d, ch) /\ Layout(f, g) /\ Entry \in Blocks(f)
  BY DEF Prepared, DomTree
<1>2. Base(f, g)
  BY <1>1, LayoutIsBase
<1>3. Solved(f, d, g, sig, prog, cur)
  BY <1>1, <1>2, SolvingStarts
<1>4. Frames(w) /\ Walking(f, d, ch, g, prog, w)
  BY <1>1, WalkStarts
<1>5. Len(w) = 1 /\ w[1] = Call(Entry)
  OBVIOUS
<1>6. w[1].block = Entry /\ w[1].index = 1 /\ w[1].pushed = << >>
  BY <1>5 DEF Call
<1>7. \A x \in Locals(f) : cur[Entry][1][x] = Zero
  BY <1>1
<1>8. \A b \in Blocks(f) : prog[b] \in {0, 1}
  OBVIOUS
<1>9. sig = [v \in Names(f, g) |-> v] /\ st = [x \in Locals(f) |-> << >>]
  OBVIOUS
<1> HIDE DEF w, st, sig, prog, cur
<1>10. Rewritten(f, g, sig, prog, cur, g)
  BY <1>1, <1>8, <1>9, RewritingStarts
<1>11. \A x \in Locals(f) : cur[w[1].block][w[1].index][x] = Zero
  BY <1>6, <1>7
<1>12. PICK H : Stacked(f, g, cur, w, st, H)
  BY <1>5, <1>6, <1>9, <1>11, StackStarts
<1>13. RenamedSoFar(f, d, ch, g, sig, prog, cur, g, w, st, H)
  BY <1>3, <1>4, <1>10, <1>12 DEF RenamedSoFar
<1>14. QED
  BY <1>13 DEF w, st

\* Where the newest call is.
LEMMA WalkIsAt ==
  ASSUME NEW f, NEW d, NEW ch, NEW g, NEW sig, NEW prog, NEW cur, NEW F, NEW w, NEW st, NEW H,
         RenamedSoFar(f, d, ch, g, sig, prog, cur, F, w, st, H), Len(w) # 0,
         NEW h, h = w[Len(w)].block
  PROVE  /\ h \in Blocks(f) /\ w[Len(w)].index = prog[h] /\ prog[h] # 0 /\ prog[h] \in Nat
         /\ prog[h] <= End(g, h) /\ prog \in [Blocks(f) -> Nat]
         /\ prog[h] # End(g, h) => w[Len(w)].child = 1
         /\ \A k \in 1 .. Len(w) - 1 : w[k].block # h /\ w[k].index # 0 /\ w[k].block \in Blocks(f)
         /\ \A k \in 1 .. Len(w) : w[k].block \in Blocks(f) /\ prog[w[k].block] # 0
                                   /\ w[k].index = prog[w[k].block]
<1> DEFINE n == Len(w)
<1>1. n \in Nat /\ n # 0
  BY DEF RenamedSoFar, Frames
<1>2. /\ \A k \in 1 .. n :
       /\ w[k].block \in Blocks(f) /\ w[k].index = prog[w[k].block] /\ w[k].index # 0
       /\ w[k].child # 1 => w[k].index = End(g, w[k].block)
  BY DEF RenamedSoFar, Walking
<1>3. \A j, k \in 1 .. n : w[j].block = w[k].block => j = k
  BY DEF RenamedSoFar, Walking
<1>4. h = w[n].block
  OBVIOUS
<1> HIDE DEF n
<1>5. n \in 1 .. n /\ \A k \in 1 .. n - 1 : k \in 1 .. n /\ k # n
  BY <1>1
<1>6. prog \in [Blocks(f) -> Nat] /\ \A b \in Blocks(f) : prog[b] <= End(g, b)
  BY DEF RenamedSoFar, Solved, Progressing
<1>7. h \in Blocks(f) /\ w[n].index = prog[h] /\ prog[h] # 0 /\ (w[n].child # 1 => prog[h] = End(g, h))
  BY <1>2, <1>4, <1>5
<1>8. \A k \in 1 .. n - 1 : w[k].block # h /\ w[k].index # 0 /\ w[k].block \in Blocks(f)
  BY <1>2, <1>3, <1>4, <1>5
<1>9. \A k \in 1 .. n : w[k].block \in Blocks(f) /\ prog[w[k].block] # 0
                                   /\ w[k].index = prog[w[k].block]
  BY <1>2
<1>10. QED
  BY <1>6, <1>7, <1>8, <1>9 DEF n

\* What NextCur is, place by place.
LEMMA NextCurIs ==
  ASSUME NEW f, NEW d, NEW g, NEW sig, NEW prog, NEW cur, NEW h \in Blocks(f)
  PROVE  \A b \in Blocks(f) : \A p \in Nat :
           NextCur(f, d, g, sig, prog, cur, h)[b][p]
             = IF b = h /\ p = prog[h] + 1 THEN Onward(f, d, g, sig, prog, cur, h) ELSE cur[b][p]
BY DEF NextCur

\* The place the walk moves to.
LEMMA NextCurHere ==
  ASSUME NEW f, NEW d, NEW g, NEW sig, NEW prog, NEW cur, NEW h \in Blocks(f),
         NEW p \in Nat, p = prog[h] + 1
  PROVE  NextCur(f, d, g, sig, prog, cur, h)[h][p] = Onward(f, d, g, sig, prog, cur, h)
BY Zenon DEF NextCur

\* The next place of h, named by the place it follows.
LEMMA NextCurOn ==
  ASSUME NEW f, NEW d, NEW g, NEW sig, NEW prog, NEW cur, NEW h, h \in Blocks(f), prog[h] \in Nat
  PROVE  NextCur(f, d, g, sig, prog, cur, h)[h][prog[h] + 1] = Onward(f, d, g, sig, prog, cur, h)
<1>1. prog[h] + 1 \in Nat
  OBVIOUS
<1>2. QED
  BY <1>1 DEF NextCur

\* Every other place keeps what it had.
LEMMA NextCurElsewhere ==
  ASSUME NEW f, NEW d, NEW g, NEW sig, NEW prog, NEW cur, NEW h \in Blocks(f),
         NEW b \in Blocks(f), NEW p \in Nat, b # h \/ p # prog[h] + 1
  PROVE  NextCur(f, d, g, sig, prog, cur, h)[b][p] = cur[b][p]
BY Zenon DEF NextCur

\* The calls that wait for the newest one stay where they are.
LEMMA OthersUnmoved ==
  ASSUME NEW f, NEW d, NEW ch, NEW g, NEW sig, NEW prog, NEW cur, NEW F, NEW w, NEW st, NEW H,
         RenamedSoFar(f, d, ch, g, sig, prog, cur, F, w, st, H), Len(w) # 0,
         NEW h, h = w[Len(w)].block
  PROVE  Unmoved(f, cur, NextCur(f, d, g, sig, prog, cur, h), w, Len(w) - 1)
<1>1. /\ h \in Blocks(f) /\ prog \in [Blocks(f) -> Nat]
      /\ \A k \in 1 .. Len(w) - 1 : w[k].block # h
      /\ \A k \in 1 .. Len(w) : w[k].block \in Blocks(f) /\ w[k].index = prog[w[k].block]
  BY WalkIsAt
<1>2. Len(w) \in Nat
  BY DEF RenamedSoFar, Frames
<1> DEFINE n == Len(w)
           cur2 == NextCur(f, d, g, sig, prog, cur, h)
<1>3. \A b \in Blocks(f) : \A p \in Nat : b # h => cur2[b][p] = cur[b][p]
  BY <1>1, NextCurElsewhere
<1> HIDE DEF cur2
<1>4. ASSUME NEW k \in 1 .. n - 1 PROVE cur2[w[k].block][w[k].index] = cur[w[k].block][w[k].index]
  <2>1. k \in 1 .. n
    BY <1>2
  <2>2. w[k].block \in Blocks(f) /\ w[k].index \in Nat /\ w[k].block # h
    BY <1>1, <1>4, <2>1
  <2>3. QED
    BY <1>3, <2>2
<1>5. \A k \in 1 .. n - 1 : \A y \in Locals(f) :
        cur2[w[k].block][w[k].index][y] = cur[w[k].block][w[k].index][y]
  BY <1>4
<1>6. QED
  BY <1>5 DEF Unmoved, cur2

\* A step of the newest call, as far as it has been worked out.
LEMMA RenamingOn ==
  ASSUME NEW f, NEW d, NEW ch, NEW fr, NEW g, Prepared(f, d, ch, fr, g),
         NEW sig, NEW prog, NEW cur, NEW F, NEW w, NEW st, NEW H,
         RenamedSoFar(f, d, ch, g, sig, prog, cur, F, w, st, H), Len(w) # 0,
         NEW h, h = w[Len(w)].block, prog[h] # End(g, h),
         NEW c, Framed(c), c.block = h, c.index = prog[h] + 1, c.child = w[Len(w)].child,
         NEW F2, Rewritten(f, g, NextSig(f, g, sig, prog, cur, h), NextProg(prog, h),
                           NextCur(f, d, g, sig, prog, cur, h), F2),
         NEW st2, NEW H2, Stacked(f, g, NextCur(f, d, g, sig, prog, cur, h), Onto(w, c), st2, H2)
  PROVE  RenamedSoFar(f, d, ch, g, NextSig(f, g, sig, prog, cur, h), NextProg(prog, h),
                      NextCur(f, d, g, sig, prog, cur, h), F2, Onto(w, c), st2, H2)
<1>1. h \in Blocks(f) /\ prog[h] # 0 /\ prog \in [Blocks(f) -> Nat]
  BY WalkIsAt
<1>2. f \in Functions /\ DomTree(f, d) /\ ChildrenListed(f, d, ch) /\ Layout(f, g)
  BY DEF Prepared
<1>3. Base(f, g)
  BY <1>2, LayoutIsBase
<1>4. MayGoOn(d, g, prog, h)
  BY <1>1 DEF MayGoOn
<1>5. Solved(f, d, g, sig, prog, cur) /\ Frames(w) /\ Walking(f, d, ch, g, prog, w)
  BY DEF RenamedSoFar
<1>6. Solved(f, d, g, NextSig(f, g, sig, prog, cur, h), NextProg(prog, h),
             NextCur(f, d, g, sig, prog, cur, h))
  BY <1>1, <1>2, <1>3, <1>4, <1>5, SolvedFurther
<1>7. Walking(f, d, ch, g, NextProg(prog, h), Onto(w, c))
  BY <1>1, <1>2, <1>5, WalkOn
<1>8. Frames(Onto(w, c))
  BY <1>5, OntoIs
<1>9. QED
  BY <1>6, <1>7, <1>8 DEF RenamedSoFar

\* An instruction that is neither a load nor a definition of a variable.
LEMMA RenamingKeeps ==
  ASSUME NEW f, NEW d, NEW ch, NEW fr, NEW g, Prepared(f, d, ch, fr, g),
         NEW sig, NEW prog, NEW cur, NEW F, NEW w, NEW st, NEW H,
         RenamedSoFar(f, d, ch, g, sig, prog, cur, F, w, st, H), Len(w) # 0,
         NEW h, h = w[Len(w)].block, prog[h] \in DOMAIN g.blocks[h],
         ~IsNew(f, g.blocks[h][prog[h]]), g.blocks[h][prog[h]].op \notin {"load", "set"},
         NEW c, Framed(c), c.block = h, c.index = prog[h] + 1, c.child = w[Len(w)].child,
         c.pushed = w[Len(w)].pushed
  PROVE  RenamedSoFar(f, d, ch, g, NextSig(f, g, sig, prog, cur, h), NextProg(prog, h),
                      NextCur(f, d, g, sig, prog, cur, h), F, Onto(w, c), st, H)
<1> DEFINE cur2 == NextCur(f, d, g, sig, prog, cur, h)
           inst == g.blocks[h][prog[h]]
<1>1. /\ h \in Blocks(f) /\ prog[h] # 0 /\ prog[h] \in Nat /\ w[Len(w)].index = prog[h]
  BY WalkIsAt
<1>2. f \in Functions /\ Layout(f, g) /\ Base(f, g)
  BY LayoutIsBase DEF Prepared
<1>3. Solved(f, d, g, sig, prog, cur) /\ Frames(w) /\ Rewritten(f, g, sig, prog, cur, F)
      /\ Stacked(f, g, cur, w, st, H)
  BY DEF RenamedSoFar
<1>4. Len(g.blocks[h]) \in Nat /\ prog[h] \in 1 .. Len(g.blocks[h])
  BY <1>1, <1>2 DEF Base
<1>5. prog[h] # End(g, h) /\ prog[h] # Len(g.blocks[h]) + 1
  BY <1>4 DEF End
<1>6. ~AtLoad(g, prog, h)
  BY DEF AtLoad
<1>7. Rewritten(f, g, NextSig(f, g, sig, prog, cur, h), NextProg(prog, h), cur2, F)
  BY <1>1, <1>2, <1>3, <1>5, <1>6, RewrittenStill
<1>8. \A y \in Locals(f) : cur2[h][prog[h] + 1][y] = cur[h][prog[h]][y]
  <2>1. prog[h] + 1 \in Nat
    BY <1>1
  <2>2. cur2[h][prog[h] + 1] = Onward(f, d, g, sig, prog, cur, h)
    <3>1. h \in Blocks(f) /\ prog[h] \in Nat
      BY <1>1
    <3>2. NextCur(f, d, g, sig, prog, cur, h)[h][prog[h] + 1] = Onward(f, d, g, sig, prog, cur, h)
      BY <3>1, NextCurOn
    <3>3. QED
      BY <3>2
  <2>3. \A y \in Locals(f) : Onward(f, d, g, sig, prog, cur, h)[y] = Given(f, inst, sig, cur[h][prog[h]], y)
    BY <1>1 DEF Onward
  <2>4. \A y \in Locals(f) : Given(f, inst, sig, cur[h][prog[h]], y) = cur[h][prog[h]][y]
    BY DEF Given
  <2>5. QED
    BY <2>2, <2>3, <2>4
<1>9. Unmoved(f, cur, cur2, w, Len(w) - 1)
  BY OthersUnmoved
<1>10. \A y \in Locals(f) : cur2[c.block][c.index][y] = cur[w[Len(w)].block][w[Len(w)].index][y]
  BY <1>1, <1>8
<1>11. Stacked(f, g, cur2, Onto(w, c), st, H)
  BY <1>3, <1>9, <1>10, StackStays
<1> HIDE DEF inst
<1>12. QED
  BY <1>5, <1>7, <1>11, RenamingOn

\* A load: its uses become uses of what is on top of the variable's stack.
LEMMA RenamingLoads ==
  ASSUME NEW f, NEW d, NEW ch, NEW fr, NEW g, Prepared(f, d, ch, fr, g),
         NEW sig, NEW prog, NEW cur, NEW F, NEW w, NEW st, NEW H,
         RenamedSoFar(f, d, ch, g, sig, prog, cur, F, w, st, H), Len(w) # 0,
         NEW h, h = w[Len(w)].block, prog[h] \in DOMAIN g.blocks[h],
         g.blocks[h][prog[h]].op = "load",
         NEW c, Framed(c), c.block = h, c.index = prog[h] + 1, c.child = w[Len(w)].child,
         c.pushed = w[Len(w)].pushed
  PROVE  RenamedSoFar(f, d, ch, g, NextSig(f, g, sig, prog, cur, h), NextProg(prog, h),
                      NextCur(f, d, g, sig, prog, cur, h),
                      Swapped(F, g.blocks[h][prog[h]].res,
                              cur[h][prog[h]][g.blocks[h][prog[h]].args[1]]),
                      Onto(w, c), st, H)
<1> DEFINE cur2 == NextCur(f, d, g, sig, prog, cur, h)
           inst == g.blocks[h][prog[h]]
           F2 == Swapped(F, inst.res, cur[h][prog[h]][inst.args[1]])
<1>1. /\ h \in Blocks(f) /\ prog[h] # 0 /\ prog[h] \in Nat /\ w[Len(w)].index = prog[h]
  BY WalkIsAt
<1>2. f \in Functions /\ Layout(f, g) /\ Base(f, g)
  BY LayoutIsBase DEF Prepared
<1>3. Solved(f, d, g, sig, prog, cur) /\ Frames(w) /\ Rewritten(f, g, sig, prog, cur, F)
      /\ Stacked(f, g, cur, w, st, H)
  BY DEF RenamedSoFar
<1>4. Len(g.blocks[h]) \in Nat /\ prog[h] \in 1 .. Len(g.blocks[h])
  BY <1>1, <1>2 DEF Base
<1>5. prog[h] # End(g, h)
  BY <1>4 DEF End
<1>6. AtLoad(g, prog, h)
  BY DEF AtLoad
<1>7. Rewritten(f, g, NextSig(f, g, sig, prog, cur, h), NextProg(prog, h), cur2, F2)
  BY <1>1, <1>2, <1>3, <1>6, RewrittenLoad
<1>8. \A y \in Locals(f) : cur2[h][prog[h] + 1][y] = cur[h][prog[h]][y]
  <2>1. prog[h] + 1 \in Nat
    BY <1>1
  <2>2. cur2[h][prog[h] + 1] = Onward(f, d, g, sig, prog, cur, h)
    <3>1. h \in Blocks(f) /\ prog[h] \in Nat
      BY <1>1
    <3>2. NextCur(f, d, g, sig, prog, cur, h)[h][prog[h] + 1] = Onward(f, d, g, sig, prog, cur, h)
      BY <3>1, NextCurOn
    <3>3. QED
      BY <3>2
  <2>3. \A y \in Locals(f) : Onward(f, d, g, sig, prog, cur, h)[y] = Given(f, inst, sig, cur[h][prog[h]], y)
    BY <1>1 DEF Onward
  <2>4. \A y \in Locals(f) : Given(f, inst, sig, cur[h][prog[h]], y) = cur[h][prog[h]][y]
    BY DEF Given, IsNew
  <2>5. QED
    BY <2>2, <2>3, <2>4
<1>9. Unmoved(f, cur, cur2, w, Len(w) - 1)
  BY OthersUnmoved
<1>10. \A y \in Locals(f) : cur2[c.block][c.index][y] = cur[w[Len(w)].block][w[Len(w)].index][y]
  BY <1>1, <1>8
<1>11. Stacked(f, g, cur2, Onto(w, c), st, H)
  BY <1>3, <1>9, <1>10, StackStays
<1> HIDE DEF F2
<1>12. RenamedSoFar(f, d, ch, g, NextSig(f, g, sig, prog, cur, h), NextProg(prog, h), cur2,
                    F2, Onto(w, c), st, H)
  BY <1>5, <1>7, <1>11, RenamingOn
<1>13. QED
  BY <1>12 DEF F2

\* An instruction that gives the variable x a value.
Defines(f, inst, sig, x, v) ==
  \/ IsNew(f, inst) /\ x = inst.res[2] /\ v = inst.res
  \/ inst.op = "set" /\ x = inst.args[1] /\ v = sig[inst.args[2]]

\* A phi or a store pushes what the variable has behind it.
LEMMA RenamingDefines ==
  ASSUME NEW f, NEW d, NEW ch, NEW fr, NEW g, Prepared(f, d, ch, fr, g),
         NEW sig, NEW prog, NEW cur, NEW F, NEW w, NEW st, NEW H,
         RenamedSoFar(f, d, ch, g, sig, prog, cur, F, w, st, H), Len(w) # 0,
         NEW h, h = w[Len(w)].block, prog[h] \in DOMAIN g.blocks[h],
         NEW x, NEW v, Defines(f, g.blocks[h][prog[h]], sig, x, v),
         NEW c, Framed(c), c.block = h, c.index = prog[h] + 1, c.child = w[Len(w)].child,
         c.pushed = Append(w[Len(w)].pushed, x)
  PROVE  /\ x \in Locals(f)
         /\ \E H2 : RenamedSoFar(f, d, ch, g, NextSig(f, g, sig, prog, cur, h), NextProg(prog, h),
                                 NextCur(f, d, g, sig, prog, cur, h), F, Onto(w, c),
                                 [st EXCEPT ![x] = Append(@, v)], H2)
<1> DEFINE cur2 == NextCur(f, d, g, sig, prog, cur, h)
           sig2 == NextSig(f, g, sig, prog, cur, h)
           prog2 == NextProg(prog, h)
           inst == g.blocks[h][prog[h]]
<1>1. /\ h \in Blocks(f) /\ prog[h] # 0 /\ prog[h] \in Nat /\ w[Len(w)].index = prog[h]
      /\ prog \in [Blocks(f) -> Nat]
  BY WalkIsAt
<1>2. f \in Functions /\ Layout(f, g) /\ Base(f, g) /\ DomTree(f, d)
  BY LayoutIsBase DEF Prepared
<1>3. Solved(f, d, g, sig, prog, cur) /\ Frames(w) /\ Rewritten(f, g, sig, prog, cur, F)
      /\ Stacked(f, g, cur, w, st, H)
  BY DEF RenamedSoFar
<1>4. Len(g.blocks[h]) \in Nat /\ prog[h] \in 1 .. Len(g.blocks[h])
  BY <1>1, <1>2 DEF Base
<1>5. prog[h] # End(g, h) /\ prog[h] # Len(g.blocks[h]) + 1
  BY <1>4 DEF End
<1>6. ~AtLoad(g, prog, h)
  BY DEF AtLoad, Defines, IsNew
<1>7. Rewritten(f, g, sig2, prog2, cur2, F)
  BY <1>1, <1>2, <1>3, <1>5, <1>6, RewrittenStill
<1>8. x \in Locals(f) /\ \A y \in Locals(f) : Given(f, inst, sig, cur[h][prog[h]], y)
                                              = IF y = x THEN v ELSE cur[h][prog[h]][y]
  <2>1. CASE IsNew(f, inst)
    <3>1. x = inst.res[2] /\ v = inst.res
      BY <2>1 DEF Defines, IsNew
    <3>2. inst.res[2] \in Locals(f)
      BY <1>1, <1>2, <2>1, PhiOf
    <3>3. inst.op # "set"
      BY <2>1 DEF IsNew
    <3>4. QED
      BY <2>1, <3>1, <3>2, <3>3 DEF Given
  <2>2. CASE ~IsNew(f, inst)
    <3>1. inst.op = "set" /\ x = inst.args[1] /\ v = sig[inst.args[2]]
      BY <2>2 DEF Defines
    <3>2. Shapely(f, g, h, prog[h])
      BY <1>1, <1>2, <2>2 DEF Base
    <3>3. inst.args[1] \in Locals(f)
      BY <3>1, <3>2 DEF Shapely
    <3>4. QED
      BY <2>2, <3>1, <3>3 DEF Given
  <2>3. QED
    BY <2>1, <2>2
<1>9. \A y \in Locals(f) : cur2[h][prog[h] + 1][y] = IF y = x THEN v ELSE cur[h][prog[h]][y]
  <2>1. prog[h] + 1 \in Nat
    BY <1>1
  <2>2. cur2[h][prog[h] + 1] = Onward(f, d, g, sig, prog, cur, h)
    <3>1. h \in Blocks(f) /\ prog[h] \in Nat
      BY <1>1
    <3>2. NextCur(f, d, g, sig, prog, cur, h)[h][prog[h] + 1] = Onward(f, d, g, sig, prog, cur, h)
      BY <3>1, NextCurOn
    <3>3. QED
      BY <3>2
  <2>3. \A y \in Locals(f) : Onward(f, d, g, sig, prog, cur, h)[y] = Given(f, inst, sig, cur[h][prog[h]], y)
    <3>1. prog[h] # 0 /\ prog[h] \in DOMAIN g.blocks[h]
      BY <1>1
    <3> HIDE DEF cur2
    <3>2. ASSUME NEW y \in Locals(f)
          PROVE  Onward(f, d, g, sig, prog, cur, h)[y] = Given(f, g.blocks[h][prog[h]], sig, cur[h][prog[h]], y)
      BY <3>1 DEF Onward
    <3>3. QED
      BY <3>2 DEF inst
  <2>4. QED
    BY <1>8, <2>2, <2>3
<1>10. Storable(f, g, v)
  <2>1. MayGoOn(d, g, prog, h)
    BY <1>1, <1>5 DEF MayGoOn
  <2>2. Solved(f, d, g, sig2, prog2, cur2)
    <3>1. Base(f, g) /\ f \in Functions /\ DomTree(f, d) /\ Solved(f, d, g, sig, prog, cur) /\ h \in Blocks(f)
      BY <1>1, <1>2, <1>3
    <3> HIDE DEF inst
    <3>2. QED
      BY <2>1, <3>1, SolvedFurther, Zenon DEF sig2, prog2, cur2
  <2>3. prog2[h] = prog[h] + 1
    <3> HIDE DEF inst, sig2, cur2
    <3>1. QED
      BY <1>1, StepIs
  <2>4. prog[h] + 1 \in 1 .. prog2[h]
    BY <1>1, <2>3
  <2>5. Fits(f, g, cur2[h][prog[h] + 1][x], h, prog[h] + 1)
    BY <1>1, <1>8, <2>2, <2>4 DEF Solved, ValuesFit
  <2>6. Fits(f, g, v, h, prog[h] + 1)
    BY <1>8, <1>9, <2>5
  <2>7. QED
    BY <1>2, <2>6, FitsIsStorable
<1>11. Unmoved(f, cur, cur2, w, Len(w) - 1)
  BY OthersUnmoved
<1>12. \A y \in Locals(f) : cur2[c.block][c.index][y]
                              = IF y = x THEN v ELSE cur[w[Len(w)].block][w[Len(w)].index][y]
  BY <1>1, <1>9
<1>13. x \in Locals(f)
  BY <1>8
<1> HIDE DEF cur2
<1>14. PICK H2 : Stacked(f, g, cur2, Onto(w, c), [st EXCEPT ![x] = Append(@, v)], H2)
  <2>1. Framed(c) /\ c.pushed = Append(w[Len(w)].pushed, x) /\ Len(w) # 0
    OBVIOUS
  <2>2. Frames(w) /\ Stacked(f, g, cur, w, st, H)
    BY <1>3
  <2> HIDE DEF inst, prog2, sig2
  <2>3. QED
    BY <2>1, <2>2, <1>10, <1>11, <1>12, <1>13, StackPushed, ZenonT(90)
<1> HIDE DEF inst
<1> USE DEF cur2
<1>15. RenamedSoFar(f, d, ch, g, sig2, prog2, cur2, F, Onto(w, c), [st EXCEPT ![x] = Append(@, v)], H2)
  BY <1>5, <1>7, <1>14, RenamingOn
<1>16. QED
  BY <1>13, <1>15

\* The edges out of the block.
LEMMA RenamingFills ==
  ASSUME NEW f, NEW d, NEW ch, NEW fr, NEW g, Prepared(f, d, ch, fr, g),
         NEW sig, NEW prog, NEW cur, NEW F, NEW w, NEW st, NEW H,
         RenamedSoFar(f, d, ch, g, sig, prog, cur, F, w, st, H), Len(w) # 0,
         NEW h, h = w[Len(w)].block, prog[h] = Len(g.blocks[h]) + 1,
         NEW c, Framed(c), c.block = h, c.index = prog[h] + 1, c.child = w[Len(w)].child,
         c.pushed = w[Len(w)].pushed,
         NEW val, \A x \in Locals(f) : val[x] = cur[h][prog[h]][x]
  PROVE  RenamedSoFar(f, d, ch, g, NextSig(f, g, sig, prog, cur, h), NextProg(prog, h),
                      NextCur(f, d, g, sig, prog, cur, h), EdgesSeen(f, F, h, val), Onto(w, c), st, H)
<1> DEFINE cur2 == NextCur(f, d, g, sig, prog, cur, h)
<1>1. /\ h \in Blocks(f) /\ prog[h] # 0 /\ prog[h] \in Nat /\ w[Len(w)].index = prog[h]
  BY WalkIsAt
<1>2. f \in Functions /\ Layout(f, g) /\ Base(f, g)
  BY LayoutIsBase DEF Prepared
<1>3. Solved(f, d, g, sig, prog, cur) /\ Frames(w) /\ Rewritten(f, g, sig, prog, cur, F)
      /\ Stacked(f, g, cur, w, st, H)
  BY DEF RenamedSoFar
<1>4. Len(g.blocks[h]) \in Nat /\ DOMAIN g.blocks[h] = 1 .. Len(g.blocks[h])
  BY <1>1, <1>2 DEF Base
<1>5. prog[h] # End(g, h) /\ prog[h] \notin DOMAIN g.blocks[h]
  <2> DEFINE m == Len(g.blocks[h])
  <2>1. m \in Nat /\ DOMAIN g.blocks[h] = 1 .. m /\ End(g, h) = m + 2 /\ prog[h] = m + 1
    BY <1>4 DEF End
  <2> HIDE DEF m
  <2>2. QED
    BY <2>1
<1>7. Rewritten(f, g, NextSig(f, g, sig, prog, cur, h), NextProg(prog, h), cur2, EdgesSeen(f, F, h, val))
  BY <1>1, <1>2, <1>3, RewrittenEdges
<1>8. \A y \in Locals(f) : cur2[h][prog[h] + 1][y] = cur[h][prog[h]][y]
  <2>1. prog[h] + 1 \in Nat
    BY <1>1
  <2>2. cur2[h][prog[h] + 1] = Onward(f, d, g, sig, prog, cur, h)
    <3>1. h \in Blocks(f) /\ prog[h] \in Nat
      BY <1>1
    <3>2. NextCur(f, d, g, sig, prog, cur, h)[h][prog[h] + 1] = Onward(f, d, g, sig, prog, cur, h)
      BY <3>1, NextCurOn
    <3>3. QED
      BY <3>2
  <2>3. \A y \in Locals(f) : Onward(f, d, g, sig, prog, cur, h)[y] = cur[h][prog[h]][y]
    BY <1>1, <1>5 DEF Onward
  <2>5. QED
    BY <2>2, <2>3
<1>9. Unmoved(f, cur, cur2, w, Len(w) - 1)
  BY OthersUnmoved
<1>10. \A y \in Locals(f) : cur2[c.block][c.index][y] = cur[w[Len(w)].block][w[Len(w)].index][y]
  BY <1>1, <1>8
<1>11. Stacked(f, g, cur2, Onto(w, c), st, H)
  BY <1>3, <1>9, <1>10, StackStays
<1>12. QED
  BY <1>5, <1>7, <1>11, RenamingOn

\* A child is called.
LEMMA RenamingDescends ==
  ASSUME NEW f, NEW d, NEW ch, NEW fr, NEW g, Prepared(f, d, ch, fr, g),
         NEW sig, NEW prog, NEW cur, NEW F, NEW w, NEW st, NEW H,
         RenamedSoFar(f, d, ch, g, sig, prog, cur, F, w, st, H), Len(w) # 0,
         NEW h, h = w[Len(w)].block, prog[h] = End(g, h),
         w[Len(w)].child \in DOMAIN ch[h], NEW e, e = ch[h][w[Len(w)].child],
         NEW c, Framed(c), c.block = h, c.index = prog[h], c.child = w[Len(w)].child + 1,
         c.pushed = w[Len(w)].pushed
  PROVE  \E H2 : RenamedSoFar(f, d, ch, g, NextSig(f, g, sig, prog, cur, e), NextProg(prog, e),
                              NextCur(f, d, g, sig, prog, cur, e), F,
                              Append(Onto(w, c), Call(e)), st, H2)
<1> DEFINE cur2 == NextCur(f, d, g, sig, prog, cur, e)
           u == Onto(w, c)
<1>1. /\ h \in Blocks(f) /\ prog[h] # 0 /\ prog[h] \in Nat /\ w[Len(w)].index = prog[h]
      /\ \A k \in 1 .. Len(w) : w[k].block \in Blocks(f) /\ prog[w[k].block] # 0
                                   /\ w[k].index = prog[w[k].block]
      /\ prog \in [Blocks(f) -> Nat]
  BY WalkIsAt
<1>2. f \in Functions /\ Layout(f, g) /\ Base(f, g) /\ DomTree(f, d) /\ ChildrenListed(f, d, ch)
  BY LayoutIsBase DEF Prepared
<1>3. Solved(f, d, g, sig, prog, cur) /\ Frames(w) /\ Rewritten(f, g, sig, prog, cur, F)
      /\ Stacked(f, g, cur, w, st, H) /\ Walking(f, d, ch, g, prog, w)
      /\ Progressing(f, g, prog)
  BY DEF RenamedSoFar, Solved
<1>4. /\ e \in Blocks(f) /\ prog[e] = 0 /\ e # Entry /\ d[e] = h
      /\ Frames(Append(u, Call(e)))
      /\ Walking(f, d, ch, g, NextProg(prog, e), Append(u, Call(e)))
  BY <1>1, <1>2, <1>3, WalkDown, SMTT(30)
<1>5. MayGoOn(d, g, prog, e)
  BY <1>4 DEF MayGoOn
<1>6. Solved(f, d, g, NextSig(f, g, sig, prog, cur, e), NextProg(prog, e), cur2)
  BY <1>2, <1>3, <1>4, <1>5, SolvedFurther
<1>7. Rewritten(f, g, NextSig(f, g, sig, prog, cur, e), NextProg(prog, e), cur2, F)
  <2>1. Len(g.blocks[e]) \in Nat /\ DOMAIN g.blocks[e] = 1 .. Len(g.blocks[e])
    BY <1>2, <1>4 DEF Base
  <2>2. prog[e] # End(g, e) /\ prog[e] # Len(g.blocks[e]) + 1 /\ prog[e] \notin DOMAIN g.blocks[e]
    <3> DEFINE m == Len(g.blocks[e])
    <3>1. m \in Nat /\ DOMAIN g.blocks[e] = 1 .. m /\ End(g, e) = m + 2 /\ prog[e] = 0
      BY <1>4, <2>1 DEF End
    <3> HIDE DEF m
    <3>2. prog[e] # End(g, e) /\ prog[e] # m + 1 /\ prog[e] \notin DOMAIN g.blocks[e]
      BY <3>1
    <3>3. QED
      BY <3>2 DEF m
  <2>3. ~AtLoad(g, prog, e)
    BY <2>2 DEF AtLoad
  <2>4. QED
    BY <1>2, <1>3, <1>4, <2>2, <2>3, RewrittenStill
<1>8. /\ cur2[e][1] = Onward(f, d, g, sig, prog, cur, e)
      /\ \A b \in Blocks(f) : \A p \in Nat : b # e => cur2[b][p] = cur[b][p]
  <2>1. e \in Blocks(f) /\ prog[e] = 0
    BY <1>4
  <2>2. 1 \in Nat /\ 1 = prog[e] + 1
    BY <2>1
  <2>3. cur2[e][1] = Onward(f, d, g, sig, prog, cur, e)
    BY <2>1, <2>2, NextCurHere
  <2>4. \A b \in Blocks(f) : \A p \in Nat : b # e => cur2[b][p] = cur[b][p]
    BY <2>1, NextCurElsewhere
  <2>5. QED
    BY <2>3, <2>4
<1> HIDE DEF cur2
<1>9. \A y \in Locals(f) : cur2[e][1][y] = cur[h][prog[h]][y]
  <2>1. cur2[e][1] = Onward(f, d, g, sig, prog, cur, e)
    BY <1>8
  <2>2. \A y \in Locals(f) : Onward(f, d, g, sig, prog, cur, e)[y] = cur[d[e]][End(g, d[e])][y]
    BY <1>4 DEF Onward
  <2>3. cur[d[e]][End(g, d[e])] = cur[h][prog[h]]
    BY <1>4
  <2>4. QED
    BY <2>1, <2>2, <2>3
<1>10. Unmoved(f, cur, cur2, w, Len(w) - 1) /\ cur2[h][prog[h]] = cur[h][prog[h]]
  <2>1. ASSUME NEW b \in Blocks(f), prog[b] # 0 PROVE cur2[b][prog[b]] = cur[b][prog[b]]
    <3>1. prog[b] \in Nat
      BY <1>1
    <3>2. prog[e] = 0
      BY <1>4
    <3>3. b # e
      BY <2>1, <3>2
    <3>4. QED
      BY <1>8, <3>1, <3>3
  <2>2. Len(w) \in Nat
    BY <1>3 DEF Frames
  <2> DEFINE n == Len(w)
  <2>3. \A k \in 1 .. n - 1 : k \in 1 .. n
    BY <2>2
  <2>4. \A k \in 1 .. n - 1 : cur2[w[k].block][w[k].index] = cur[w[k].block][w[k].index]
    BY <1>1, <2>1, <2>3
  <2>5. \A k \in 1 .. n - 1 : \A y \in Locals(f) :
          cur2[w[k].block][w[k].index][y] = cur[w[k].block][w[k].index][y]
    BY <2>4
  <2>6. QED
    BY <1>1, <2>1, <2>5 DEF Unmoved
<1>11. Stacked(f, g, cur2, u, st, H)
  <2>1. \A y \in Locals(f) : cur2[c.block][c.index][y] = cur[w[Len(w)].block][w[Len(w)].index][y]
    BY <1>1, <1>10
  <2>2. QED
    BY <1>3, <1>10, <2>1, StackStays
<1>12. Frames(u) /\ Len(u) = Len(w) /\ u[Len(w)] = c
  <2>1. Len(w) \in Nat
    BY <1>3 DEF Frames
  <2>2. Frames(u) /\ Len(u) = Len(w) /\ \A k \in 1 .. Len(w) : u[k] = IF k = Len(w) THEN c ELSE w[k]
    BY <1>3, OntoIs
  <2> DEFINE n == Len(w)
  <2>3. n \in Nat /\ n # 0
    BY <2>1
  <2> HIDE DEF n
  <2>4. n \in 1 .. n
    BY <2>3
  <2>5. QED
    BY <2>2, <2>4 DEF n
<1>13. Framed(Call(e)) /\ Call(e).pushed = << >> /\ Call(e).block = e /\ Call(e).index = 1
  <2> DEFINE z == << >>
  <2>1. Len(z) = 0 /\ z = [k \in 1 .. Len(z) |-> z[k]]
    <3>1. 1 .. 0 = {} /\ \A G : [k \in {} |-> G[k]] = << >>
      OBVIOUS
    <3>2. QED
      BY <3>1
  <2>2. QED
    BY <2>1 DEF Framed, Call
<1>14. /\ Len(u) # 0
       /\ \A y \in Locals(f) : cur2[Call(e).block][Call(e).index][y]
                                 = cur2[u[Len(u)].block][u[Len(u)].index][y]
  <2>1. Len(u) # 0
    BY <1>12
  <2>2. u[Len(u)] = c
    BY <1>12
  <2>3. cur2[u[Len(u)].block][u[Len(u)].index] = cur[h][prog[h]]
    <3>1. u[Len(u)].block = h /\ u[Len(u)].index = prog[h]
      BY <2>2
    <3>2. QED
      BY <1>10, <3>1
  <2>4. cur2[Call(e).block][Call(e).index] = cur2[e][1]
    BY <1>13
  <2>5. QED
    BY <1>9, <2>1, <2>3, <2>4
<1> HIDE DEF u
<1>15. PICK H2 : Stacked(f, g, cur2, Append(u, Call(e)), st, H2)
  BY <1>11, <1>12, <1>13, <1>14, StackDown
<1>16. RenamedSoFar(f, d, ch, g, NextSig(f, g, sig, prog, cur, e), NextProg(prog, e), cur2, F,
                    Append(u, Call(e)), st, H2)
  BY <1>4, <1>6, <1>7, <1>15 DEF RenamedSoFar
<1>17. QED
  BY <1>16 DEF u, cur2

\* The newest call returns.
LEMMA RenamingReturns ==
  ASSUME NEW f, NEW d, NEW ch, NEW fr, NEW g, Prepared(f, d, ch, fr, g),
         NEW sig, NEW prog, NEW cur, NEW F, NEW w, NEW st, NEW H,
         RenamedSoFar(f, d, ch, g, sig, prog, cur, F, w, st, H), Len(w) # 0,
         NEW h, h = w[Len(w)].block, prog[h] = End(g, h), w[Len(w)].child \notin DOMAIN ch[h]
  PROVE  RenamedSoFar(f, d, ch, g, sig, prog, cur, F, Front(w),
                      Popped(st, w[Len(w)].pushed), H)
<1>1. ChildrenListed(f, d, ch)
  BY DEF Prepared
<1>2. Solved(f, d, g, sig, prog, cur) /\ Frames(w) /\ Rewritten(f, g, sig, prog, cur, F)
      /\ Stacked(f, g, cur, w, st, H) /\ Walking(f, d, ch, g, prog, w)
  BY DEF RenamedSoFar
<1>3. Frames(Front(w)) /\ Walking(f, d, ch, g, prog, Front(w)) /\ Shorter(Front(w), w)
  <2>1. /\ w[Len(w)].child \notin DOMAIN ch[w[Len(w)].block]
        /\ prog[w[Len(w)].block] = End(g, w[Len(w)].block)
    OBVIOUS
  <2>2. QED
    BY <1>1, <1>2, <2>1, WalkUp
<1>4. Stacked(f, g, cur, Front(w), Popped(st, w[Len(w)].pushed), H)
  BY <1>2, <1>3, StackPopped
<1>5. QED
  BY <1>2, <1>3, <1>4 DEF RenamedSoFar

\* The listed variables are the local ones.
LEMMA PromotableAre ==
  ASSUME NEW f, NEW names, PromotableListed(f, names)
  PROVE  ToSet(names) = Locals(f) /\ \A x : x \in Locals(f) <=> \E i \in DOMAIN names : names[i] = x
<1>1. \A i \in DOMAIN names : names[i] \in Locals(f)
  BY SequenceIs DEF PromotableListed
<1>2. \A x : x \in Locals(f) <=> \E i \in DOMAIN names : names[i] = x
  BY <1>1 DEF PromotableListed
<1>3. ToSet(names) = {names[i] : i \in DOMAIN names}
  BY DEF ToSet
<1>4. QED
  BY <1>2, <1>3

\* The code's test for a phi of its own finds those.
LEMMA InsertedIs ==
  ASSUME PromotableListed(original, promotable), Blocks(fn) = Blocks(original), NEW inst
  PROVE  Inserted(inst) <=> IsNew(original, inst)
<1>1. \A x : x \in Locals(original) <=> \E i \in DOMAIN promotable : promotable[i] = x
  BY PromotableAre
<1>2. (\E i \in DOMAIN promotable, b \in Blocks(fn) : inst.res = PhiValue(promotable[i], b))
        <=> \E x \in Locals(original), b \in Blocks(original) : inst.res = PhiValue(x, b)
  <2> DEFINE P(x, b) == inst.res = PhiValue(x, b)
  <2> HIDE DEF P
  <2>1. (\E i \in DOMAIN promotable, b \in Blocks(fn) : P(promotable[i], b))
          <=> \E x \in Locals(original), b \in Blocks(original) : P(x, b)
    BY <1>1
  <2>2. QED
    BY <2>1 DEF P
<1>3. QED
  BY <1>2 DEF Inserted, IsNew

\* The code's test for an access to a listed variable finds loads and stores.
LEMMA LocalIs ==
  ASSUME PromotableListed(original, promotable), NEW inst
  PROVE  Local(inst) <=> inst.op \in {"load", "set"} /\ inst.args[1] \in Locals(original)
BY PromotableAre DEF Local

\* The state of the renaming.
Renames(g, sig, prog, cur, H) ==
  /\ Prepared(original, idom, Kids, frontier, g)
  /\ RenamedSoFar(original, idom, Kids, g, sig, prog, cur, fn, walk, stacks, H)

\* The block the walk is in and how far it has got there.
LEMMA HereIs ==
  ASSUME Known, Renaming, NEW g, NEW sig, NEW prog, NEW cur, NEW H, Renames(g, sig, prog, cur, H),
         NEW h, h = Here.block
  PROVE  /\ PromotableListed(original, promotable) /\ Blocks(fn) = Blocks(original)
         /\ Frames(walk) /\ walk # << >> /\ Len(walk) # 0 /\ Here = walk[Len(walk)]
         /\ h \in Blocks(original) /\ Here.index = prog[h] /\ prog[h] # 0 /\ prog[h] \in Nat
         /\ h = walk[Len(walk)].block
         /\ Len(fn.blocks[h]) = Len(g.blocks[h]) /\ DOMAIN fn.blocks[h] = DOMAIN g.blocks[h]
         /\ DOMAIN g.blocks[h] = 1 .. Len(g.blocks[h]) /\ Len(g.blocks[h]) \in Nat
<1>1. Frames(walk) /\ walk # << >>
  BY DEF Renames, RenamedSoFar, Renaming
<1>2. Len(walk) \in Nat \ {0} /\ Last(walk) = walk[Len(walk)]
  BY <1>1, TopMoves
<1>3. Here = walk[Len(walk)]
  BY <1>2 DEF Here
<1>4. h \in Blocks(original) /\ walk[Len(walk)].index = prog[h] /\ prog[h] # 0 /\ prog[h] \in Nat
  BY <1>2, <1>3, WalkIsAt DEF Renames
<1>5. original \in Functions /\ Layout(original, g) /\ Rewritten(original, g, sig, prog, cur, fn)
  BY DEF Renames, Prepared, RenamedSoFar
<1>6. PromotableListed(original, promotable)
  BY DEF Known, Analysed, Renaming, Early
<1>7. Blocks(fn) = Blocks(original)
  BY <1>5, RewrittenShape
<1>8. DOMAIN g.blocks[h] = 1 .. Len(g.blocks[h]) /\ Len(g.blocks[h]) \in Nat
  BY <1>4, <1>5, LayoutIs
<1>9. /\ fn.blocks[h] = [p \in 1 .. Len(g.blocks[h]) |-> fn.blocks[h][p]]
      /\ Len(fn.blocks[h]) = Len(g.blocks[h])
  BY <1>4, <1>5 DEF Rewritten
<1>10. DOMAIN fn.blocks[h] = 1 .. Len(g.blocks[h])
  BY <1>9
<1>11. QED
  BY <1>1, <1>2, <1>3, <1>4, <1>6, <1>7, <1>8, <1>9, <1>10

\* No variable is replaced by anything.
LEMMA VariablesStay ==
  ASSUME NEW f, NEW d, NEW g, Base(f, g), NEW sig, NEW prog, NEW cur,
         Solved(f, d, g, sig, prog, cur), NEW x \in Locals(f), x \in Names(f, g)
  PROVE  sig[x] = x
<1>1. Renamed(f, g, sig, prog)
  BY DEF Solved
<1>2. ASSUME NEW b \in Blocks(f), NEW p \in DOMAIN g.blocks[b], g.blocks[b][p].op = "load"
      PROVE  g.blocks[b][p].res # x
  <2>1. ~IsNew(f, g.blocks[b][p])
    BY <1>2 DEF IsNew
  <2>2. Shapely(f, g, b, p)
    BY <2>1 DEF Base
  <2>3. QED
    BY <1>2, <2>2 DEF Shapely
<1>3. QED
  BY <1>1, <1>2 DEF Renamed

\* How the instruction the walk stands at relates to inst, the one before renaming.
Matches(g, sig, prog, h, inst) ==
  /\ prog[h] \in DOMAIN g.blocks[h]
  /\ This.op = inst.op /\ This.res = inst.res
  /\ Inserted(This) <=> IsNew(original, inst)
  /\ Local(This) <=> inst.op \in {"load", "set"}
  /\ inst.op \in {"load", "set"} => /\ This.args[1] = inst.args[1]
                                    /\ inst.args[1] \in Locals(original)
  /\ inst.op = "set" => This.args[2] = sig[inst.args[2]]

\* The instruction the walk stands at, which is the original one but for its operands.
LEMMA ThisIs ==
  ASSUME Known, RenamingInst, NEW g, NEW sig, NEW prog, NEW cur, NEW H, Renames(g, sig, prog, cur, H),
         NEW h, h = Here.block, NEW inst, inst = g.blocks[h][prog[h]]
  PROVE  Matches(g, sig, prog, h, inst)
<1>1. Renaming /\ Here.index \in DOMAIN fn.blocks[Here.block]
  BY DEF RenamingInst
<1>2. /\ PromotableListed(original, promotable) /\ Blocks(fn) = Blocks(original)
      /\ h \in Blocks(original) /\ Here.index = prog[h]
      /\ DOMAIN fn.blocks[h] = DOMAIN g.blocks[h]
  BY <1>1, HereIs
<1>3. prog[h] \in DOMAIN g.blocks[h]
  BY <1>1, <1>2
<1>4. This = fn.blocks[h][prog[h]]
  BY <1>2 DEF This
<1>5. /\ original \in Functions /\ Layout(original, g) /\ Rewritten(original, g, sig, prog, cur, fn)
      /\ Solved(original, idom, g, sig, prog, cur)
  BY DEF Renames, Prepared, RenamedSoFar
<1>6. Base(original, g)
  BY <1>5, LayoutIsBase
<1>7. Become(original, g, sig, prog, cur, h, prog[h], This)
  BY <1>2, <1>3, <1>4, <1>5 DEF Rewritten
<1>8. This.op = inst.op /\ This.res = inst.res
  <2>1. This = [op |-> inst.op, res |-> inst.res, args |-> This.args, to |-> This.to]
    BY <1>7 DEF Become
  <2>2. QED
    BY <2>1
<1>9. Inserted(This) <=> IsNew(original, inst)
  <2>1. Inserted(This) <=> IsNew(original, This)
    BY <1>2, InsertedIs
  <2>2. QED
    BY <1>8, <2>1 DEF IsNew
<1>10. ASSUME inst.op \in {"load", "set"}
       PROVE  /\ This.args[1] = inst.args[1] /\ inst.args[1] \in Locals(original)
              /\ inst.op = "set" => This.args[2] = sig[inst.args[2]]
  <2>1. ~IsNew(original, inst)
    BY <1>10 DEF IsNew
  <2>2. Shapely(original, g, h, prog[h])
    BY <1>2, <1>3, <1>6, <2>1 DEF Base
  <2>3. inst.args[1] \in Locals(original) /\ 1 \in DOMAIN inst.args
        /\ (inst.op = "set" => 2 \in DOMAIN inst.args)
    BY <1>10, <2>2 DEF Shapely
  <2>4. This.args = [k \in DOMAIN inst.args |-> sig[inst.args[k]]]
    BY <1>7, <2>1 DEF Become
  <2>5. inst.args[1] \in Names(original, g)
    BY <1>2, <1>3, <1>6, <2>1, <2>3, OperandsNamed
  <2>6. sig[inst.args[1]] = inst.args[1]
    <3>1. PICK x : x = inst.args[1]
      OBVIOUS
    <3>2. x \in Locals(original) /\ x \in Names(original, g)
      BY <2>3, <2>5, <3>1
    <3>3. Solved(original, idom, g, sig, prog, cur)
      BY <1>5
    <3>4. sig[x] = x
      BY <1>6, <3>2, <3>3, VariablesStay
    <3>5. QED
      BY <3>1, <3>4
  <2>7. This.args[1] = sig[inst.args[1]] /\ (inst.op = "set" => This.args[2] = sig[inst.args[2]])
    BY <2>3, <2>4
  <2>8. QED
    BY <2>3, <2>6, <2>7
<1>11. Local(This) <=> inst.op \in {"load", "set"}
  BY <1>2, <1>8, <1>10, LocalIs
<1>12. QED
  BY <1>3, <1>8, <1>9, <1>10, <1>11 DEF Matches

\* The three ways in which a step leaves the newest call.
LEMMA FrameAfter ==
  ASSUME NEW t, Framed(t), NEW x
  PROVE  /\ Framed([block |-> t.block, index |-> t.index + 1, child |-> t.child, pushed |-> t.pushed])
         /\ Framed([block |-> t.block, index |-> t.index, child |-> t.child + 1, pushed |-> t.pushed])
         /\ Framed([block |-> t.block, index |-> t.index + 1, child |-> t.child,
                    pushed |-> Append(t.pushed, x)])
<1>1. ASSUME NEW b, NEW i, NEW k, NEW p, Len(p) \in Nat, p = [j \in 1 .. Len(p) |-> p[j]]
      PROVE  Framed([block |-> b, index |-> i, child |-> k, pushed |-> p])
  BY <1>1 DEF Framed
<1>2. Len(t.pushed) \in Nat /\ t.pushed = [j \in 1 .. Len(t.pushed) |-> t.pushed[j]]
  BY DEF Framed
<1> DEFINE p == Append(t.pushed, x)
<1>3. Len(p) \in Nat /\ p = [j \in 1 .. Len(p) |-> p[j]]
  <2> DEFINE n == Len(t.pushed)
             s == t.pushed
  <2>1. n \in Nat /\ s = [j \in 1 .. n |-> s[j]]
    BY <1>2
  <2> HIDE DEF n, s
  <2>2. Len(Append(s, x)) = n + 1
        /\ Append(s, x) = [k \in 1 .. n + 1 |-> IF k = n + 1 THEN x ELSE s[k]]
    BY <2>1, AppendIs
  <2> DEFINE q == Append(s, x)
  <2>3. Len(q) = n + 1 /\ q = [k \in 1 .. n + 1 |-> IF k = n + 1 THEN x ELSE s[k]]
    BY <2>2
  <2> HIDE DEF q
  <2>4. Len(q) \in Nat /\ q = [j \in 1 .. Len(q) |-> q[j]]
    BY <2>1, <2>3
  <2>5. QED
    BY <2>4 DEF q, s
<1> HIDE DEF p
<1>4. QED
  BY <1>1, <1>2, <1>3 DEF p

\* While the walk lasts, there is a solution as far as it has got.
RenamingInv == stage = "renaming" => \E g, sig, prog, cur, H : Renames(g, sig, prog, cur, H)

\* It is enough to show that one exists behind a step.
LEMMA RenamesAfter ==
  ASSUME UNCHANGED <<original, idom, postorder, frontier>>,
         NEW CONSTANT g, NEW CONSTANT sig, NEW CONSTANT prog, NEW CONSTANT cur, NEW CONSTANT H,
         Prepared(original, idom, Kids, frontier, g),
         RenamedSoFar(original, idom, Kids, g, sig, prog, cur, fn', walk', stacks', H)
  PROVE  RenamingInv'
<1>1. \A b : Children(b)' = Children(b)
  BY DEF Children, ReversePostorder
<1>2. Kids' = Kids
  BY <1>1 DEF Kids
<1>3. Renames(g, sig, prog, cur, H)'
  BY <1>2 DEF Renames
<1>4. QED
  BY <1>3 DEF RenamingInv

\* Calling the entry.
LEMMA StartRenames ==
  ASSUME Known, Inserting, StartRenaming
  PROVE  RenamingInv'
<1>1. /\ stage = "choosing" /\ variable = Len(promotable)
      /\ stacks' = [x \in ToSet(promotable) |-> << >>] /\ walk' = <<Call(Entry)>>
      /\ UNCHANGED <<fn, original, idom, postorder, frontier>>
  BY DEF StartRenaming
<1>2. original \in Functions /\ Analysed
  BY <1>1 DEF Known, Early
<1>3. PromotableListed(original, promotable)
  BY <1>2 DEF Analysed
<1>4. Layout(original, fn) /\ PhisPlaced(original, fn, frontier, promotable, variable, {})
  BY <1>1 DEF Inserting, Placing, Waiting
<1>5. \A i \in DOMAIN promotable : i < variable \/ i = variable
  <2>1. Len(promotable) \in Nat /\ DOMAIN promotable = 1 .. Len(promotable)
    BY <1>3, SequenceIs DEF PromotableListed
  <2> DEFINE n == Len(promotable)
  <2>2. n \in Nat /\ DOMAIN promotable = 1 .. n /\ variable = n
    BY <1>1, <2>1
  <2> HIDE DEF n
  <2>3. QED
    BY <2>2
<1>6. \A x \in Locals(original) : ClosedBut(original, fn, frontier, x, {})
  <2>1. \A i \in DOMAIN promotable : ClosedBut(original, fn, frontier, promotable[i], {})
    BY <1>4, <1>5 DEF PhisPlaced
  <2>2. QED
    BY <1>3, <2>1 DEF PromotableListed
<1>7. Prepared(original, idom, Kids, frontier, fn)
  BY <1>2, <1>4, <1>6 DEF Prepared, Analysed
<1>8. \E sig, prog, cur, H :
        RenamedSoFar(original, idom, Kids, fn, sig, prog, cur, fn, <<Call(Entry)>>,
                     [x \in Locals(original) |-> << >>], H)
  BY <1>7, RenamingStarts
<1>9. stacks' = [x \in Locals(original) |-> << >>]
  BY <1>1, <1>3, PromotableAre
<1>10. PICK g : g = fn
  OBVIOUS
<1>11. PICK sig, prog, cur, H :
         RenamedSoFar(original, idom, Kids, g, sig, prog, cur, fn', walk', stacks', H)
  BY <1>1, <1>8, <1>9, <1>10
<1>12. Prepared(original, idom, Kids, frontier, g)
  BY <1>7, <1>10
<1>13. QED
  BY <1>1, <1>11, <1>12, RenamesAfter

\* The values the stacks have on top.
LEMMA CurrentIs ==
  ASSUME Known, Renaming, NEW g, NEW sig, NEW prog, NEW cur, NEW H, Renames(g, sig, prog, cur, H),
         NEW h, h = Here.block, NEW x \in Locals(original)
  PROVE  CurrentValue(x) = cur[h][prog[h]][x]
<1>1. /\ Frames(walk) /\ Len(walk) # 0 /\ Here.index = prog[h] /\ Here = walk[Len(walk)]
      /\ h = walk[Len(walk)].block
  BY HereIs
<1>2. Stacked(original, g, cur, walk, stacks, H)
  BY DEF Renames, RenamedSoFar
<1>3. CurrentValue(x) = cur[walk[Len(walk)].block][walk[Len(walk)].index][x]
  BY <1>1, <1>2, TopHeld DEF CurrentValue
<1>4. QED
  BY <1>1, <1>3

\* Going past an instruction that touches no variable.
LEMMA KeepRenames ==
  ASSUME Known, KeepInst, NEW CONSTANT g, NEW CONSTANT sig, NEW CONSTANT prog, NEW CONSTANT cur,
         NEW CONSTANT H, Renames(g, sig, prog, cur, H)
  PROVE  RenamingInv'
<1>1. /\ RenamingInst /\ Renaming /\ ~Inserted(This) /\ ~Local(This)
      /\ walk' = [walk EXCEPT ![Len(walk)].index = @ + 1]
      /\ UNCHANGED <<fn, stacks, original, idom, postorder, frontier>>
  BY DEF KeepInst, domVars, RenamingInst
<1>2. PICK h : h = Here.block
  OBVIOUS
<1>3. PICK inst : inst = g.blocks[h][prog[h]]
  OBVIOUS
<1>4. PICK t : t = Here
  OBVIOUS
<1>5. /\ Frames(walk) /\ walk # << >> /\ Len(walk) # 0 /\ Here = walk[Len(walk)]
      /\ h = walk[Len(walk)].block /\ Here.index = prog[h]
  BY <1>1, <1>2, HereIs
<1>6. /\ prog[h] \in DOMAIN g.blocks[h]
      /\ Inserted(This) <=> IsNew(original, inst)
      /\ Local(This) <=> inst.op \in {"load", "set"}
  <2>1. Matches(g, sig, prog, h, inst)
    BY <1>1, <1>2, <1>3, ThisIs
  <2>2. QED
    BY <2>1 DEF Matches
<1> DEFINE c == [block |-> t.block, index |-> t.index + 1, child |-> t.child, pushed |-> t.pushed]
<1>7. walk' = Onto(walk, c)
  BY <1>1, <1>4, <1>5, TopMoves DEF Here
<1>8. Len(walk) \in Nat /\ Framed(t)
  <2>1. Len(walk) \in Nat /\ \A k \in 1 .. Len(walk) : Framed(walk[k])
    BY <1>5 DEF Frames
  <2> DEFINE n == Len(walk)
  <2>2. n \in Nat /\ n # 0
    BY <1>5, <2>1
  <2> HIDE DEF n
  <2>3. n \in 1 .. n
    BY <2>2
  <2>4. QED
    BY <1>4, <1>5, <2>1, <2>3 DEF n
<1>9. Framed(c) /\ c.block = h /\ c.index = prog[h] + 1 /\ c.child = walk[Len(walk)].child
      /\ c.pushed = walk[Len(walk)].pushed
  BY <1>2, <1>4, <1>5, <1>8, FrameAfter
<1>10. /\ Prepared(original, idom, Kids, frontier, g)
       /\ RenamedSoFar(original, idom, Kids, g, sig, prog, cur, fn, walk, stacks, H)
  BY DEF Renames
<1> HIDE DEF c
<1>11. RenamedSoFar(original, idom, Kids, g, NextSig(original, g, sig, prog, cur, h),
                    NextProg(prog, h), NextCur(original, idom, g, sig, prog, cur, h),
                    fn, Onto(walk, c), stacks, H)
  BY <1>1, <1>3, <1>5, <1>6, <1>9, <1>10, RenamingKeeps
<1>12. PICK sig2, prog2, cur2 :
         RenamedSoFar(original, idom, Kids, g, sig2, prog2, cur2, fn', walk', stacks', H)
  BY <1>1, <1>7, <1>11
<1>13. QED
  BY <1>1, <1>10, <1>12, RenamesAfter

\* The top of the stack is a call.
LEMMA HereFramed ==
  ASSUME Frames(walk), Len(walk) # 0, Here = walk[Len(walk)]
  PROVE  Framed(Here)
<1>1. Len(walk) \in Nat /\ \A k \in 1 .. Len(walk) : Framed(walk[k])
  BY DEF Frames
<1> DEFINE n == Len(walk)
<1>2. n \in Nat /\ n # 0
  BY <1>1
<1> HIDE DEF n
<1>3. n \in 1 .. n
  BY <1>2
<1>4. QED
  BY <1>1, <1>3 DEF n

\* Going past a load.
LEMMA LoadRenames ==
  ASSUME Known, RewriteLoad, NEW CONSTANT g, NEW CONSTANT sig, NEW CONSTANT prog, NEW CONSTANT cur,
         NEW CONSTANT H, Renames(g, sig, prog, cur, H)
  PROVE  RenamingInv'
<1>1. /\ RenamingInst /\ Renaming /\ This.op = "load" /\ Local(This)
      /\ fn' = Swapped(fn, This.res, CurrentValue(This.args[1]))
      /\ walk' = [walk EXCEPT ![Len(walk)].index = @ + 1]
      /\ UNCHANGED <<stacks, original, idom, postorder, frontier>>
  BY DEF RewriteLoad, RenamingInst, Swapped
<1>2. PICK h : h = Here.block
  OBVIOUS
<1>3. PICK inst : inst = g.blocks[h][prog[h]]
  OBVIOUS
<1>4. PICK t : t = Here
  OBVIOUS
<1>5. /\ Frames(walk) /\ walk # << >> /\ Len(walk) # 0 /\ Here = walk[Len(walk)]
      /\ h = walk[Len(walk)].block /\ Here.index = prog[h]
  BY <1>1, <1>2, HereIs
<1>6. /\ prog[h] \in DOMAIN g.blocks[h]
      /\ This.op = inst.op /\ This.res = inst.res
      /\ inst.op \in {"load", "set"} => This.args[1] = inst.args[1] /\ inst.args[1] \in Locals(original)
  <2>1. Matches(g, sig, prog, h, inst)
    BY <1>1, <1>2, <1>3, ThisIs
  <2>2. QED
    BY <2>1 DEF Matches
<1> DEFINE c == [block |-> t.block, index |-> t.index + 1, child |-> t.child, pushed |-> t.pushed]
<1>7. walk' = Onto(walk, c)
  BY <1>1, <1>4, <1>5, TopMoves DEF Here
<1>8. Framed(t)
  BY <1>4, <1>5, HereFramed
<1>9. Framed(c) /\ c.block = h /\ c.index = prog[h] + 1 /\ c.child = walk[Len(walk)].child
      /\ c.pushed = walk[Len(walk)].pushed
  BY <1>2, <1>4, <1>5, <1>8, FrameAfter
<1>10. /\ Prepared(original, idom, Kids, frontier, g)
       /\ RenamedSoFar(original, idom, Kids, g, sig, prog, cur, fn, walk, stacks, H)
  BY DEF Renames
<1>11. inst.op = "load" /\ CurrentValue(This.args[1]) = cur[h][prog[h]][inst.args[1]]
  <2>1. inst.op = "load" /\ This.args[1] = inst.args[1] /\ inst.args[1] \in Locals(original)
    BY <1>1, <1>6
  <2>2. CurrentValue(inst.args[1]) = cur[h][prog[h]][inst.args[1]]
    BY <1>1, <1>2, <2>1, CurrentIs
  <2>3. QED
    BY <2>1, <2>2
<1> HIDE DEF c
<1>12. RenamedSoFar(original, idom, Kids, g, NextSig(original, g, sig, prog, cur, h),
                    NextProg(prog, h), NextCur(original, idom, g, sig, prog, cur, h),
                    Swapped(fn, inst.res, cur[h][prog[h]][inst.args[1]]), Onto(walk, c), stacks, H)
  BY <1>3, <1>5, <1>6, <1>9, <1>10, <1>11, RenamingLoads
<1>13. fn' = Swapped(fn, inst.res, cur[h][prog[h]][inst.args[1]])
  BY <1>1, <1>6, <1>11
<1>14. PICK sig2, prog2, cur2 :
         RenamedSoFar(original, idom, Kids, g, sig2, prog2, cur2, fn', walk', stacks', H)
  BY <1>1, <1>7, <1>12, <1>13
<1>15. QED
  BY <1>1, <1>10, <1>14, RenamesAfter

\* Going past a phi or a store.
LEMMA DefineRenames ==
  ASSUME Known, DefineVariable, NEW CONSTANT g, NEW CONSTANT sig, NEW CONSTANT prog, NEW CONSTANT cur,
         NEW CONSTANT H, Renames(g, sig, prog, cur, H)
  PROVE  RenamingInv'
<1>1. /\ RenamingInst /\ Renaming
      /\ \/ Inserted(This) /\ Push(VariableOf(This), This.res)
         \/ This.op = "set" /\ Local(This) /\ Push(This.args[1], This.args[2])
      /\ UNCHANGED <<fn, original, idom, postorder, frontier>>
  BY DEF DefineVariable, RenamingInst, domVars
<1>2. PICK h : h = Here.block
  OBVIOUS
<1>3. PICK inst : inst = g.blocks[h][prog[h]]
  OBVIOUS
<1>4. PICK t : t = Here
  OBVIOUS
<1>5. /\ Frames(walk) /\ walk # << >> /\ Len(walk) # 0 /\ Here = walk[Len(walk)]
      /\ h = walk[Len(walk)].block /\ Here.index = prog[h]
  BY <1>1, <1>2, HereIs
<1>6. /\ prog[h] \in DOMAIN g.blocks[h]
      /\ This.op = inst.op /\ This.res = inst.res
      /\ Inserted(This) <=> IsNew(original, inst)
      /\ inst.op \in {"load", "set"} => This.args[1] = inst.args[1] /\ inst.args[1] \in Locals(original)
      /\ inst.op = "set" => This.args[2] = sig[inst.args[2]]
  <2>1. Matches(g, sig, prog, h, inst)
    BY <1>1, <1>2, <1>3, ThisIs
  <2>2. QED
    BY <2>1 DEF Matches
<1>7. PICK x, v : Push(x, v) /\ Defines(original, inst, sig, x, v)
  <2>1. CASE Inserted(This) /\ Push(VariableOf(This), This.res)
    <3>1. Defines(original, inst, sig, VariableOf(This), This.res)
      BY <1>6, <2>1 DEF Defines, VariableOf
    <3>2. QED
      BY <2>1, <3>1
  <2>2. CASE This.op = "set" /\ Local(This) /\ Push(This.args[1], This.args[2])
    <3>1. Defines(original, inst, sig, This.args[1], This.args[2])
      BY <1>6, <2>2 DEF Defines
    <3>2. QED
      BY <2>2, <3>1
  <2>3. QED
    BY <1>1, <2>1, <2>2
<1> DEFINE c == [block |-> t.block, index |-> t.index + 1, child |-> t.child,
                 pushed |-> Append(t.pushed, x)]
<1>8. walk' = Onto(walk, c) /\ stacks' = [stacks EXCEPT ![x] = Append(@, v)]
  <2>1. /\ walk' = [walk EXCEPT ![Len(walk)].index = @ + 1, ![Len(walk)].pushed = Append(@, x)]
        /\ stacks' = [stacks EXCEPT ![x] = Append(@, v)]
    BY <1>7 DEF Push
  <2>2. [walk EXCEPT ![Len(walk)].index = @ + 1, ![Len(walk)].pushed = Append(@, x)]
          = Onto(walk, [block |-> Last(walk).block, index |-> Last(walk).index + 1,
                        child |-> Last(walk).child, pushed |-> Append(Last(walk).pushed, x)])
    BY <1>5, TopMoves, Zenon
  <2>3. Last(walk) = t
    BY <1>4 DEF Here
  <2>4. QED
    BY <2>1, <2>2, <2>3, Zenon
<1>9. Framed(t)
  BY <1>4, <1>5, HereFramed
<1>10. Framed(c) /\ c.block = h /\ c.index = prog[h] + 1 /\ c.child = walk[Len(walk)].child
      /\ c.pushed = Append(walk[Len(walk)].pushed, x)
  BY <1>2, <1>4, <1>5, <1>9, FrameAfter
<1>11. /\ Prepared(original, idom, Kids, frontier, g)
       /\ RenamedSoFar(original, idom, Kids, g, sig, prog, cur, fn, walk, stacks, H)
  BY DEF Renames
<1> HIDE DEF c
<1>12. PICK H2 :
       RenamedSoFar(original, idom, Kids, g, NextSig(original, g, sig, prog, cur, h),
                    NextProg(prog, h), NextCur(original, idom, g, sig, prog, cur, h),
                    fn, Onto(walk, c), [stacks EXCEPT ![x] = Append(@, v)], H2)
  BY <1>3, <1>5, <1>6, <1>7, <1>10, <1>11, RenamingDefines
<1>13. PICK sig2, prog2, cur2 :
         RenamedSoFar(original, idom, Kids, g, sig2, prog2, cur2, fn', walk', stacks', H2)
  BY <1>1, <1>8, <1>12
<1>14. QED
  BY <1>1, <1>11, <1>13, RenamesAfter

\* Seeing to the edges of a block.
LEMMA FillRenames ==
  ASSUME Known, FillPhis, NEW CONSTANT g, NEW CONSTANT sig, NEW CONSTANT prog, NEW CONSTANT cur,
         NEW CONSTANT H, Renames(g, sig, prog, cur, H)
  PROVE  RenamingInv'
<1> DEFINE A(c, i) ==
      IF c \in Succs(fn, Here.block) /\ i \in PhiSites(fn, c) /\ Inserted(fn.blocks[c][i])
      THEN [fn.blocks[c][i] EXCEPT !.args = Append(@, CurrentValue(VariableOf(fn.blocks[c][i]))),
                                   !.to = Append(@, Here.block)]
      ELSE fn.blocks[c][i]
<1>1. /\ Renaming
      /\ Here.index = Len(fn.blocks[Here.block]) + 1
      /\ fn' = [fn EXCEPT !.blocks = [c \in Blocks(fn) |-> [i \in DOMAIN fn.blocks[c] |-> A(c, i)]]]
      /\ walk' = [walk EXCEPT ![Len(walk)].index = @ + 1]
      /\ UNCHANGED <<stacks, original, idom, postorder, frontier>>
  BY DEF FillPhis
<1> HIDE DEF A
<1>2. PICK h : h = Here.block
  OBVIOUS
<1>4. PICK t : t = Here
  OBVIOUS
<1>5. /\ Frames(walk) /\ walk # << >> /\ Len(walk) # 0 /\ Here = walk[Len(walk)]
      /\ h = walk[Len(walk)].block /\ Here.index = prog[h]
      /\ PromotableListed(original, promotable) /\ Blocks(fn) = Blocks(original)
      /\ Len(fn.blocks[h]) = Len(g.blocks[h])
  BY <1>1, <1>2, HereIs
<1>6. prog[h] = Len(g.blocks[h]) + 1
  BY <1>1, <1>2, <1>5
<1> DEFINE c == [block |-> t.block, index |-> t.index + 1, child |-> t.child, pushed |-> t.pushed]
<1>7. walk' = Onto(walk, c)
  BY <1>1, <1>4, <1>5, TopMoves DEF Here
<1>8. Framed(t)
  BY <1>4, <1>5, HereFramed
<1>9. Framed(c) /\ c.block = h /\ c.index = prog[h] + 1 /\ c.child = walk[Len(walk)].child
      /\ c.pushed = walk[Len(walk)].pushed
  BY <1>2, <1>4, <1>5, <1>8, FrameAfter
<1>10. /\ Prepared(original, idom, Kids, frontier, g)
       /\ RenamedSoFar(original, idom, Kids, g, sig, prog, cur, fn, walk, stacks, H)
  BY DEF Renames
<1>11. PICK val : val = [x \in Locals(original) |-> CurrentValue(x)]
  OBVIOUS
<1>12. \A x \in Locals(original) : val[x] = CurrentValue(x) /\ CurrentValue(x) = cur[h][prog[h]][x]
  BY <1>1, <1>2, <1>11, CurrentIs
<1>13. ASSUME NEW b, NEW i PROVE A(b, i) = EdgeSeen(original, fn, h, val, b, i)
  <2>1. Inserted(fn.blocks[b][i]) <=> IsNew(original, fn.blocks[b][i])
    BY <1>5, InsertedIs
  <2>2. CASE IsNew(original, fn.blocks[b][i])
    <3>1. PICK x \in Locals(original), e \in Blocks(original) : fn.blocks[b][i].res = PhiValue(x, e)
      BY <2>2 DEF IsNew
    <3>2. fn.blocks[b][i].res[2] = x
      BY <3>1 DEF PhiValue
    <3>3. CurrentValue(VariableOf(fn.blocks[b][i])) = val[fn.blocks[b][i].res[2]]
      BY <1>12, <3>2 DEF VariableOf
    <3>4. QED
      BY <1>2, <2>1, <2>2, <3>3 DEF A, EdgeSeen
  <2>3. CASE ~IsNew(original, fn.blocks[b][i])
    BY <2>1, <2>3 DEF A, EdgeSeen
  <2>4. QED
    BY <2>2, <2>3
<1>14. fn' = EdgesSeen(original, fn, h, val)
  BY <1>1, <1>13 DEF EdgesSeen
<1>15. \A x \in Locals(original) : val[x] = cur[h][prog[h]][x]
  BY <1>12
<1> HIDE DEF c
<1>16. RenamedSoFar(original, idom, Kids, g, NextSig(original, g, sig, prog, cur, h),
                    NextProg(prog, h), NextCur(original, idom, g, sig, prog, cur, h),
                    EdgesSeen(original, fn, h, val), Onto(walk, c), stacks, H)
  BY <1>5, <1>6, <1>9, <1>10, <1>15, RenamingFills
<1>17. PICK sig2, prog2, cur2 :
         RenamedSoFar(original, idom, Kids, g, sig2, prog2, cur2, fn', walk', stacks', H)
  <2>1. stacks' = stacks
    BY <1>1
  <2>2. RenamedSoFar(original, idom, Kids, g, NextSig(original, g, sig, prog, cur, h),
                     NextProg(prog, h), NextCur(original, idom, g, sig, prog, cur, h),
                     fn', walk', stacks', H)
    BY <1>7, <1>14, <1>16, <2>1, Zenon
  <2>3. QED
    BY <2>2, Zenon
<1>18. QED
  BY <1>1, <1>10, <1>17, RenamesAfter

\* Calling for a child.
LEMMA ChildRenames ==
  ASSUME Known, RenameChild, NEW CONSTANT g, NEW CONSTANT sig, NEW CONSTANT prog, NEW CONSTANT cur,
         NEW CONSTANT H, Renames(g, sig, prog, cur, H)
  PROVE  RenamingInv'
<1>1. /\ Renaming
      /\ Here.index = Len(fn.blocks[Here.block]) + 2
      /\ Here.child \in DOMAIN Children(Here.block)
      /\ walk' = Append([walk EXCEPT ![Len(walk)].child = @ + 1],
                        Call(Children(Here.block)[Here.child]))
      /\ UNCHANGED <<fn, stacks, original, idom, postorder, frontier>>
  BY DEF RenameChild, RenamingChildren, domVars
<1>2. PICK h : h = Here.block
  OBVIOUS
<1>4. PICK t : t = Here
  OBVIOUS
<1>5. /\ Frames(walk) /\ walk # << >> /\ Len(walk) # 0 /\ Here = walk[Len(walk)]
      /\ h = walk[Len(walk)].block /\ Here.index = prog[h] /\ h \in Blocks(original)
      /\ Len(fn.blocks[h]) = Len(g.blocks[h])
  BY <1>1, <1>2, HereIs
<1>6. prog[h] = End(g, h)
  BY <1>1, <1>2, <1>5 DEF End
<1>k. Kids[h] = Children(h)
  BY <1>5 DEF Kids
<1>e. PICK e : e = Children(h)[Here.child]
  OBVIOUS
<1> DEFINE c == [block |-> t.block, index |-> t.index, child |-> t.child + 1, pushed |-> t.pushed]
<1>7. walk' = Append(Onto(walk, c), Call(e))
  <2>1. [walk EXCEPT ![Len(walk)].child = @ + 1] = Onto(walk, c)
    BY <1>4, <1>5, TopMoves DEF Here
  <2>2. QED
    BY <1>1, <1>2, <1>e, <2>1
<1>8. Framed(t)
  BY <1>4, <1>5, HereFramed
<1>9. Framed(c) /\ c.block = h /\ c.index = prog[h] /\ c.child = walk[Len(walk)].child + 1
      /\ c.pushed = walk[Len(walk)].pushed
  BY <1>2, <1>4, <1>5, <1>8, FrameAfter
<1>10. /\ Prepared(original, idom, Kids, frontier, g)
       /\ RenamedSoFar(original, idom, Kids, g, sig, prog, cur, fn, walk, stacks, H)
  BY DEF Renames
<1> HIDE DEF c
<1>11. walk[Len(walk)].child \in DOMAIN Kids[h] /\ e = Kids[h][walk[Len(walk)].child]
  BY <1>1, <1>2, <1>5, <1>k, <1>e
<1>12. PICK ch : ch = Kids
  OBVIOUS
<1>13. PICK H2 : RenamedSoFar(original, idom, ch, g, NextSig(original, g, sig, prog, cur, e),
                    NextProg(prog, e), NextCur(original, idom, g, sig, prog, cur, e),
                    fn, Append(Onto(walk, c), Call(e)), stacks, H2)
  BY <1>5, <1>6, <1>9, <1>10, <1>11, <1>12, RenamingDescends
<1>14. PICK sig2, prog2, cur2 :
         RenamedSoFar(original, idom, Kids, g, sig2, prog2, cur2, fn', walk', stacks', H2)
  BY <1>1, <1>7, <1>12, <1>13
<1>15. QED
  BY <1>1, <1>10, <1>14, RenamesAfter

\* Returning.
LEMMA PopRenames ==
  ASSUME Known, PopVariables, NEW CONSTANT g, NEW CONSTANT sig, NEW CONSTANT prog, NEW CONSTANT cur,
         NEW CONSTANT H, Renames(g, sig, prog, cur, H)
  PROVE  RenamingInv'
<1>1. /\ Renaming
      /\ Here.index = Len(fn.blocks[Here.block]) + 2
      /\ Here.child \notin DOMAIN Children(Here.block)
      /\ stacks' = Popped(stacks, Here.pushed)
      /\ walk' = Front(walk)
      /\ UNCHANGED <<fn, original, idom, postorder, frontier>>
  BY DEF PopVariables, RenamingChildren, domVars, Popped
<1>2. PICK h : h = Here.block
  OBVIOUS
<1>5. /\ Frames(walk) /\ walk # << >> /\ Len(walk) # 0 /\ Here = walk[Len(walk)]
      /\ h = walk[Len(walk)].block /\ Here.index = prog[h] /\ h \in Blocks(original)
      /\ Len(fn.blocks[h]) = Len(g.blocks[h])
  BY <1>1, <1>2, HereIs
<1>6. prog[h] = End(g, h)
  BY <1>1, <1>2, <1>5 DEF End
<1>k. Kids[h] = Children(h)
  BY <1>5 DEF Kids
<1>10. /\ Prepared(original, idom, Kids, frontier, g)
       /\ RenamedSoFar(original, idom, Kids, g, sig, prog, cur, fn, walk, stacks, H)
  BY DEF Renames
<1>11. walk[Len(walk)].child \notin DOMAIN Kids[h]
  BY <1>1, <1>2, <1>5, <1>k
<1>12. PICK ch : ch = Kids
  OBVIOUS
<1>13. RenamedSoFar(original, idom, ch, g, sig, prog, cur, fn, Front(walk),
                    Popped(stacks, walk[Len(walk)].pushed), H)
  BY <1>5, <1>6, <1>10, <1>11, <1>12, RenamingReturns
<1>14. PICK sig2, prog2, cur2 :
         RenamedSoFar(original, idom, Kids, g, sig2, prog2, cur2, fn', walk', stacks', H)
  BY <1>1, <1>5, <1>12, <1>13
<1>15. QED
  BY <1>1, <1>10, <1>14, RenamesAfter

\* Every step keeps it.
LEMMA NextRenames ==
  ASSUME Known, Inserting, RenamingInv, [Next]_vars
  PROVE  RenamingInv'
<1>1. CASE StartRenaming
  BY <1>1, StartRenames
<1>2. ASSUME stage = "renaming"
      PROVE  \E g, sig, prog, cur, H : Renames(g, sig, prog, cur, H)
  BY <1>2 DEF RenamingInv
<1>3. CASE DefineVariable \/ RewriteLoad \/ KeepInst \/ FillPhis \/ RenameChild \/ PopVariables
  <2>1. stage = "renaming"
    BY <1>3 DEF DefineVariable, RewriteLoad, KeepInst, FillPhis, RenameChild,
                PopVariables, RenamingInst, Renaming, RenamingChildren
  <2>2. PICK g, sig, prog, cur, H : Renames(g, sig, prog, cur, H)
    BY <1>2, <2>1
  <2>3. QED
    BY <1>3, <2>2, DefineRenames, LoadRenames, KeepRenames, FillRenames, ChildRenames, PopRenames
<1>4. CASE UNCHANGED vars
  <2>1. UNCHANGED <<original, fn, frontier, stage, idom, postorder, stacks, walk>>
    BY <1>4 DEF vars, domVars, passVars, runVars
  <2>2. CASE stage = "renaming"
    <3>1. PICK g, sig, prog, cur, H : Renames(g, sig, prog, cur, H)
      BY <1>2, <2>2
    <3>2. RenamedSoFar(original, idom, Kids, g, sig, prog, cur, fn', walk', stacks', H)
          /\ Prepared(original, idom, Kids, frontier, g)
      BY <2>1, <3>1 DEF Renames
    <3>3. QED
      BY <2>1, <3>2, RenamesAfter
  <2>3. QED
    BY <2>1, <2>2 DEF RenamingInv
<1>5. CASE DomNext
  BY <1>5 DEF DomNext, FollowEdge, LeaveBlock, OrderingDone, FindIdom, SweepAgain,
              DominatorsDone, Climb, NextEdge, RenamingInv
<1>6. CASE CollectPromotable \/ ChooseVariable \/ VariableDone \/ Cleanup
           \/ (\E b \in Blocks(fn) : InsertPhis(b))
  BY <1>6 DEF CollectPromotable, ChooseVariable, VariableDone, InsertPhis, Cleanup, RenamingInv
<1>7. CASE (\E given \in [Params(fn) -> Literals] : Start(given)) \/ Access
           \/ (\E result \in Literals : Compute(result)) \/ (\E c \in Blocks(fn) : Goto(c)) \/ Return
  BY <1>7 DEF Start, Access, Compute, Goto, Return, Running, domVars, RenamingInv
<1>8. QED
  BY <1>1, <1>3, <1>4, <1>5, <1>6, <1>7 DEF Next, Pass, Over
=============================================================================
