----------------------------- MODULE Dominators -----------------------------
(***************************************************************************)
(* DominatorTree (src/src/ir/mem2reg.cpp): the dominator tree of a         *)
(* function by the iteration of Cooper, Harvey and Kennedy, and the        *)
(* dominance frontiers, step by step.  Null pointers are 0.                *)
(*                                                                         *)
(* A block that cannot be reached would send the search of the frontiers   *)
(* up from null for ever; the functions are those without such a block.    *)
(***************************************************************************)
EXTENDS FunctionIR

CONSTANT Functions  \* the functions to analyse

VARIABLES
  fn,         \* the function, as it is now
  stage,      \* what the pass is doing
  visiting,   \* stack of the depth-first search: <<block, next successor>>
  postorder,  \* blocks the search has left, in that order
  idom,       \* block -> immediate dominator, or 0
  turn,       \* place in the reverse postorder of the block to visit next
  changed,    \* an immediate dominator changed in this sweep
  frontier,   \* block -> dominance frontier
  edge,       \* the edge into a join whose frontiers are being found
  runner      \* the block the search for them has climbed to

domVars == <<fn, stage, visiting, postorder, idom, turn, changed, frontier, edge, runner>>

-----------------------------------------------------------------------------
(* build_cfg *)

SuccSeq(f, b) ==
  IF Terminated(f, b) /\ Last(f.blocks[b]).op # "ret" THEN Last(f.blocks[b]).to ELSE << >>

\* Each block once for every edge it has to b.
Preds(f, b) ==
  FlattenSeq([c \in Blocks(f) |->
    LET edges == {i \in DOMAIN SuccSeq(f, c) : SuccSeq(f, c)[i] = b}
    IN  [k \in 1 .. Cardinality(edges) |-> c]])

ASSUME BlocksInOrder ==
  \A f \in Functions : Len(f.blocks) \in Nat /\ DOMAIN f.blocks = 1 .. Len(f.blocks)

\* Branches lead to blocks, to the entry none: it declares the variables, and
\* no loop begins with it.
ASSUME TargetsAreBlocks ==
  \A f \in Functions : \A b \in Blocks(f) : SuccSeq(f, b) \in Seq(Blocks(f) \ {Entry})

ASSUME AllReached ==
  \A f \in Functions : Blocks(f) = {Entry} \cup ReachedFrom(f, Entry)

-----------------------------------------------------------------------------
(* The postorder. *)

Seen == {postorder[i] : i \in DOMAIN postorder} \cup {visiting[i][1] : i \in DOMAIN visiting}
Top == Last(visiting)

\* The next successor of the newest block: entered unless it was seen before.
FollowEdge ==
  /\ stage = "ordering"
  /\ visiting # << >>
  /\ Top[2] \in DOMAIN SuccSeq(fn, Top[1])
  /\ LET s == SuccSeq(fn, Top[1])[Top[2]]
         on == Append(Front(visiting), <<Top[1], Top[2] + 1>>)
     IN  visiting' = IF s \in Seen THEN on ELSE Append(on, <<s, 1>>)
  /\ UNCHANGED <<fn, stage, postorder, idom, turn, changed, frontier, edge, runner>>

LeaveBlock ==
  /\ stage = "ordering"
  /\ visiting # << >>
  /\ Top[2] \notin DOMAIN SuccSeq(fn, Top[1])
  /\ postorder' = Append(postorder, Top[1])
  /\ visiting' = Front(visiting)
  /\ UNCHANGED <<fn, stage, idom, turn, changed, frontier, edge, runner>>

\* slip: the entry has no dominator
OrderingDoneOnly ==
  /\ stage = "ordering"
  /\ visiting = << >>
  /\ stage' = "dominators"
  /\ UNCHANGED <<fn, visiting, postorder, idom, turn, changed, frontier, edge, runner>>

OrderingDone ==
  /\ stage = "ordering"
  /\ visiting = << >>
  /\ stage' = "dominators"
  /\ idom' = [idom EXCEPT ![Entry] = Entry]
  /\ UNCHANGED <<fn, visiting, postorder, turn, changed, frontier, edge, runner>>

-----------------------------------------------------------------------------
(* The immediate dominators. *)

ReversePostorder == Reverse(postorder)
Number(b) == CHOOSE i \in DOMAIN postorder : postorder[i] = b

\* The blocks that have a dominator so far.
Found == {b \in Blocks(fn) : idom[b] # 0}

\* intersect: both climb towards the entry until they meet.
Meet(b, c) ==
  LET meet[p \in Found \X Found] ==
        IF p[1] = p[2] THEN p[1]
        ELSE IF Number(p[1]) < Number(p[2]) THEN meet[<<idom[p[1]], p[2]>>]
        ELSE meet[<<p[1], idom[p[2]]>>]
  IN  meet[<<b, c>>]

\* Predecessors that have no dominator yet do not count.
NewIdom(b) ==
  LET preds == Preds(fn, b)
      met[i \in 0 .. Len(preds)] ==
        IF i = 0 THEN 0
        ELSE IF preds[i] \notin Found THEN met[i - 1]
        ELSE IF met[i - 1] = 0 THEN preds[i]
        ELSE Meet(preds[i], met[i - 1])
  IN  met[Len(preds)]

FindIdom ==
  /\ stage = "dominators"
  /\ turn <= Len(postorder)
  /\ LET b == ReversePostorder[turn]
     IN  /\ idom' = [idom EXCEPT ![b] = NewIdom(b)]
         /\ changed' = (changed \/ idom[b] # NewIdom(b))
  /\ turn' = turn + 1
  /\ UNCHANGED <<fn, stage, visiting, postorder, frontier, edge, runner>>

\* slip: the flag is not reset
SweepForever ==
  /\ stage = "dominators"
  /\ turn > Len(postorder)
  /\ changed
  /\ turn' = 2
  /\ UNCHANGED <<fn, stage, visiting, postorder, idom, changed, frontier, edge, runner>>

SweepAgain ==
  /\ stage = "dominators"
  /\ turn > Len(postorder)
  /\ changed
  /\ turn' = 2
  /\ changed' = FALSE
  /\ UNCHANGED <<fn, stage, visiting, postorder, idom, frontier, edge, runner>>

\* The children of a block in the dominator tree, as children_ lists them.
Children(b) ==
  Picked(ReversePostorder, {i \in DOMAIN ReversePostorder :
                              ReversePostorder[i] # Entry /\ idom[ReversePostorder[i]] = b})

-----------------------------------------------------------------------------
(* The dominance frontiers. *)

\* The edges into joins, as <<join, predecessor>>, in the order they are taken.
JoinEdges ==
  FlattenSeq([b \in Blocks(fn) |->
    IF Len(Preds(fn, b)) < 2 THEN << >>
    ELSE [k \in DOMAIN Preds(fn, b) |-> <<b, Preds(fn, b)[k]>>]])

\* slip: the predecessor itself is left out
StartAbove(e) == IF e \in DOMAIN JoinEdges THEN idom[JoinEdges[e][2]] ELSE 0

StartAt(e) == IF e \in DOMAIN JoinEdges THEN JoinEdges[e][2] ELSE 0

DominatorsDone ==
  /\ stage = "dominators"
  /\ turn > Len(postorder)
  /\ ~changed
  /\ stage' = "frontiers"
  /\ runner' = StartAt(1)
  /\ UNCHANGED <<fn, visiting, postorder, idom, turn, changed, frontier, edge>>

Climb ==
  /\ stage = "frontiers"
  /\ edge \in DOMAIN JoinEdges
  /\ LET b == JoinEdges[edge][1]
     IN  /\ runner # idom[b]
         /\ frontier' = [frontier EXCEPT ![runner] = @ \cup {b}]
  /\ runner' = idom[runner]
  /\ UNCHANGED <<fn, stage, visiting, postorder, idom, turn, changed, edge>>

NextEdge ==
  /\ stage = "frontiers"
  /\ edge \in DOMAIN JoinEdges
  /\ runner = idom[JoinEdges[edge][1]]
  /\ edge' = edge + 1
  /\ runner' = StartAt(edge + 1)
  /\ UNCHANGED <<fn, stage, visiting, postorder, idom, turn, changed, frontier>>

FrontiersFound == stage = "frontiers" /\ edge \notin DOMAIN JoinEdges

-----------------------------------------------------------------------------

DomInit ==
  /\ fn \in Functions
  /\ stage = "ordering"
  /\ visiting = <<<<Entry, 1>>>>
  /\ postorder = << >>
  /\ idom = [b \in Blocks(fn) |-> 0]
  /\ turn = 2
  /\ changed = FALSE
  /\ frontier = [b \in Blocks(fn) |-> {}]
  /\ edge = 1
  /\ runner = 0

DomNext ==
  \/ FollowEdge \/ LeaveBlock \/ OrderingDone
  \/ FindIdom \/ SweepAgain \/ DominatorsDone
  \/ Climb \/ NextEdge

-----------------------------------------------------------------------------
(* What dominance means, by paths. *)

\* Every path from the entry to c goes through b.
Dominates(f, b, c) ==
  LET reached[n \in Nat] ==  \* in n steps, without b
        IF n = 0 THEN {Entry} \ {b}
        ELSE LET before == reached[n - 1]
             IN  before \cup ((UNION {Succs(f, d) : d \in before}) \ {b})
  IN  c \notin reached[Len(f.blocks)]

StrictlyDominates(f, b, c) == b # c /\ Dominates(f, b, c)

\* The tree climbed by intersect while it is still being built is, in the end,
\* the dominator tree: idom[b] is the dominator of b that all others dominate.
DominatorsExact ==
  stage = "frontiers" =>
    \A b \in Blocks(fn) \ {Entry} :
      /\ StrictlyDominates(fn, idom[b], b)
      /\ \A c \in Blocks(fn) : StrictlyDominates(fn, c, b) => Dominates(fn, c, idom[b])

\* The climbs from the edges into joins find the frontiers as they are defined:
\* where the dominance of a block ends.
FrontiersExact ==
  FrontiersFound =>
    \A b \in Blocks(fn) :
      frontier[b] = {c \in Blocks(fn) : /\ \E p \in ToSet(Preds(fn, c)) : Dominates(fn, b, p)
                                        /\ ~StrictlyDominates(fn, b, c)}
=============================================================================
