---------------------------- MODULE ScalarPasses ----------------------------
(***************************************************************************)
(* The passes over one function in SSA form (src/src/ir/optim.cpp), each   *)
(* as the single rewriting it repeats: which instruction it looks for, and *)
(* the function after it has been rewritten.  A computation that another   *)
(* value stands for is erased at once instead of at the end of the pass,   *)
(* by when nothing reads it any more.  A computation put in the place of   *)
(* another one keeps its name.                                             *)
(***************************************************************************)
EXTENDS SsaIR

SitesWith(f, ops) == {s \in Sites(f) : At(f, s).op \in ops}

-----------------------------------------------------------------------------
(* constprop *)

\* On this machine, as in the build, the division that overflows has no
\* result: the compiler itself is stopped by the trap.
FoldingTraps(inst) ==
  /\ inst.op \in {"div", "rem"}
  /\ inst.args = <<Const(-Half), Const(-1)>>

Foldable(inst) ==
  /\ inst.op \in Binary \cup Unary \cup {"phi"}
  /\ inst.args # << >>
  /\ \A v \in ToSet(inst.args) : IsConst(v)
  /\ inst.op \in {"div", "rem"} => inst.args[2] # Const(0)
  /\ inst.op = "phi" => Cardinality(ToSet(inst.args)) = 1

Folded(inst) ==
  Const(CASE inst.op = "phi" -> inst.args[1][2]
          [] inst.op \in Unary -> EvaluateUnary(inst.op, inst.args[1][2], inst.to)
          [] OTHER -> Evaluate(inst.op, inst.args[1][2], inst.args[2][2]))

-----------------------------------------------------------------------------
(* cfs: control flow *)

ConstantBranches(f) == {s \in SitesWith(f, {"condbr"}) : IsConst(At(f, s).args[1])}

\* slip: both targets become the one that is taken, the branch stays
FoldBranchInPlace(f, s) ==
  LET inst == At(f, s)
      taken == IF inst.args[1][2] # 0 THEN inst.to[1] ELSE inst.to[2]
  IN  SetInst(f, s, [inst EXCEPT !.to = <<taken, taken>>])

\* cfs_fold_branches.  The phis of the block that is not taken are left alone.
FoldBranch(f, s) ==
  LET inst == At(f, s)
  IN  SetInst(f, s, Br(IF inst.args[1][2] # 0 THEN inst.to[1] ELSE inst.to[2]))

\* reorder_incoming: the entries of a phi for a list of blocks.  When an old
\* entry fits several of them it goes to the first.
EntriesFor(phi, blocks) ==
  LET entries(j) == {i \in DOMAIN phi.to :
                       phi.to[i] = blocks[j] /\ \A k \in 1 .. j - 1 : blocks[k] # blocks[j]}
  IN  Inst("phi", phi.res,
           [j \in DOMAIN blocks |->
              IF entries(j) = {} THEN NoValue ELSE phi.args[Max(entries(j))]],
           blocks)

\* slip: the phis of the blocks that stay are left alone
RemoveUnreachableOnly(f) ==
  [f EXCEPT !.order = Picked(@, {i \in DOMAIN f.order : f.order[i] \in Reachable(f)}),
            !.blocks = [b \in Reachable(f) |-> @[b]]]

\* cfs_remove_unreachable
RemoveUnreachable(f) ==
  LET reach == Reachable(f)
      kept(list) == Picked(list, {i \in DOMAIN list : list[i] \in reach})
  IN  [f EXCEPT
        !.order = kept(@),
        !.blocks = [b \in reach |-> [i \in DOMAIN @[b] |->
                      IF i \in PhiSites(f, b) /\ kept(@[b][i].to) # @[b][i].to
                      THEN EntriesFor(@[b][i], kept(@[b][i].to)) ELSE @[b][i]]]]

\* What the erased blocks read: the use lists of these values keep entries for
\* instructions that are gone, for nothing detaches them.
LeftDangling(f) ==
  LET reach == Reachable(f)
      gone == {s \in Sites(f) : s[1] \notin reach}
  IN  (UNION {ToSet(At(f, s).args) : s \in gone}) \cap SsaValues(RemoveUnreachable(f))

\* cfs_simplify_phi
RedundantPhis(f) ==
  {s \in SitesWith(f, {"phi"}) :
     /\ Cardinality(ToSet(At(f, s).args)) = 1
     /\ At(f, s).args[1] # At(f, s).res}

\* cfs_merge_blocks: the first block that jumps to a block nobody else jumps to.
MergeSites(f) ==
  {s \in SitesWith(f, {"br"}) : PredsOf(f, At(f, s).to[1]) = {s[1]}}

CanMerge(f) ==
  /\ MergeSites(f) # {}
  /\ Phis(f, At(f, FirstOf(f, MergeSites(f))).to[1]) = {}

MergeBlocks(f) ==
  LET a == FirstOf(f, MergeSites(f))[1]
      b == Last(f.blocks[a]).to[1]
      retargeted(inst) ==
        IF inst.op = "phi"
        THEN [inst EXCEPT !.to = [k \in DOMAIN @ |-> IF @[k] = b THEN a ELSE @[k]]] ELSE inst
      merged(c) == IF c = a THEN Front(f.blocks[a]) \o f.blocks[b] ELSE f.blocks[c]
  IN  [f EXCEPT !.order = Picked(@, {i \in DOMAIN f.order : f.order[i] # b}),
                !.blocks = [c \in Blocks(f) \ {b} |->
                   IF c \in Succs(f, b)
                   THEN [i \in DOMAIN merged(c) |-> retargeted(merged(c)[i])]
                   ELSE merged(c)]]

-----------------------------------------------------------------------------
(* dce *)

Essential == {"store", "call", "ret", "br", "condbr"}

\* Everything an essential instruction needs.
Needed(f) ==
  LET reads(s) == ToSet(At(f, s).args)
      defined(v) == {s \in Sites(f) : At(f, s).res = v}
      grown[n \in Nat] ==
        IF n = 0 THEN UNION {reads(s) : s \in SitesWith(f, Essential)}
        ELSE Given(grown[n - 1], LAMBDA before :
               before \cup UNION {reads(s) : s \in UNION {defined(v) : v \in before}})
  IN  grown[Size(f)]

\* A call stays although nobody needs its result.
DeadValues(f) ==
  {At(f, s).res : s \in {t \in Sites(f) : At(f, t).op \notin Essential}} \ Needed(f)

-----------------------------------------------------------------------------
(* algebraic_simplify *)

\* The values an instruction can be replaced by at sight; none or one.
Simpler(f, inst) ==
  LET a == inst.args[1]
      b == inst.args[2]
      zero == Const(0)
      one == Const(1)
      when(condition, v) == IF condition THEN {v} ELSE {}
      first(one_, other) == IF one_ # {} THEN one_ ELSE other
  IN  CASE inst.op = "add" -> first(when(b = zero, a), when(a = zero, b))
        [] inst.op = "sub" -> first(when(b = zero, a), when(a = b, zero))
        [] inst.op = "mul" -> first(when(b = zero \/ a = zero, zero),
                                    first(when(b = one, a), when(a = one, b)))
        [] inst.op = "div" -> when(b = one, a)
        [] inst.op = "rem" -> when(b = one, zero)
        [] inst.op \in {"eq", "le", "ge"} -> when(a = b, one)
        [] inst.op \in {"ne", "lt", "gt"} -> when(a = b, zero)
        [] inst.op = "neg" ->
             IF a \in Results(f) /\ At(f, DefSite(f, a)).op = "neg"
             THEN {At(f, DefSite(f, a)).args[1]} ELSE {}
        [] OTHER -> {}

Simplifiable(f, s) == Simpler(f, At(f, s)) \ {At(f, s).res} # {}

-----------------------------------------------------------------------------
(* strength_reduce and strength_reduce_divrem *)

\* Shift amounts other than 0; as many as the numbers of TLC have room for.
Shifts == 1 .. 30

\* is_power_of_two_positive, with a shift amount that is not 0.
Log(v) == CHOOSE k \in Shifts : Power(k) = v[2]
PowerOfTwo(v) == IsConst(v) /\ \E k \in Shifts : Power(k) = v[2] /\ v[2] < Half

\* The constant factor is the left one if both are constants.
Factor(inst) == IF IsConst(inst.args[1]) THEN 1 ELSE 2

Multiplications(f) ==
  {s \in SitesWith(f, {"mul"}) : PowerOfTwo(At(f, s).args[Factor(At(f, s))])}

ReduceMultiplication(f, s) ==
  LET inst == At(f, s)
      k == Factor(inst)
  IN  SetInst(f, s, Inst("shl", inst.res, <<inst.args[3 - k]>>, <<Log(inst.args[k])>>))

\* is_nonneg_counter_phi: starts at a constant that is not negative, goes up by
\* a constant, and does so only where it has been found below a bound that
\* leaves room for the step.
Increments(f, phi) ==
  {s \in SitesWith(f, {"add"}) :
     \E i \in 1 .. 2 : /\ At(f, s).args[i] = phi.res
                       /\ IsConst(At(f, s).args[3 - i])
                       /\ At(f, s).args[3 - i][2] >= 1}

StepOf(inst) == IF IsConst(inst.args[2]) THEN inst.args[2][2] ELSE inst.args[1][2]

\* The guards "phi < bound" of f: where the branch is, and the block behind it.
Guarded(f, phi, step) ==
  {<<At(f, br).to[1], br[1]>> : br \in
     {br \in SitesWith(f, {"condbr"}) :
        \E c \in SitesWith(f, {"lt"}) :
          /\ At(f, br).args[1] = At(f, c).res
          /\ At(f, c).args[1] = phi.res
          /\ IsConst(At(f, c).args[2])
          /\ At(f, c).args[2][2] \in 0 .. Half - 1 - step}}

\* slip: the step need not be behind the guard
NonNegativeCounterAnywhere(f, phi) ==
  /\ Len(phi.args) = 2
  /\ \E i \in 1 .. 2 :
       /\ IsConst(phi.args[i]) /\ phi.args[i][2] >= 0
       /\ \E s \in Increments(f, phi) :
            /\ At(f, s).res = phi.args[3 - i]
            /\ Guarded(f, phi, StepOf(At(f, s))) # {}

NonNegativeCounter(f, phi) ==
  /\ Len(phi.args) = 2
  /\ \E i \in 1 .. 2 :
       /\ IsConst(phi.args[i]) /\ phi.args[i][2] >= 0
       /\ \E s \in Increments(f, phi) :
            /\ At(f, s).res = phi.args[3 - i]
            /\ \E g \in Guarded(f, phi, StepOf(At(f, s))) :
                 PredsOf(f, g[1]) = {g[2]} /\ DominatesIn(f, g[1], s[1])

\* As far as the phi itself tells; then its users are looked at.
CountsUp(f, v) ==
  /\ v \in Results(f)
  /\ LET phi == At(f, DefSite(f, v))
     IN  /\ phi.op = "phi" /\ Len(phi.args) = 2
         /\ \E i \in 1 .. 2 :
              /\ IsConst(phi.args[i]) /\ phi.args[i][2] >= 0
              /\ \E s \in Increments(f, phi) : At(f, s).res = phi.args[3 - i]

KnownNonNegative(f, v) ==
  \/ IsConst(v) /\ v[2] >= 0
  \/ /\ v \in Results(f)
     /\ At(f, DefSite(f, v)).op = "phi"
     /\ NonNegativeCounter(f, At(f, DefSite(f, v)))

Divisions(f) ==
  {s \in SitesWith(f, {"div", "rem"}) :
     PowerOfTwo(At(f, s).args[2]) /\ KnownNonNegative(f, At(f, s).args[1])}

ReduceDivision(f, s) ==
  LET inst == At(f, s)
      k == Log(inst.args[2])
  IN  SetInst(f, s,
        IF inst.op = "div" THEN Inst("shr", inst.res, <<inst.args[1]>>, <<k>>)
        ELSE Inst("and", inst.res, <<inst.args[1], Const(Power(k) - 1)>>, << >>))

-----------------------------------------------------------------------------
(* licm *)

\* The headers of natural loops, and the blocks of the loop.  The search
\* backwards stops at the header, unless the header is itself a latch.
Headers(f) ==
  {h \in Reachable(f) : \E latch \in PredsOf(f, h) \cap Reachable(f) : DominatesIn(f, h, latch)}

LoopBlocks(f, h) ==
  LET latches == {l \in PredsOf(f, h) \cap Reachable(f) : DominatesIn(f, h, l)}
      grown[n \in Nat] ==
        IF n = 0 THEN latches \cup {h}
        ELSE Given(grown[n - 1], LAMBDA before :
               before \cup UNION {PredsOf(f, b) : b \in before \ ({h} \ latches)})
  IN  grown[Len(f.order)]

\* One block outside jumps to the header, and to nothing else.
Preheaders(f, h) ==
  LET outside == PredsOf(f, h) \ LoopBlocks(f, h)
  IN  {b \in outside : Cardinality(outside) = 1 /\ Last(f.blocks[b]).op = "br"}

Hoistable == Binary \cup Unary

\* Computations of the loop that read nothing the loop computes, or only such
\* computations.
InvariantIn(f, blocks) ==
  LET computed == {At(f, s).res : s \in {t \in Sites(f) : t[1] \in blocks}}
      candidates == {s \in SitesWith(f, Hoistable) : s[1] \in blocks}
      grown[n \in Nat] ==
        IF n = 0 THEN {}
        ELSE Given({At(f, t).res : t \in grown[n - 1]}, LAMBDA known :
               {s \in candidates : ToSet(At(f, s).args) \cap computed \subseteq known})
  IN  grown[Cardinality(candidates)]

Invariant(f, h) == Given(LoopBlocks(f, h), LAMBDA blocks : InvariantIn(f, blocks))

\* Operands first, otherwise in the order of the blocks.
Scheduled(f, sites) ==
  LET taken[n \in Nat] ==
        IF n = 0 THEN << >>
        ELSE LET before == taken[n - 1]
                 rest == sites \ ToSet(before)
                 waiting == {At(f, s).res : s \in rest}
                 ready == {t \in rest : ToSet(At(f, t).args) \cap waiting = {}}
             IN  IF ready = {} THEN before ELSE Append(before, FirstOf(f, ready))
  IN  taken[Cardinality(sites)]

HoistInvariants(f, h) ==
  LET p == CHOOSE b \in Preheaders(f, h) : TRUE
      sites == Scheduled(f, Invariant(f, h))
      moved == [i \in DOMAIN sites |-> At(f, sites[i])]
      left == EraseValues(f, {moved[i].res : i \in DOMAIN moved})
  IN  [left EXCEPT !.blocks[p] = Front(@) \o moved \o <<Last(@)>>]

-----------------------------------------------------------------------------
(* gvn *)

Numbered == Arithmetic \cup Comparisons \cup {"neg"}

\* gvn_key: the operands of a commutative operation as a set, and > and >= as
\* < and <= of the operands exchanged.
Key(inst) ==
  CASE inst.op \in {"add", "mul", "eq", "ne"} -> <<inst.op, ToSet(inst.args)>>
    [] inst.op = "gt" -> <<"lt", Reverse(inst.args)>>
    [] inst.op = "ge" -> <<"le", Reverse(inst.args)>>
    [] OTHER -> <<inst.op, inst.args>>

\* slip: one table for the whole function, in the order of the blocks
EarlierInList(f, s) ==
  {t \in SitesWith(f, Numbered) :
     t # s /\ Key(At(f, t)) = Key(At(f, s)) /\ FirstOf(f, {s, t}) = t}

\* The walk over the dominator tree knows what it has passed in the blocks that
\* dominate this one and further up in the block itself.
Earlier(f, s) ==
  {t \in SitesWith(f, Numbered) :
     /\ t # s
     /\ Key(At(f, t)) = Key(At(f, s))
     /\ IF t[1] = s[1] THEN t[2] < s[2] ELSE DominatesIn(f, t[1], s[1])}

Repeated(f) == {s \in SitesWith(f, Numbered) : Earlier(f, s) # {}}

\* The one that is earlier than the others is what the table has.
Original(f, s) ==
  CHOOSE t \in Earlier(f, s) : Earlier(f, t) = {}
=============================================================================
