-------------------------- MODULE Interprocedural --------------------------
(***************************************************************************)
(* The passes over the whole module: global variables kept in a local one  *)
(* (localize_globals), the inliner for functions still in memory form      *)
(* (src/src/ir/inliner.cpp), the limited inliner for straight-line         *)
(* functions in SSA form and the elimination of tail recursion, all of     *)
(* optim.cpp; and what mem2reg makes of a function in between.             *)
(***************************************************************************)
EXTENDS ScalarPasses

\* fresh_id: no value of the module has this number or a greater one.
FreshId(m) ==
  1 + Max({0} \cup UNION {{v[2] : v \in Results(m[i])} : i \in DOMAIN m})

Callees(f) == {At(f, s).to[1] : s \in SitesWith(f, {"call"})}
Names(m) == {m[i].name : i \in DOMAIN m}

\* Local variables are all in the entry.
Slots(f) ==
  LET entry == f.blocks[EntryOf(f)]
  IN  Picked(entry, {i \in DOMAIN entry : entry[i].op = "alloca"})

-----------------------------------------------------------------------------
(* localize_globals *)

AccessesOf(f, x) ==
  {s \in SitesWith(f, {"load", "store"}) : At(f, s).args[1] = x}
GlobalsOf(f) ==
  {At(f, s).args[1] : s \in SitesWith(f, {"load", "store"})}
    \cap {v \in UNION {ToSet(At(f, s).args) : s \in Sites(f)} : IsGlobal(v)}

\* The summaries: what a call of each function may read or write, itself or in
\* what it calls in turn.
Touched(m) ==
  LET grown[n \in Nat] ==
        IF n = 0 THEN [name \in Names(m) |-> GlobalsOf(FunctionNamed(m, name))]
        ELSE Given(grown[n - 1], LAMBDA before :
               [name \in Names(m) |->
                  before[name] \cup UNION {before[c] : c \in Callees(FunctionNamed(m, name))}])
  IN  grown[Len(m)]

Written(f, x) == \E s \in AccessesOf(f, x) : At(f, s).op = "store"

\* Every callee is a function of the module: semantic analysis has seen to it.
Localizable(m, f) ==
  {x \in GlobalsOf(f) :
     /\ \A c \in Callees(f) : x \notin Touched(m)[c]
     /\ Written(f, x) => \A b \in Blocks(f) : Terminated(f, b)}

\* A slot in the entry takes the value of the global, all accesses go to the
\* slot, and a slot that was written is stored back before each return.
LocalizeGlobal(f, x, id) ==
  LET slot == V(id)
      opening == <<Inst("alloca", slot, << >>, << >>), Inst("load", V(id + 1), <<x>>, << >>),
                   Inst("store", NoValue, <<slot, V(id + 1)>>, << >>)>>
      redirected(inst) ==
        IF inst.op \in {"load", "store"} /\ inst.args[1] = x
        THEN [inst EXCEPT !.args[1] = slot] ELSE inst
      closing(b) ==
        IF Written(f, x) /\ Last(f.blocks[b]).op = "ret"
        THEN <<Inst("load", V(id + 2 + b), <<slot>>, << >>),
               Inst("store", NoValue, <<x, V(id + 2 + b)>>, << >>)>>
        ELSE << >>
      body(b) == [i \in DOMAIN f.blocks[b] |-> redirected(f.blocks[b][i])]
      closed(b) == IF closing(b) = << >> THEN body(b)
                   ELSE Front(body(b)) \o closing(b) \o <<Last(body(b))>>
  IN  [f EXCEPT !.blocks = [b \in Blocks(f) |->
         IF b = EntryOf(f) THEN opening \o closed(b) ELSE closed(b)]]

-----------------------------------------------------------------------------
(* The inliner on memory form. *)

\* is_inline_safe: every operand can be cloned in one sweep over the blocks.
InlineSafe(f) ==
  \A b \in Blocks(f) :
    /\ Terminated(f, b)
    /\ \A i \in DOMAIN f.blocks[b] :
         /\ f.blocks[b][i].op \notin {"phi", "call"}
         /\ \A v \in ToSet(f.blocks[b][i].args) :
              IsInst(v) => LET d == DefSite(f, v)
                           IN  At(f, d).op = "alloca" \/ (d[1] = b /\ d[2] < i)

InlineLimit == 100

InLoop(f, b) ==
  LET grown[n \in Nat] ==
        IF n = 0 THEN Succs(f, b)
        ELSE Given(grown[n - 1], LAMBDA before :
               before \cup UNION {Succs(f, c) : c \in before})
  IN  b \in grown[Len(f.order)]

\* inline_one: calls of other functions that call nothing; in main only calls
\* that are made in a loop.
Inlinable(m, f) ==
  {s \in SitesWith(f, {"call"}) :
     LET callee == FunctionNamed(m, At(f, s).to[1])
     IN  /\ callee.name # f.name
         /\ ~callee.void
         /\ Callees(callee) = {}
         /\ Size(callee) <= InlineLimit
         /\ InlineSafe(callee)
         /\ f.name = "main" => InLoop(f, s[1])}

\* inline_call: the callee's variables go to the entry, its blocks behind those
\* of the caller, the rest of the block behind the call to a block of its own.
\* The value returned goes through a slot.
InlineCall(f, s, callee, id) ==
  LET call == At(f, s)
      position(b) == CHOOSE i \in DOMAIN callee.order : callee.order[i] = b
      blockOf == [b \in Blocks(callee) |-> f.next - 1 + position(b)]
      cont == f.next + Len(callee.order)
      slot == V(id)
      clone(v) == CASE v[1] = "arg" -> call.args[v[2]]
                    [] IsInst(v) -> V(id + 2 + v[2])
                    [] OTHER -> v
      cloned(inst) ==
        Inst(inst.op, IF inst.res = NoValue THEN NoValue ELSE clone(inst.res),
             [k \in DOMAIN inst.args |-> clone(inst.args[k])],
             IF inst.op \in {"br", "condbr"}
             THEN [k \in DOMAIN inst.to |-> blockOf[inst.to[k]]] ELSE inst.to)
      body(b) ==
        LET block == callee.blocks[b]
            rest == Picked(block, {i \in DOMAIN block : block[i].op \notin {"alloca", "ret"}})
            copy == [i \in DOMAIN rest |-> cloned(rest[i])]
        IN  IF Last(block).op = "ret"
            THEN copy \o <<Inst("store", NoValue, <<slot, clone(Last(block).args[1])>>, << >>),
                           Br(cont)>>
            ELSE copy
      slots == [i \in DOMAIN Slots(callee) |->
                  Inst("alloca", clone(Slots(callee)[i].res), << >>, << >>)]
      site == f.blocks[s[1]]
      pieces ==
        [b \in Blocks(f) \cup {blockOf[c] : c \in Blocks(callee)} \cup {cont} |->
           CASE b = s[1] -> SubSeq(site, 1, s[2] - 1) \o <<Br(blockOf[EntryOf(callee)])>>
             [] b = cont -> <<Inst("load", V(id + 1), <<slot>>, << >>)>>
                            \o SubSeq(site, s[2] + 1, Len(site))
             [] b \in Blocks(f) \ {s[1]} -> f.blocks[b]
             [] OTHER -> body(CHOOSE c \in Blocks(callee) : blockOf[c] = b)]
      joined == [f EXCEPT
        !.order = @ \o [i \in DOMAIN callee.order |-> f.next - 1 + i] \o <<cont>>,
        !.next = cont + 1,
        !.blocks = [pieces EXCEPT ![EntryOf(f)] =
                      <<Inst("alloca", slot, << >>, << >>)>> \o Reverse(slots) \o @]]
  IN  ReplaceUses(joined, call.res, V(id + 1))

-----------------------------------------------------------------------------
(* mem2reg in one step: Mem2Reg has the pass itself. *)

\* c is where the dominance of b ends; avoidable is Avoidable(f).
InFrontier(f, avoidable, b, c) ==
  /\ \E p \in PredsOf(f, c) : p \notin avoidable[b]
  /\ b = c \/ c \in avoidable[b]

\* Blocks with a phi for the variable x.
JoinsOf(f, avoidable, stores) ==
  LET joins[n \in Nat] ==
        IF n = 0 THEN {}
        ELSE LET before == joins[n - 1]
             IN  {c \in Blocks(f) : \E b \in stores \cup before : InFrontier(f, avoidable, b, c)}
  IN  joins[Len(f.order)]

ImmediateDominator(f, avoidable, b) ==
  CHOOSE d \in Blocks(f) \ {b} :
    /\ b \notin avoidable[d]
    /\ \A c \in Blocks(f) \ {b} : b \notin avoidable[c] => d \notin avoidable[c]

\* The loads of v from a variable: none or one.
LoadsOf(f, plan, v) ==
  {d \in Sites(f) : At(f, d).res = v /\ At(f, d).op = "load" /\ At(f, d).args[1] \in plan.slots}

\* What a variable holds before instruction i of block b.  The plan has the
\* slots, the blocks with phis for each, the names of the phis, and the
\* dominator tree.
HeldBefore(f, plan) ==
  LET held[p \in plan.slots \X Blocks(f) \X Nat] ==
        LET x == p[1]
            b == p[2]
            stores == {j \in 1 .. p[3] - 1 : /\ f.blocks[b][j].op = "store"
                                             /\ f.blocks[b][j].args[1] = x}
            stored == f.blocks[b][Max(stores)].args[2]
            load == CHOOSE d \in LoadsOf(f, plan, stored) : TRUE
        IN  IF stores # {}
            THEN IF LoadsOf(f, plan, stored) = {} THEN stored
                 ELSE held[<<At(f, load).args[1], load[1], load[2]>>]
            ELSE IF b \in plan.joins[x] THEN plan.phi[<<x, b>>]
            ELSE IF b = EntryOf(f) THEN Const(0)
            ELSE held[<<x, plan.idom[b], Len(f.blocks[plan.idom[b]]) + 1>>]
  IN  held

\* What a value stands for: a loaded one for what the variable holds.
Meant(f, plan, held, v) ==
  IF LoadsOf(f, plan, v) = {} THEN v
  ELSE LET load == CHOOSE d \in LoadsOf(f, plan, v) : TRUE
       IN  held[<<At(f, load).args[1], load[1], load[2]>>]

PlanOf(f, id, avoidable) ==
  LET slots == [k \in DOMAIN Slots(f) |-> Slots(f)[k].res]
      stores(x) == {s[1] : s \in {t \in AccessesOf(f, x) : At(f, t).op = "store"}}
  IN  [slots |-> ToSet(slots),
       joins |-> [x \in ToSet(slots) |-> JoinsOf(f, avoidable, stores(x))],
       phi |-> [p \in ToSet(slots) \X Blocks(f) |->
                  V(id + f.next * (CHOOSE k \in DOMAIN slots : slots[k] = p[1]) + p[2])],
       idom |-> [b \in Blocks(f) \ {EntryOf(f)} |-> ImmediateDominator(f, avoidable, b)]]

Promoted(f, plan) ==
  LET local(inst) == \/ inst.op = "alloca"
                     \/ inst.op \in {"load", "store"} /\ inst.args[1] \in plan.slots
      held == HeldBefore(f, plan)
      slots == Reverse(Slots(f))
      phis(b) ==
        LET chosen == Picked(slots, {i \in DOMAIN slots : b \in plan.joins[slots[i].res]})
            preds == Picked(f.order, {i \in DOMAIN f.order : f.order[i] \in PredsOf(f, b)})
        IN  [k \in DOMAIN chosen |->
               Inst("phi", plan.phi[<<chosen[k].res, b>>],
                    [j \in DOMAIN preds |->
                       held[<<chosen[k].res, preds[j], Len(f.blocks[preds[j]]) + 1>>]],
                    preds)]
      kept(b) ==
        LET block == f.blocks[b]
            rest == Picked(block, {i \in DOMAIN block : ~local(block[i])})
        IN  [i \in DOMAIN rest |->
               [rest[i] EXCEPT !.args = [k \in DOMAIN @ |-> Meant(f, plan, held, @[k])]]]
  IN  [f EXCEPT !.blocks = [b \in Blocks(f) |-> phis(b) \o kept(b)]]

Promote(f, id) ==
  Given(Given(Avoidable(f), LAMBDA avoidable : PlanOf(f, id, avoidable)),
        LAMBDA plan : Promoted(f, plan))

-----------------------------------------------------------------------------
(* limited_inline *)

StraightLimit == 12

\* One block of at most twelve computations and a return.
Straight(f) ==
  /\ Len(f.order) = 1
  /\ LET block == f.blocks[EntryOf(f)]
     IN  /\ Len(block) \in 1 .. StraightLimit
         /\ Last(block).op = "ret"
         /\ \A i \in DOMAIN block :
              block[i].op \in (Binary \ {"and"}) \cup Unary \cup {"ret"}

\* Calls that may still be replaced when the module has grown by so much; the
\* budget is its size at the start.
StraightCalls(m, f, inserted, budget) ==
  {s \in SitesWith(f, {"call"}) :
     LET callee == FunctionNamed(m, At(f, s).to[1])
     IN  /\ f.name # "main"
         /\ callee.name # f.name
         /\ Straight(callee)
         /\ inserted + Size(callee) - 1 <= budget}

InlineStraight(f, s, callee, id) ==
  LET call == At(f, s)
      body == callee.blocks[EntryOf(callee)]
      site == f.blocks[s[1]]
      clone(v) == CASE v[1] = "arg" -> call.args[v[2]]
                    [] IsInst(v) -> V(id + v[2])
                    [] OTHER -> v
      cloned == [i \in DOMAIN Front(body) |->
                   Inst(body[i].op, clone(body[i].res),
                        [k \in DOMAIN body[i].args |-> clone(body[i].args[k])], body[i].to)]
      spliced == [f EXCEPT !.blocks[s[1]] =
                    SubSeq(site, 1, s[2] - 1) \o cloned \o SubSeq(site, s[2] + 1, Len(site))]
  IN  IF call.res = NoValue THEN spliced
      ELSE ReplaceUses(spliced, call.res, clone(Last(body).args[1]))

-----------------------------------------------------------------------------
(* eliminate_tail_recursion *)

\* Blocks that end in a call of the function itself and the return of what it
\* returns.
TailBlocks(f) ==
  {b \in Blocks(f) :
     LET n == Len(f.blocks[b])
         call == f.blocks[b][n - 1]
         ret == f.blocks[b][n]
     IN  /\ n >= 2
         /\ ret.op = "ret" /\ call.op = "call"
         /\ call.to = <<f.name>>
         /\ IF f.void THEN ret.args = << >>
            ELSE ret.args = <<call.res>> /\ Cardinality(Uses(f, call.res)) = 1}

\* The parameters become phis at the head of the old entry, which the tail calls
\* jump to, behind a new entry.
EliminateTailRecursion(f, id) ==
  LET header == EntryOf(f)
      sites == Picked(f.order, {i \in DOMAIN f.order : f.order[i] \in TailBlocks(f)})
      phi(i) == V(id + i)
      reads(v) == IF v[1] = "arg" THEN phi(v[2]) ELSE v
      redirected(inst) == [inst EXCEPT !.args = [k \in DOMAIN @ |-> reads(@[k])]]
      body(b) == [i \in DOMAIN f.blocks[b] |-> redirected(f.blocks[b][i])]
      call(b) == body(b)[Len(body(b)) - 1]
      phis == [i \in DOMAIN f.params |->
                 Inst("phi", phi(i), <<Arg(i)>> \o [k \in DOMAIN sites |-> call(sites[k]).args[i]],
                      <<f.next>> \o sites)]
      jumping(b) == IF b \in TailBlocks(f) THEN SubSeq(body(b), 1, Len(body(b)) - 2) \o <<Br(header)>>
                    ELSE body(b)
  IN  [f EXCEPT
        !.order = <<f.next>> \o @,
        !.next = @ + 1,
        !.blocks = [b \in Blocks(f) \cup {f.next} |->
           CASE b = f.next -> <<Br(header)>>
             [] b = header -> Reverse(phis) \o jumping(b)
             [] OTHER -> jumping(b)]]
=============================================================================
