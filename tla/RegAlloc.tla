------------------------------ MODULE RegAlloc ------------------------------
(***************************************************************************)
(* The register allocator of the RISC-V back end                           *)
(* (src/src/codegen/codegen.cpp, -opt only), run in the order of the       *)
(* FunctionLowerer constructor:                                            *)
(*                                                                         *)
(*   plan_global_registers  liveness, interference graph, and a greedy     *)
(*                          colouring in order of priority                 *)
(*   plan_local_registers   a linear scan of each block that hands t3-t6   *)
(*                          to values the colouring left without register  *)
(*   plan_loop_constants    the registers of t3-t6 nobody has, for the     *)
(*                          constants read in loops                        *)
(*                                                                         *)
(* The three share the map value_regs_ (here regOf) and nothing else.      *)
(***************************************************************************)
EXTENDS Liveness, FiniteSetsExt

CONSTANTS
  TRegs,  \* t3-t6: caller-saved, the first choice; a sequence of registers
  ARegs,  \* a0-a7: the argument registers, in order
  SRegs,  \* s1-s11: callee-saved
  NoReg

ASSUME RegisterSequences ==
  \A regs \in {TRegs, ARegs, SRegs} : regs \in Seq(ToSet(regs))

ASSUME ParamsInOrder ==
  \A f \in Functions : f.params \in Seq(ToSet(f.params))

ASSUME LiteralsAreNoValues ==
  \A f \in Functions : Literals \cap (SsaValues(f) \cup {NoValue}) = {}

ASSUME RegistersApart ==
  /\ IsInjective(TRegs \o ARegs \o SRegs)
  /\ NoReg \notin ToSet(TRegs \o ARegs \o SRegs)

Registers == ToSet(TRegs \o ARegs \o SRegs)
CallerSaved == ToSet(TRegs \o ARegs)

VARIABLES
  graph,       \* interference graph: the neighbours of each candidate
  crossing,    \* candidates live across a call
  priority,    \* of each candidate: the colouring takes the highest first
  regOf,       \* the register of each value and literal, or NoReg
  uncoloured,  \* candidates the colouring has not reached
  scan,        \* the site the local scan looks at next; <<0, 0>> when over
  active       \* values of the scanned block that the scan gave a register

allocVars == <<graph, crossing, priority, regOf, uncoloured, scan, active>>

IndexOf(seq, x) == CHOOSE i \in DOMAIN seq : seq[i] = x

-----------------------------------------------------------------------------
(* plan_global_registers: the interference graph and the order. *)

\* slip: every operand joins the live set, allocatable or not
LiveAfterAny(b, i) ==
  liveOut[b] \cup UNION {ToSet(fn.blocks[b][k].args) : k \in i + 1 .. Len(fn.blocks[b])}

\* Live just after instruction i of block b (0: at its head): read further down
\* before being defined there, or live at the end and not defined on the way.  A
\* phi ends the range of its result and reads nothing.
LiveAfter(b, i) ==
  LET insts == fn.blocks[b]
      undefinedTo(v, k) == \A j \in i + 1 .. k : insts[j].res # v
  IN  {v \in Candidates(fn) :
         \/ v \in liveOut[b] /\ undefinedTo(v, Len(insts))
         \/ \E k \in i + 1 .. Len(insts) :
              insts[k].op # "phi" /\ v \in ToSet(insts[k].args) /\ undefinedTo(v, k - 1)}

\* The sets of values the graph joins pairwise: live at one point of a block,
\* or live where another is defined.
Cliques ==
  {LiveAfter(b, 0) : b \in Blocks(fn)} \cup
  {LiveAfter(s[1], s[2]) \cup ({At(fn, s).res} \cap Candidates(fn)) : s \in Sites(fn)}

\* A use in a block that can reach itself counts for sixteen, and so does the
\* definition; parameters and phis have a bonus.
Priority(v, cyclic) ==
  LET weight(b) == IF b \in cyclic THEN 16 ELSE 1
      uses == Cardinality(Uses(fn, v))
              + 15 * Cardinality({u \in Uses(fn, v) : u[1][1] \in cyclic})
      definition == IF v \in Params(fn) THEN 0 ELSE weight(DefSite(fn, v)[1])
      bonus == IF v \in Params(fn) THEN 500
               ELSE IF At(fn, DefSite(fn, v)).op = "phi" THEN 100 ELSE 0
  IN  10 * (uses + definition) + bonus

BuildGraph ==
  /\ stage = "interference"
  /\ LET cliques == Cliques
     IN  graph' = [v \in Candidates(fn) |->
                     (UNION {c \in cliques : v \in c}) \ {v}]
  /\ crossing' = UNION {LiveAfter(s[1], s[2]) \ {At(fn, s).res} :
                          s \in {t \in Sites(fn) : At(fn, t).op = "call"}}
  /\ LET cyclic == {b \in Blocks(fn) : Cyclic(fn, b)}
     IN  priority' = [v \in Candidates(fn) |-> Priority(v, cyclic)]
  /\ stage' = "colouring"
  /\ UNCHANGED <<fn, liveIn, liveOut, block, changed,
                 regOf, uncoloured, scan, active>>

-----------------------------------------------------------------------------
(* plan_global_registers: colouring. *)

\* Higher priority first, then the larger neighbourhood.  The code breaks the
\* ties that are left by the numbers of the values; here any may come first.
Before(u, v) ==
  \/ priority[u] > priority[v]
  \/ /\ priority[u] = priority[v]
     /\ Cardinality(graph[u]) > Cardinality(graph[v])

\* slip: values live across calls are like all others
PreferencesAnywhere(v) == TRegs \o ARegs \o SRegs

\* The registers a value may have, in order of preference.
Preferences(v) ==
  LET own == IF v \in Params(fn) /\ IndexOf(fn.params, v) <= Len(ARegs)
             THEN <<ARegs[IndexOf(fn.params, v)]>> ELSE <<>>
  IN  IF v \in crossing THEN SRegs ELSE own \o TRegs \o ARegs \o SRegs

\* slip: falls back to the first register when none is free
FirstFreeOrFirst(seq, taken) ==
  IF ToSet(seq) \subseteq taken THEN seq[1]
  ELSE seq[Min({i \in DOMAIN seq : seq[i] \notin taken})]

FirstFree(seq, taken) ==
  IF ToSet(seq) \subseteq taken THEN NoReg
  ELSE seq[Min({i \in DOMAIN seq : seq[i] \notin taken})]

Colour(v) ==
  /\ stage = "colouring"
  /\ v \in uncoloured
  /\ \A u \in uncoloured : ~Before(u, v)
  /\ regOf' = [regOf EXCEPT ![v] =
                 FirstFree(Preferences(v), {regOf[u] : u \in graph[v]})]
  /\ uncoloured' = uncoloured \ {v}
  /\ UNCHANGED <<livenessVars, graph, crossing, priority, scan, active>>

ColouringDone ==
  /\ stage = "colouring"
  /\ uncoloured = {}
  /\ stage' = "scanning"
  /\ UNCHANGED <<fn, liveIn, liveOut, block, changed, allocVars>>

-----------------------------------------------------------------------------
(* plan_local_registers: the scan of each block. *)

\* is_register_candidate: the results of calls, phis and masks are not.
ScanCandidate(s) ==
  At(fn, s).op \in {"arith", "icmp", "load"} /\ ~DirectCondition(fn, s)

\* The last use, when every use is further down the same block.
LocalUses(s) == {u[1] : u \in Uses(fn, At(fn, s).res)}
LastUse(s) == Max({u[2] : u \in LocalUses(s)})

Eligible(s) ==
  /\ ScanCandidate(s)
  /\ regOf[At(fn, s).res] = NoReg
  /\ LocalUses(s) # {}
  /\ \A u \in LocalUses(s) : u[1] = s[1] /\ u[2] > s[2]
  /\ \A i \in s[2] + 1 .. LastUse(s) : fn.blocks[s[1]][i].op # "call"

SitesAfter(s) ==
  {t \in Sites(fn) : t[1] > s[1] \/ (t[1] = s[1] /\ t[2] > s[2])}
NextSite(s) ==
  IF SitesAfter(s) = {} THEN <<0, 0>>
  ELSE CHOOSE t \in SitesAfter(s) : SitesAfter(t) = SitesAfter(s) \ {t}

\* The scan knows the registers it handed out in this block itself, not those
\* of the colouring.
ScanSite ==
  /\ stage = "scanning"
  /\ scan \in Sites(fn)
  /\ LET live == {v \in active : DefSite(fn, v)[1] = scan[1]
                                 /\ LastUse(DefSite(fn, v)) >= scan[2]}
         reg  == FirstFree(TRegs, {regOf[v] : v \in live})
         v    == At(fn, scan).res
     IN  IF Eligible(scan) /\ reg # NoReg
         THEN /\ regOf' = [regOf EXCEPT ![v] = reg]
              /\ active' = live \cup {v}
         ELSE active' = live /\ UNCHANGED regOf
  /\ scan' = NextSite(scan)
  /\ UNCHANGED <<livenessVars, graph, crossing, priority, uncoloured>>

ScanDone ==
  /\ stage = "scanning"
  /\ scan \notin Sites(fn)
  /\ stage' = "caching"
  /\ UNCHANGED <<fn, liveIn, liveOut, block, changed, allocVars>>

-----------------------------------------------------------------------------
(* plan_loop_constants. *)

\* Constants read in a block that can reach itself, in a function that does not
\* call.  The code leaves out zero and the immediate operands of additions and
\* subtractions: the constants that stand in Literals are the other ones.
HotLiterals ==
  IF \E s \in Sites(fn) : At(fn, s).op = "call" THEN {}
  ELSE {c \in Literals : \E s \in Sites(fn) :
          Cyclic(fn, s[1]) /\ At(fn, s).op # "phi" /\ c \in ToSet(At(fn, s).args)}

\* slip: only registers of other constants count as used
CacheLiteralOver(c) ==
  /\ stage = "caching"
  /\ c \in HotLiterals
  /\ regOf[c] = NoReg
  /\ LET reg == FirstFree(TRegs, {regOf[v] : v \in Literals})
     IN  /\ reg # NoReg
         /\ regOf' = [regOf EXCEPT ![c] = reg]
  /\ UNCHANGED <<livenessVars, graph, crossing, priority, uncoloured, scan, active>>

\* The hottest constant first; here any.
CacheLiteral(c) ==
  /\ stage = "caching"
  /\ c \in HotLiterals
  /\ regOf[c] = NoReg
  /\ LET reg == FirstFree(TRegs, {regOf[v] : v \in DOMAIN regOf})
     IN  /\ reg # NoReg
         /\ regOf' = [regOf EXCEPT ![c] = reg]
  /\ UNCHANGED <<livenessVars, graph, crossing, priority, uncoloured, scan, active>>

CachingDone ==
  /\ stage = "caching"
  /\ \A c \in HotLiterals :
       regOf[c] # NoReg \/ ToSet(TRegs) \subseteq {regOf[v] : v \in DOMAIN regOf}
  /\ stage' = "allocated"
  /\ UNCHANGED <<fn, liveIn, liveOut, block, changed, allocVars>>

-----------------------------------------------------------------------------

AllocInit ==
  /\ LivenessInit
  /\ graph = [v \in Candidates(fn) |-> {}]
  /\ crossing = {}
  /\ priority = [v \in Candidates(fn) |-> 0]
  /\ regOf = [v \in SsaValues(fn) \cup Literals |-> NoReg]
  /\ uncoloured = Candidates(fn)
  /\ scan = NextSite(<<0, 0>>)
  /\ active = {}

AllocNext ==
  \/ LivenessNext /\ UNCHANGED allocVars
  \/ BuildGraph
  \/ \E v \in uncoloured : Colour(v)
  \/ ColouringDone
  \/ ScanSite
  \/ ScanDone
  \/ \E c \in Literals : CacheLiteral(c)
  \/ CachingDone

AllocSpec == AllocInit /\ [][AllocNext]_<<livenessVars, allocVars>>

AllocTypeOK ==
  /\ LivenessTypeOK
  /\ graph \in [Candidates(fn) -> SUBSET Candidates(fn)]
  /\ crossing \subseteq Candidates(fn)
  /\ priority \in [Candidates(fn) -> Nat]
  /\ regOf \in [SsaValues(fn) \cup Literals -> Registers \cup {NoReg}]
  /\ uncoloured \subseteq Candidates(fn)
  /\ scan \in Sites(fn) \cup {<<0, 0>>}
  /\ active \subseteq Results(fn)

\* Values that are live at the same time never share a register, whichever of
\* the three passes gave it to them.
NeighboursApart ==
  \A u \in Candidates(fn) :
    \A v \in graph[u] : regOf[u] # NoReg => regOf[u] # regOf[v]

\* A cached constant has its register to itself in the whole function.
CachedLiteralsAlone ==
  \A c \in Literals : regOf[c] # NoReg =>
    \A v \in DOMAIN regOf \ {c} : regOf[v] # regOf[c]
=============================================================================
