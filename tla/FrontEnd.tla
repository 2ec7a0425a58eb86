------------------------------ MODULE FrontEnd ------------------------------
(***************************************************************************)
(* A text is parsed and goes through semantic analysis and IR generation   *)
(* (run_compiler and build_ir in src/src/driver/compiler.cpp).  Then its   *)
(* last function runs twice with the same arguments in the same            *)
(* environment: as ToyC says it should, and as the IR that was generated   *)
(* for it.                                                                 *)
(***************************************************************************)
EXTENDS Parser, Grammar, IRGen, ToyC

CONSTANTS
  Units,   \* compilation units; each ends with the function that runs
  Others,  \* texts that are not written as a unit should be
  Answers  \* what calls, reads of global variables and arguments may yield

VARIABLES
  text,    \* until it has been read: the symbols, and the unit they should mean
  unit,
  stage,
  sema,    \* the result of semantic analysis, until the IR is generated
  blocks,  \* the IR
  pc,      \* <<block, index>> in it
  held,    \* IR value or slot -> number
  turn     \* who takes the next silent step, "source" or "ir"

compileVars == <<text, unit, stage, sema, blocks>>
irVars == <<pc, held>>
vars == <<compileVars, irVars, turn, sourceVars>>

Func == Last(unit)
IR == [blocks |-> blocks]

-----------------------------------------------------------------------------
(* run_compiler and build_ir *)

\* A number that does not fit ends the compiler with an exception.
Read ==
  /\ stage = "text"
  /\ \E s \in {Parse(text.symbols)} :
       /\ unit' = IF s.ok /\ s.fits THEN s.tree ELSE << >>
       /\ stage' = IF ~s.fits THEN "aborted" ELSE IF s.ok THEN "parsed" ELSE "unreadable"
  /\ UNCHANGED <<text, sema, blocks, irVars, turn, sourceVars>>

Analyse ==
  /\ stage = "parsed"
  /\ text' = << >>
  /\ sema' = Analyze(unit)
  /\ stage' = IF sema'.trapped THEN "trapped" ELSE IF sema'.ok THEN "accepted" ELSE "rejected"
  /\ UNCHANGED <<unit, blocks, irVars, turn, sourceVars>>

GenerateIR ==
  /\ stage = "accepted"
  /\ \E g \in {Generate(unit, sema)} :
       blocks' = g.blocks /\ stage' = IF g.ok THEN "generated" ELSE "failed"
  /\ sema' = << >>
  /\ UNCHANGED <<text, unit, irVars, turn, sourceVars>>

-----------------------------------------------------------------------------
(* The IR runs. *)

NextInst == blocks[pc[1]][pc[2]]
IRAtOpenEnd == pc[2] > Len(blocks[pc[1]])

IsLocation(v) == v[1] = "global"
IRAtEvent ==
  ~IRAtOpenEnd =>
    \/ NextInst.op \in {"call", "ret"}
    \/ NextInst.op \in {"load", "set"} /\ IsLocation(NextInst.args[1])

Number(v) == IF v[1] = "const" THEN v[2] ELSE held[v]
Numbers(args) == [i \in DOMAIN args |-> Number(args[i])]

IREvent ==
  IF IRAtOpenEnd THEN <<"end">>
  ELSE LET args == NextInst.args
       IN  CASE NextInst.op = "call" -> <<"call", args[1][2]>> \o Numbers(Tail(args))
             [] NextInst.op = "load" -> <<"read", args[1][2]>>
             [] NextInst.op = "set" -> <<"write", args[1][2], Number(args[2])>>
             [] NextInst.op = "ret" -> <<"return">> \o Numbers(args)

NextAfter(values) == held' = values @@ held /\ pc' = <<pc[1], pc[2] + 1>>

Comparisons == {"eq", "ne", "lt", "gt", "le", "ge"}

IRCompute ==
  /\ NextInst.op \in {"load", "neg", "add", "sub", "mul", "div", "rem"} \cup Comparisons
  /\ LET n == Numbers(NextInst.args)
         result == CASE NextInst.op = "load" -> n[1]
                     [] NextInst.op = "neg" -> Wrap(-n[1])
                     [] OTHER -> Evaluate(NextInst.op, n[1], n[2])
     IN  NextAfter(NextInst.res :> result)

IRStore == NextInst.op = "set" /\ NextAfter(NextInst.args[1] :> Number(NextInst.args[2]))
IRAlloca == NextInst.op = "alloca" /\ NextAfter(<< >>)
IRBranch ==
  /\ NextInst.op \in {"br", "condbr"}
  /\ pc' = <<IF NextInst.op = "condbr" /\ Number(NextInst.args[1]) = 0
             THEN NextInst.to[2] ELSE NextInst.to[1], 1>>
  /\ UNCHANGED held

-----------------------------------------------------------------------------
(* Both run: silently one step each, and over an event together. *)

\* The function is called: constants of the unit are declared around a block of
\* the parameters around its body.
Call(given) ==
  /\ LET consts == SelectSeq([i \in DOMAIN unit |-> <<"stmt", unit[i], <<i>>>>],
                             LAMBDA entry : entry[2].kind = "const")
         params == [i \in DOMAIN Func.params |-> VarDecl(Func.params[i], IntLiteral(given[i]))]
     IN  todo' = consts \o << <<"stmt", Block(params \o <<Block(Func.body)>>), <<Len(unit)>> >> >>
  /\ env' = << [x \in {item.name : item \in {i \in ToSet(unit) : i.kind = "var"}} |-> << >>] >>
  /\ pc' = <<Entry, 1>>
  /\ held' = [v \in Results(IR) \cup {Argument(i) : i \in DOMAIN given} |->
                IF v[1] = "arg" THEN given[v[2]] ELSE 0]
  /\ stage' = "running"
  /\ UNCHANGED <<text, unit, sema, blocks, turn, operands, store>>

Running == stage = "running" /\ ~Undefined

SourceMoves ==
  /\ Running
  /\ ~SourceAtEvent
  /\ turn = "source" \/ IRAtEvent
  /\ SourceStep
  /\ turn' = "ir"
  /\ UNCHANGED <<compileVars, irVars>>

IRMoves ==
  /\ Running
  /\ ~IRAtEvent
  /\ turn = "ir" \/ SourceAtEvent
  /\ IRCompute \/ IRStore \/ IRAlloca \/ IRBranch
  /\ turn' = "source"
  /\ UNCHANGED <<compileVars, sourceVars>>

BothAtEvent == Running /\ SourceAtEvent /\ IRAtEvent

Answer(result) ==
  /\ BothAtEvent
  /\ SourceEvent[1] \in {"call", "read", "write"}
  /\ SourceGoesOn(result)
  /\ IF NextInst.res = NoValue THEN NextAfter(<< >>) ELSE NextAfter(NextInst.res :> result)
  /\ UNCHANGED <<compileVars, turn>>

Over ==
  /\ \/ stage \in {"unreadable", "aborted", "trapped", "rejected", "failed"}
     \/ BothAtEvent /\ SourceEvent[1] \in {"return", "end"}
     \/ stage = "running" /\ Undefined
  /\ UNCHANGED vars

-----------------------------------------------------------------------------

Init ==
  /\ text \in {[symbols |-> Spelled(Written(u)), of |-> u] : u \in Units}
               \cup {[symbols |-> other, of |-> << >>] : other \in Others}
  /\ unit = << >>
  /\ stage = "text"
  /\ sema = << >>
  /\ blocks = << >>
  /\ pc = <<Entry, 1>>
  /\ held = << >>
  /\ turn = "source"
  /\ todo = << >>
  /\ operands = << >>
  /\ env = << >>
  /\ store = << >>

Next ==
  \/ Read \/ Analyse \/ GenerateIR
  \/ stage = "generated" /\ \E given \in [DOMAIN Func.params -> Answers] : Call(given)
  \/ SourceMoves \/ IRMoves
  \/ \E result \in Answers : Answer(result)
  \/ Over

Spec == Init /\ [][Next]_vars /\ WF_vars(SourceMoves) /\ WF_vars(IRMoves)

-----------------------------------------------------------------------------

\* The IR gives each value number once, uses only those, and its jumps stay in
\* the function; while both run, numbers are numbers and names have places.
TypeOK ==
  /\ stage \in {"text", "unreadable", "aborted", "parsed", "accepted", "rejected", "trapped",
               "failed", "generated", "running"}
  /\ stage = "generated" =>
       /\ \A b \in DOMAIN blocks : Succs(IR, b) \subseteq DOMAIN blocks
       /\ \A s, t \in Sites(IR) : At(IR, s).res = At(IR, t).res => s = t \/ At(IR, s).res = NoValue
       /\ \A s \in Sites(IR) : \A arg \in ToSet(At(IR, s).args) :
            arg \in Results(IR) \/ arg[1] \in {"const", "arg", "global"}
  /\ stage = "running" => /\ pc[1] \in DOMAIN blocks
                          /\ \A v \in DOMAIN held : held[v] \in Word
                          /\ \A i \in DOMAIN env : \A x \in DOMAIN env[i] :
                               env[i][x] \in DOMAIN store \cup {<< >>}

\* What is read is the tree that the text is the writing of, and a text that is
\* the writing of a tree is read: precedence, grouping to the left, the else of
\* the last if, a minus that is a sign and one that is not, and expressions that
\* begin a statement like those anywhere else.  Other texts may have more
\* parentheses than it takes, and nothing else.
Bare(tokens) == SelectSeq(tokens, LAMBDA token : token[1] \notin {"(", ")"})
ReadAsWritten ==
  LET tokens == Tokens(text.symbols)
      written == Written(unit) \o Mark("eof")
  IN  /\ stage = "parsed" =>
           \/ unit = text.of
           \/ text.of = << >> /\ tokens = written
           \/ text.of = << >> /\ Len(tokens) > Len(written) /\ Bare(tokens) = Bare(written)
      /\ stage = "unreadable" => text.of = << >>

\* Whenever both stand at a call, an access to a global variable or the end,
\* it is the same one, with the same operands: scopes, shadowing, constants,
\* short circuits, branches and jumps mean in the IR what they mean in ToyC.
SameEvents == BothAtEvent => SourceEvent = IREvent

\* Neither runs on silently while the other waits at an event.
NeitherLeftBehind ==
  (Running /\ (SourceAtEvent \/ IRAtEvent)) ~> (BothAtEvent \/ ~Running)

\* An int function that semantic analysis accepts returns: no path leads to the
\* end of its body.
NeverFallsOff == Running /\ AtEnd => Func.ret = "void"

\* What a statement is made of, and which scopes are open around one part: inner
\* ones open with a block, and declarations are in the scope they stand in.
Parts(s) ==
  CASE s.kind = "block" -> s.body [] s.kind = "if" -> s.branches [] s.kind = "while" -> <<s.body>>
    [] OTHER -> << >>
RECURSIVE Behind(_, _)
Behind(scopes, s) ==
  CASE s.kind \in {"const", "var"} ->
         LET value == IF s.kind = "const" THEN ConstValue(scopes, s.expr) ELSE << >>
         IN  Append(Front(scopes), (s.name :> Object(s.kind, << >>, value)) @@ Last(scopes))
    [] s.kind \in {"if", "while"} -> FoldLeft(Behind, scopes, Parts(s))
    [] OTHER -> scopes
Before(scopes, s, i) ==
  FoldLeft(Behind, IF s.kind = "block" THEN Append(scopes, << >>) ELSE scopes,
           SubSeq(Parts(s), 1, i - 1))

\* Statements that return on every path, loops without end among them.
RECURSIVE AlwaysReturns(_, _)
AlwaysReturns(scopes, s) ==
  LET part(i) == AlwaysReturns(Before(scopes, s, i), Parts(s)[i])
  IN  CASE s.kind = "return" -> TRUE
        [] s.kind = "block" -> \E i \in DOMAIN s.body : part(i)
        [] s.kind = "if" -> part(1) /\ Len(s.branches) = 2 /\ part(2)
        [] s.kind = "while" -> Endless(scopes, s) /\ part(1) /\ ~Breaks(s.body)
        [] OTHER -> FALSE

\* The statements in s, each with its scopes, and loops among them that return.
RECURSIVE Within(_, _)
Within(scopes, s) ==
  {<<scopes, s>>} \cup UNION {Within(Before(scopes, s, i), Parts(s)[i]) : i \in DOMAIN Parts(s)}
HasReturningLoop(scopes, s) ==
  \E w \in Within(scopes, s) : w[2].kind = "while" /\ AlwaysReturns(w[1], w[2])

\* The scopes around the body of function number n of the unit.
Outside(n) ==
  Append(FoldLeft(Behind, << << >> >>, SubSeq(unit, 1, n - 1)),
         [x \in ToSet(unit[n].params) |-> Object("param", << >>, << >>)])

\* A statement that is not the last of its block always returns: semantic
\* analysis goes no further in that block.
Early(scopes, block) ==
  {i \in 1 .. Len(block.body) - 1 : AlwaysReturns(Before(scopes, block, i), block.body[i])}
ReturnsEarly(n) == Early(Outside(n), Block(unit[n].body)) # {}

\* The same in a block further inside, and the exit of a loop stays open there.
LoopReturnsEarly(n) ==
  \E w \in Within(Outside(n), Block(unit[n].body)) :
    /\ w[2].kind = "block"
    /\ \E i \in Early(w[1], w[2]) : HasReturningLoop(Before(w[1], w[2], i), w[2].body[i])

\* A unit that is accepted is generated, except that IRGenerator goes on where
\* semantic analysis stops: in the outermost block behind a statement that always
\* returns, in every block behind an endless loop that returns, whose exit takes
\* the statements no path reaches.
FailsOnlyOnDeadCode ==
  stage = "failed" =>
    \E n \in DOMAIN unit : unit[n].kind = "func" /\ (ReturnsEarly(n) \/ LoopReturnsEarly(n))

\* A unit that semantic analysis accepts is generated: to IRGenerator a missing
\* symbol is a state that cannot be reached.
AcceptedIsGenerated == stage # "failed"

\* What mem2reg and code generation rely on: nothing stands behind a jump in its
\* block, every block is reachable, whatever was skipped, and an int function
\* has no open block, but for the exit of an endless loop that returns.
WellFormed ==
  stage = "generated" /\ ~ReturnsEarly(Len(unit)) =>
    /\ \A s \in Sites(IR) : At(IR, s).op \in {"br", "condbr", "ret"} => s[2] = Len(blocks[s[1]])
    /\ DOMAIN blocks \ {Entry} \subseteq ReachedFrom(IR, Entry)
    /\ Func.ret = "int" /\ ~HasReturningLoop(Outside(Len(unit)), Block(Func.body)) =>
         \A b \in DOMAIN blocks : Terminated(IR, b)
=============================================================================
