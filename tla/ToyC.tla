-------------------------------- MODULE ToyC --------------------------------
(***************************************************************************)
(* What a ToyC function means: the reference that IR generation is checked *)
(* against.  The statements and expressions still to be executed stand on  *)
(* one stack, computed operands on another; a step executes the first      *)
(* entry.  Entries are <<"stmt", s, p>>, <<"expr", e, p>>, and what is to  *)
(* be done when operands are there:                                        *)
(*                                                                         *)
(*   <<"finish", s, p>>    the rest of a statement after its expression    *)
(*   <<"apply", e>>        an operator, or a call                          *)
(*   <<"truth">>           an operand becomes 0 or 1                       *)
(*   <<"leave">>           the end of a block                              *)
(*   <<"again", s, p, d>>  the end of a loop body; d scopes were open      *)
(*                                                                         *)
(* Other functions and global variables are the environment's.  Execution  *)
(* stops at each event that touches them, and goes on with the result.     *)
(***************************************************************************)
EXTENDS Ast, FiniteSets

VARIABLES
  todo,      \* stack of entries, first is next
  operands,  \* stack of values, last is newest
  env,       \* stack of scopes: name -> place
  store      \* place of a local variable -> value

sourceVars == <<todo, operands, env, store>>

Doing(what) == todo # << >> /\ todo[1][1] = what
Node == todo[1][2]
Path == todo[1][3]
Then(entries) == todo' = entries \o Tail(todo)

Newest == Last(operands)
Take(n) == SubSeq(operands, 1, Len(operands) - n)
NewestOf(n) == SubSeq(operands, Len(operands) - n + 1, Len(operands))

\* The place a name stands for here: the path of its declaration, empty for a
\* global variable, which is not in store.
Place(x) == env[Max({i \in DOMAIN env : x \in DOMAIN env[i]})][x]
IsGlobal(x) == Place(x) = << >>

-----------------------------------------------------------------------------
(* Statements. *)

RunBlock ==
  /\ Doing("stmt") /\ Node.kind = "block"
  /\ Then([i \in DOMAIN Node.body |-> <<"stmt", Node.body[i], Append(Path, i)>>]
          \o << <<"leave">> >>)
  /\ env' = Append(env, << >>)
  /\ UNCHANGED <<operands, store>>

LeaveBlock ==
  /\ Doing("leave")
  /\ Then(<< >>)
  /\ env' = Front(env)
  /\ UNCHANGED <<operands, store>>

RunEmpty ==
  /\ Doing("stmt") /\ Node.kind = "empty"
  /\ Then(<< >>)
  /\ UNCHANGED <<operands, env, store>>

\* The expression of a statement comes first.
RunExpr ==
  /\ Doing("stmt") /\ HasExpr(Node)
  /\ Then(<< <<"expr", Node.expr>>, <<"finish", Node, Path>> >>)
  /\ UNCHANGED <<operands, env, store>>

Finish(kinds) == Doing("finish") /\ Node.kind \in kinds
Finished(entries) == Then(entries) /\ operands' = Take(1)

FinishExpr == Finish({"expr"}) /\ Finished(<< >>) /\ UNCHANGED <<env, store>>

FinishAssign ==
  /\ Finish({"assign"}) /\ ~IsGlobal(Node.name)
  /\ Finished(<< >>)
  /\ store' = [store EXCEPT ![Place(Node.name)] = Newest]
  /\ UNCHANGED env

FinishDecl ==
  /\ Finish({"const", "var"})
  /\ Finished(<< >>)
  /\ env' = [env EXCEPT ![Len(env)] = (Node.name :> Path) @@ @]
  /\ store' = (Path :> Newest) @@ store

FinishIf ==
  /\ Finish({"if"})
  /\ LET branch == IF Newest # 0 THEN 1 ELSE 2
     IN  Finished(IF branch \in DOMAIN Node.branches
                  THEN << <<"stmt", Node.branches[branch], Append(Path, branch + 1)>> >>
                  ELSE << >>)
  /\ UNCHANGED <<env, store>>

FinishWhile ==
  /\ Finish({"while"})
  /\ Finished(IF Newest # 0
              THEN << <<"stmt", Node.body, Append(Path, 2)>>, <<"again", Node, Path, Len(env)>> >>
              ELSE << >>)
  /\ UNCHANGED <<env, store>>

RunAgain ==
  /\ Doing("again")
  /\ Then(<< <<"stmt", Node, Path>> >>)
  /\ UNCHANGED <<operands, env, store>>

\* break goes behind the innermost loop, continue to the end of its body; the
\* scopes opened inside are gone.
RunJump ==
  /\ Doing("stmt") /\ Node.kind \in {"break", "continue"}
  /\ LET loop == Min({i \in DOMAIN todo : todo[i][1] = "again"})
     IN  /\ todo' = SubSeq(todo, IF Node.kind = "break" THEN loop + 1 ELSE loop, Len(todo))
         /\ env' = SubSeq(env, 1, todo[loop][4])
  /\ UNCHANGED <<operands, store>>

-----------------------------------------------------------------------------
(* Expressions. *)

Computed(value) == Then(<< >>) /\ operands' = Append(operands, value) /\ UNCHANGED <<env, store>>

RunLiteral == Doing("expr") /\ Node.kind = "int" /\ Computed(Node.value)

RunIdent ==
  /\ Doing("expr") /\ Node.kind = "ident" /\ ~IsGlobal(Node.name)
  /\ Computed(store[Place(Node.name)])

\* Operands from left to right; the right one of a logical operator only if the
\* left one does not settle it.
RunOperands ==
  /\ Doing("expr") /\ Node.kind \in {"unary", "binary", "call"}
  /\ LET first == CASE Node.kind = "unary" -> <<Node.operand>>
                    [] Node.kind = "call" -> Node.args
                    [] OTHER -> IF Node.op \in Logical THEN <<Node.lhs>> ELSE <<Node.lhs, Node.rhs>>
     IN  Then([i \in DOMAIN first |-> <<"expr", first[i]>>] \o << <<"apply", Node>> >>)
  /\ UNCHANGED <<operands, env, store>>

ApplyUnary ==
  /\ Doing("apply") /\ Node.kind = "unary"
  /\ Then(<< >>)
  /\ operands' = Append(Take(1), UnaryValue(Node.op, Newest))
  /\ UNCHANGED <<env, store>>

ApplyLogical ==
  /\ Doing("apply") /\ Node.kind = "binary" /\ Node.op \in Logical
  /\ IF (Newest # 0) = (Node.op = "or")
     THEN Then(<< >>) /\ operands' = Append(Take(1), Truth(Newest # 0))
     ELSE Then(<< <<"expr", Node.rhs>>, <<"truth">> >>) /\ operands' = Take(1)
  /\ UNCHANGED <<env, store>>

ApplyTruth ==
  /\ Doing("truth")
  /\ Then(<< >>)
  /\ operands' = Append(Take(1), Truth(Newest # 0))
  /\ UNCHANGED <<env, store>>

\* Dividing by zero has no meaning: anything may follow.
Undefined == Doing("apply") /\ Node.kind = "binary" /\ Node.op \in Dividing /\ Newest = 0

ApplyBinary ==
  /\ Doing("apply") /\ Node.kind = "binary" /\ Node.op \notin Logical /\ ~Undefined
  /\ Then(<< >>)
  /\ operands' = Append(Take(2), BinaryValue(Node.op, operands[Len(operands) - 1], Newest))
  /\ UNCHANGED <<env, store>>

-----------------------------------------------------------------------------
(* Events. *)

AtCall == Doing("apply") /\ Node.kind = "call"
AtRead == Doing("expr") /\ Node.kind = "ident" /\ IsGlobal(Node.name)
AtWrite == Finish({"assign"}) /\ IsGlobal(Node.name)
AtReturn == Finish({"return"}) \/ (Doing("stmt") /\ Node = Return)
AtEnd == todo = << >>

SourceAtEvent == AtCall \/ AtRead \/ AtWrite \/ AtReturn \/ AtEnd

SourceEvent ==
  CASE AtCall -> <<"call", Node.callee>> \o NewestOf(Len(Node.args))
    [] AtRead -> <<"read", Node.name>>
    [] AtWrite -> <<"write", Node.name, Newest>>
    [] AtReturn -> IF HasExpr(Node) THEN <<"return", Newest>> ELSE <<"return">>
    [] AtEnd -> <<"end">>

\* The environment has answered the event; a call without result leaves an
\* operand nobody looks at.
SourceGoesOn(result) ==
  /\ Then(<< >>)
  /\ operands' = CASE AtCall -> Append(Take(Len(Node.args)), result)
                   [] AtRead -> Append(operands, result)
                   [] AtWrite -> Take(1)
  /\ UNCHANGED <<env, store>>

SourceStep ==
  \/ RunBlock \/ LeaveBlock \/ RunEmpty \/ RunExpr \/ RunJump \/ RunAgain
  \/ FinishExpr \/ FinishAssign \/ FinishDecl \/ FinishIf \/ FinishWhile
  \/ RunLiteral \/ RunIdent \/ RunOperands
  \/ ApplyUnary \/ ApplyLogical \/ ApplyTruth \/ ApplyBinary
=============================================================================
