------------------------------ MODULE VslParser ------------------------------
(***************************************************************************)
(* The parser and the legaliser of the older shader compiler               *)
(* (tools/vslc/parser.cc, legaliser.cc), as functions from parsers to      *)
(* parsers and from trees to trees.  A token is its text.                  *)
(*                                                                         *)
(* A node has the names that the class of its kind has: the operator, the  *)
(* symbol or the literal in "name", the nodes below it in "args".          *)
(***************************************************************************)
EXTENDS Naturals, SequencesExt, TLC

CONSTANTS FloatLiterals, IntLiterals

Type(scalar, size, columns) == [scalar |-> scalar, size |-> size, columns |-> columns]
Scalar(scalar) == Type(scalar, 1, 1)
Invalid == Scalar("Invalid")
IsMatrix(t) == t.columns > 1
IsVector(t) == ~IsMatrix(t) /\ t.size > 1
IsScalar(t) == ~IsMatrix(t) /\ ~IsVector(t)

BuiltinTypes ==
  [n \in {"float", "vec2", "vec3", "vec4", "mat3", "mat4"} |->
     CASE n = "float" -> Scalar("Float") [] n = "vec2" -> Type("Float", 2, 1) [] n = "vec3" -> Type("Float", 3, 1)
       [] n = "vec4" -> Type("Float", 4, 1) [] n = "mat3" -> Type("Float", 3, 3) [] n = "mat4" -> Type("Float", 4, 4)]

Eof == "<eof>"
Keywords == {"fn", "let", "pipeline", "uniform", "var"}
Punctuation == {"(", ")", "{", "}", ",", ";", ":", "-", "+", "*", "/", "%", "=", "+=", "-=", "*=", "/=", Eof}
IsIdent(t) == t \notin Keywords \cup Punctuation \cup FloatLiterals \cup IntLiterals
IsAtom(t) == IsIdent(t) \/ t \in FloatLiterals \cup IntLiterals

(* The character that stands for Sub is part of identifiers: no token is   *)
(* ever taken for it.                                                      *)
BinaryOperator ==
  [t \in {"+", "_", "*", "/", "%", "=", "+=", "-=", "*=", "/="} |->
     CASE t = "+" -> "Add" [] t = "_" -> "Sub" [] t = "*" -> "Mul" [] t = "/" -> "Div" [] t = "%" -> "Mod"
       [] t = "=" -> "Assign" [] t = "+=" -> "AddAssign" [] t = "-=" -> "SubAssign" [] t = "*=" -> "MulAssign"
       [] t = "/=" -> "DivAssign"]
Assignments == {"Assign", "AddAssign", "SubAssign", "MulAssign", "DivAssign"}
Precedence(op) ==
  CASE op \in Assignments \cup {"OpenParen"} -> 0
    [] op \in {"Add", "Sub"} -> 1
    [] op \in {"Mul", "Div", "Mod"} -> 2
    [] op = "Negate" -> 3
StrictlyHigher(a, b) == Precedence(a) > Precedence(b)
HigherPrecedence(a, b) ==
  IF b \in Assignments THEN Precedence(a) > Precedence(b) ELSE Precedence(a) >= Precedence(b)

Tree(kind, name, args) == [kind |-> kind, name |-> name, args |-> args, type |-> Invalid]

Parser(tokens) == [tokens |-> tokens, status |-> "ok", node |-> <<>>]
Peek(p, i) == IF i <= Len(p.tokens) THEN p.tokens[i] ELSE Eof
Skip(p, n) == [p EXCEPT !.tokens = SubSeq(@, n + 1, Len(@))]
Crash(p) == [p EXCEPT !.status = "crashed"]
Consume(p, t) == IF Peek(p, 1) = t THEN Skip(p, 1) ELSE p
Expect(p, t) == IF p.status = "ok" /\ Peek(p, 1) = t THEN Skip(p, 1) ELSE Crash(p)
Node(p, node) == IF p.status = "ok" THEN [p EXCEPT !.node = node] ELSE p

-----------------------------------------------------------------------------
(* parse_expr(), which has stacks of its own: a parser with them is an     *)
(* expression that is being read.                                          *)

Reading(p) == [parser |-> p, operands |-> <<>>, operators |-> <<>>, paren_depth |-> 0, done |-> FALSE]
Failed(e) == [e EXCEPT !.parser = Crash(@), !.done = TRUE]
PushOperator(e, op) == [e EXCEPT !.operators = Append(@, op)]

(* create_expr(), of the operator on top; an operand that is missing fails *)
(* the assertion of take_last().                                           *)
CreateExpr(e) ==
  LET op == Last(e.operators)
      count == IF op = "Negate" THEN 1 ELSE 2
      below == Len(e.operands) - count
      args == SubSeq(e.operands, below + 1, below + count)
      kind == IF op = "Negate" THEN "Unary" ELSE "Binary"
  IN  IF Len(e.operands) < count \/ op = "OpenParen" THEN Failed(e)
      ELSE [e EXCEPT !.operators = Front(@), !.operands = Append(SubSeq(@, 1, below), Tree(kind, op, args))]

RECURSIVE Reduce(_, _)
Reduce(e, op) ==
  IF ~e.done /\ e.operators # <<>> /\ HigherPrecedence(Last(e.operators), op) THEN Reduce(CreateExpr(e), op) ELSE e

RECURSIVE CloseParen(_)
CloseParen(e) ==
  CASE e.done \/ e.operators = <<>> -> Failed(e)
    [] ~e.done /\ e.operators # <<>> /\ Last(e.operators) = "OpenParen" ->
         [e EXCEPT !.operators = Front(@), !.paren_depth = @ - 1]
    [] OTHER -> CloseParen(CreateExpr(e))

(* What is read is the only operand that is left. *)
RECURSIVE Finish(_)
Finish(e) ==
  CASE e.done -> e
    [] ~e.done /\ e.operators # <<>> -> Finish(CreateExpr(e))
    [] OTHER -> IF Len(e.operands) = 1 THEN [e EXCEPT !.parser.node = e.operands[1], !.done = TRUE] ELSE Failed(e)

RECURSIVE ParseExpr(_), ParseArguments(_, _), Loop(_)
ParseArguments(p, nodes) ==
  LET argument == ParseExpr(p)
  IN  CASE p.status # "ok" -> p
        [] p.status = "ok" /\ Peek(p, 1) = ")" -> Node(Skip(p, 1), nodes)
        [] OTHER -> ParseArguments(Consume(argument, ","), Append(nodes, argument.node))

ParseAtom(p) ==
  LET t == Peek(p, 1)
      arguments == ParseArguments(Skip(p, 2), <<>>)
      kind == IF t \in DOMAIN BuiltinTypes THEN "Construct" ELSE "Call"
  IN  CASE ~IsIdent(t) -> Node(Skip(p, 1), Tree("Constant", t, <<>>))
        [] IsIdent(t) /\ Peek(p, 2) = "(" -> Node(arguments, Tree(kind, t, arguments.node))
        [] OTHER -> Node(Skip(p, 1), Tree("Symbol", t, <<>>))

Turn(e) ==
  LET t == Peek(e.parser, 1)
      rest == [e EXCEPT !.parser = Skip(@, 1)]
      atom == ParseAtom(e.parser)
  IN  CASE IsAtom(t) -> [e EXCEPT !.parser = atom, !.operands = Append(@, atom.node), !.done = atom.status # "ok"]
        [] t = "-" -> PushOperator(rest, "Negate")
        [] t \in DOMAIN BinaryOperator /\ ~IsAtom(t) -> PushOperator(Reduce(rest, BinaryOperator[t]), BinaryOperator[t])
        [] t = "(" -> PushOperator([rest EXCEPT !.paren_depth = @ + 1], "OpenParen")
        [] t = ")" /\ e.paren_depth > 0 -> CloseParen(rest)
        [] OTHER -> Finish(e)
Loop(e) == IF e.done THEN e.parser ELSE Loop(Turn(e))
ParseExpr(p) == IF p.status = "ok" THEN Loop(Reading(p)) ELSE p

-----------------------------------------------------------------------------
(* An expression without a semicolon is what the function returns. *)
ParseStmt(p) ==
  LET isDecl == Peek(p, 1) \in {"let", "var"}
      expr == ParseExpr(IF isDecl THEN Expect(Skip(p, 2), "=") ELSE p)
  IN  CASE isDecl /\ ~IsIdent(Peek(p, 2)) -> Crash(p)
        [] isDecl /\ IsIdent(Peek(p, 2)) -> Node(Expect(expr, ";"), Tree("DeclStmt", Peek(p, 2), <<expr.node>>))
        [] ~isDecl /\ Peek(expr, 1) = ";" -> Skip(expr, 1)
        [] OTHER -> Node(expr, Tree("ReturnStmt", "", <<expr.node>>))

RECURSIVE ParseBlock(_, _)
ParseBlock(p, stmts) ==
  LET stmt == ParseStmt(p)
  IN  CASE p.status # "ok" -> p
        [] p.status = "ok" /\ Peek(p, 1) = "}" -> Node(Skip(p, 1), stmts)
        [] OTHER -> ParseBlock(stmt, Append(stmts, stmt.node))

(* A name and its type, of a parameter or of a member. *)
Declared(p, i) == IsIdent(Peek(p, i)) /\ Peek(p, i + 1) = ":" /\ Peek(p, i + 2) \in DOMAIN BuiltinTypes
Declaration(p, i) == [Tree("Symbol", Peek(p, i), <<>>) EXCEPT !.type = BuiltinTypes[Peek(p, i + 2)]]

RECURSIVE ParseParameters(_, _)
ParseParameters(p, parameters) ==
  CASE Peek(p, 1) = ")" -> Node(Skip(p, 1), parameters)
    [] Peek(p, 1) = "let" /\ Declared(p, 2) -> ParseParameters(Consume(Skip(p, 4), ","), Append(parameters, Declaration(p, 2)))
    [] OTHER -> Crash(p)

ParseFunction(p) ==
  LET parameters == ParseParameters(Skip(p, 2), <<>>)
      typed == Peek(parameters, 1) = ":"
      named == typed => Peek(parameters, 2) \in DOMAIN BuiltinTypes
      returned == IF typed THEN BuiltinTypes[Peek(parameters, 2)] ELSE Scalar("Void")
      block == ParseBlock(Expect(IF typed THEN Skip(parameters, 2) ELSE parameters, "{"), <<>>)
  IN  IF ~IsIdent(Peek(p, 1)) \/ Peek(p, 2) # "(" \/ parameters.status # "ok" \/ ~named THEN Crash(p)
      ELSE Node(block, [kind |-> "Function", name |-> Peek(p, 1), args |-> block.node, type |-> returned, parameters |-> parameters.node])

ParsePipelineDecl(p) ==
  IF Peek(p, 1) \in DOMAIN BuiltinTypes /\ IsIdent(Peek(p, 2))
  THEN Node(Expect(Skip(p, 2), ";"), [Tree("PipelineDecl", Peek(p, 2), <<>>) EXCEPT !.type = BuiltinTypes[Peek(p, 1)]])
  ELSE Crash(p)

RECURSIVE ParseMembers(_, _)
ParseMembers(p, members) ==
  CASE p.status # "ok" -> p
    [] p.status = "ok" /\ Peek(p, 1) = "}" -> Node(Expect(Skip(p, 1), ";"), Tree("UniformBlock", "", members))
    [] p.status = "ok" /\ Declared(p, 1) -> ParseMembers(Expect(Skip(p, 3), ","), Append(members, Declaration(p, 1)))
    [] OTHER -> Crash(p)
ParseUniformBlock(p) == ParseMembers(Expect(p, "{"), <<>>)

ParseTopLevel(p) ==
  CASE Peek(p, 1) = "fn" -> ParseFunction(Skip(p, 1))
    [] Peek(p, 1) = "pipeline" -> ParsePipelineDecl(Skip(p, 1))
    [] Peek(p, 1) = "uniform" -> ParseUniformBlock(Skip(p, 1))
    [] OTHER -> Crash(p)

-----------------------------------------------------------------------------
(* The legaliser gives each node its type, after the nodes below it.  A    *)
(* scope is a function from names to types.                                *)

Lookup(scope, name) == IF name \in DOMAIN scope THEN scope[name] ELSE Invalid

(* The operator and the type of an expression that assigns nothing. *)
Combined(op, lhs, rhs) ==
  LET Between(One(_), Other(_)) == (One(lhs) /\ Other(rhs)) \/ (Other(lhs) /\ One(rhs))
      Of(size, columns) == Type(lhs.scalar, size, columns)
  IN  CASE Between(IsVector, IsScalar) -> <<"VectorTimesScalar", IF IsVector(lhs) THEN lhs ELSE rhs>>
        [] Between(IsMatrix, IsScalar) -> <<"MatrixTimesScalar", IF IsMatrix(lhs) THEN lhs ELSE rhs>>
        [] IsVector(lhs) /\ IsMatrix(rhs) -> <<"VectorTimesMatrix", Of(rhs.columns, 1)>>
        [] IsMatrix(lhs) /\ IsVector(rhs) -> <<"MatrixTimesVector", Of(lhs.size, 1)>>
        [] IsMatrix(lhs) /\ IsMatrix(rhs) -> <<"MatrixTimesMatrix", Of(rhs.columns, lhs.size)>>
        [] OTHER -> <<IF lhs.size = rhs.size THEN op ELSE "Assertion", Of(lhs.size, 1)>>

CallType(name, args) ==
  CASE name = "dot" -> Scalar("Float")
    [] name = "max" -> args[1].type
    [] OTHER -> Invalid

RECURSIVE Legalise(_, _)
Traverse(scope, nodes) == [i \in DOMAIN nodes |-> Legalise(scope, nodes[i])]
Legalise(scope, n) ==
  LET args == Traverse(scope, n.args)
      combined == Combined(n.name, args[1].type, args[2].type)
      In(type) == [n EXCEPT !.args = args, !.type = type]
  IN  CASE n.kind = "Constant" -> In(Scalar(IF n.name \in FloatLiterals THEN "Float" ELSE "Uint"))
        [] n.kind = "Symbol" -> In(Lookup(scope, n.name))
        [] n.kind = "Construct" -> In(BuiltinTypes[n.name])
        [] n.kind = "Call" -> In(CallType(n.name, args))
        [] n.kind = "Binary" /\ n.name \in Assignments -> In(args[1].type)
        [] n.kind = "Binary" /\ n.name \notin Assignments -> [In(combined[2]) EXCEPT !.name = combined[1]]
        [] n.kind = "Unary" -> In(args[1].type)
        [] OTHER -> In(n.type)

Legaliser == [scope |-> <<>>, nodes |-> <<>>]
Put(scope, symbols) == FoldLeft(LAMBDA s, symbol : (symbol.name :> symbol.type) @@ s, scope, symbols)

(* The statements of a function, each in the scope the ones before it have *)
(* made.                                                                   *)
LegaliseBlock(scope, stmts) ==
  FoldLeft(LAMBDA acc, stmt :
             LET legal == Legalise(acc.scope, stmt)
             IN  [scope |-> IF stmt.kind = "DeclStmt" THEN (stmt.name :> legal.args[1].type) @@ acc.scope ELSE acc.scope,
                  nodes |-> Append(acc.nodes, legal)],
           [scope |-> scope, nodes |-> <<>>], stmts)

LegaliseTopLevel(l, n) ==
  LET builtins == IF n.name = "vertex_main" THEN <<[name |-> "gl_Position", type |-> Type("Float", 4, 1)]>> ELSE <<>>
      legal == LegaliseBlock(Put(l.scope, builtins \o n.parameters), n.args)
  IN  CASE n.kind = "Function" -> [l EXCEPT !.nodes = Append(@, [n EXCEPT !.args = legal.nodes])]
        [] n.kind = "PipelineDecl" -> [scope |-> Put(l.scope, <<n>>), nodes |-> Append(l.nodes, n)]
        [] n.kind = "UniformBlock" -> [scope |-> Put(l.scope, n.args), nodes |-> Append(l.nodes, n)]

=============================================================================
