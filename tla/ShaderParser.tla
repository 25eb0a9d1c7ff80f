---------------------------- MODULE ShaderParser ----------------------------
(***************************************************************************)
(* The parser of the shader language (engine/sources/shaderc/parser.cc),   *)
(* as functions from parsers to parsers.  Expressions are parsed with a    *)
(* stack of operands and a stack of operators, in one of two states: an    *)
(* operand is expected (Unary) or an operator is (Binary).                 *)
(*                                                                         *)
(* A token is its text.  A node of the tree is a tuple that begins with    *)
(* its kind.                                                               *)
(***************************************************************************)
EXTENDS Naturals, SequencesExt

CONSTANTS
  Literals,    (* the literals, and the type of each: float, uint or string *)
  TypeNames    (* the names in m_builtin_type_map                           *)

Eof == "<eof>"

Parser(tokens) ==
  [tokens |-> tokens, status |-> "ok", expects |-> "Unary", operands |-> <<>>, operators |-> <<>>, node |-> <<>>]

UnaryOperator == [t \in {"-", "@"} |-> IF t = "-" THEN "Negate" ELSE "Intrinsic"]
BinaryOperator ==
  [t \in {"+", "-", "*", "/", "%", "=", "+=", "-=", "*=", "/=", "."} |->
     CASE t = "+" -> "Add" [] t = "-" -> "Sub" [] t = "*" -> "Mul" [] t = "/" -> "Div" [] t = "%" -> "Mod"
       [] t = "=" -> "Assign" [] t = "+=" -> "AddAssign" [] t = "-=" -> "SubAssign" [] t = "*=" -> "MulAssign"
       [] t = "/=" -> "DivAssign" [] t = "." -> "MemberAccess"]
Assignments == {"Assign", "AddAssign", "SubAssign", "MulAssign", "DivAssign"}

Precedence(op) ==
  CASE op \in {"Add", "Sub"} -> 2
    [] op \in {"Mul", "Div", "Mod"} -> 3
    [] op = "MemberAccess" -> 6
    [] op = "Negate" -> 4
    [] op = "Intrinsic" -> 5
    [] op = "ArgumentSeparator" -> 1
    [] op \in Assignments \cup {"CallOrConstruct", "OpenParen"} -> 0

(* Whether the operator on the stack is applied before the one that is read. *)
HasHigherPrecedence(lhs, rhs) ==
  IF rhs \in Assignments THEN Precedence(lhs) > Precedence(rhs) ELSE Precedence(lhs) >= Precedence(rhs)

Keywords == {"fn", "let", "var", "return", "pipeline", "uniform"}
Punctuation == {"(", ")", "{", "}", "[[", "]]", ",", ";", ":", Eof} \cup DOMAIN UnaryOperator \cup DOMAIN BinaryOperator
IsIdentifier(t) == t \notin Keywords \cup Punctuation \cup DOMAIN Literals
IsOperand(t) == t \notin Keywords \cup Punctuation

Peek(p, i) == IF i <= Len(p.tokens) THEN p.tokens[i] ELSE Eof
Skip(p, n) == [p EXCEPT !.tokens = SubSeq(@, n + 1, Len(@))]
Error(p) == [p EXCEPT !.status = "error"]
Expect(p, t) == IF p.status # "ok" THEN p ELSE IF Peek(p, 1) = t THEN Skip(p, 1) ELSE Error(p)

Operand(t) == IF t \in DOMAIN Literals THEN <<"Constant", t>> ELSE <<"Symbol", t>>

PushOperand(p, node) == [p EXCEPT !.operands = Append(@, node), !.expects = "Binary"]
PushOperator(p, op) == [p EXCEPT !.operators = Append(@, op), !.expects = "Unary"]
OnTop(p, op) == p.operators # <<>> /\ Last(p.operators) = op

(* build_expr(): the operator takes its operands and leaves one.  An       *)
(* argument list as an operand fails an assertion.                         *)
BuildExpr(p, op) ==
  LET rhs == Last(p.operands)
      rest == Front(p.operands)
      lhs == Last(rest)
      Put(operands, node) == [p EXCEPT !.operands = Append(operands, node)]
  IN  IF rhs[1] = "Arguments" \/ (op \notin {"Negate", "ArgumentSeparator"} /\ lhs[1] = "Arguments")
      THEN [p EXCEPT !.status = "crashed"]
      ELSE CASE op = "Negate" -> Put(rest, <<"Negate", rhs>>)
             [] op = "ArgumentSeparator" /\ lhs[1] = "Arguments" -> Put(Front(rest), <<"Arguments", Append(lhs[2], rhs)>>)
             [] op = "ArgumentSeparator" /\ lhs[1] # "Arguments" -> Put(Front(rest), <<"Arguments", <<lhs, rhs>>>>)
             [] OTHER -> Put(Front(rest), <<"Binary", op, lhs, rhs>>)

ReduceTopOperator(p) ==
  LET op == Last(p.operators)
  IN  IF op \in {"CallOrConstruct", "OpenParen", "Intrinsic"} THEN Error(p)
      ELSE BuildExpr([p EXCEPT !.operators = Front(@)], op)

RECURSIVE ReduceByPrecedence(_, _)
ReduceByPrecedence(p, op) ==
  IF p.status = "ok" /\ p.operators # <<>> /\ HasHigherPrecedence(Last(p.operators), op)
  THEN ReduceByPrecedence(ReduceTopOperator(p), op)
  ELSE p

(* build_call_or_construct(): the list or the one node on the stack are    *)
(* the arguments of the name below.  An identifier alone, of which no node *)
(* has been made yet, fails an assertion.                                  *)
BuildCallOrConstruct(p, isIntrinsic) ==
  LET top == Last(p.operands)
      arguments == IF top[1] = "Arguments" THEN top[2] ELSE <<top>>
      name == Last(Front(p.operands))
      rest == [p EXCEPT !.operands = Front(Front(@))]
  IN  CASE name[1] # "Symbol" -> Error(p)
        [] name[1] = "Symbol" /\ top[1] = "Symbol" -> [p EXCEPT !.status = "crashed"]
        [] OTHER -> IF name[2] \notin TypeNames THEN PushOperand(rest, <<"Call", name[2], arguments, isIntrinsic>>)
                    ELSE IF isIntrinsic THEN Error(p) ELSE PushOperand(rest, <<"Construct", name[2], arguments>>)

(* The end of a call, whose arguments are on the stack. *)
CloseCall(p) ==
  LET outer == [p EXCEPT !.operators = Front(@)]
  IN  IF OnTop(outer, "Intrinsic") THEN BuildCallOrConstruct([outer EXCEPT !.operators = Front(@)], TRUE)
      ELSE BuildCallOrConstruct(outer, FALSE)

RECURSIVE CloseParen(_)
CloseParen(p) ==
  CASE p.status # "ok" -> p
    [] p.status = "ok" /\ p.operators = <<>> -> Error(p)
    [] OnTop(p, "CallOrConstruct") /\ p.status = "ok" -> CloseCall(p)
    [] OnTop(p, "OpenParen") /\ p.status = "ok" -> [p EXCEPT !.operators = Front(@)]
    [] OTHER -> CloseParen(ReduceTopOperator(p))

RECURSIVE FinalReduction(_)
FinalReduction(p) ==
  CASE p.status # "ok" -> p
    [] p.status = "ok" /\ p.operators # <<>> -> FinalReduction(ReduceTopOperator(p))
    [] OTHER -> [p EXCEPT !.node = Last(p.operands), !.operands = <<>>, !.expects = "End"]

(* One turn of the loop of parse_expr(). *)
Turn(p) ==
  LET t == Peek(p, 1)
      rest == Skip(p, 1)
      unary == p.expects = "Unary"
  IN  CASE unary /\ t \in DOMAIN UnaryOperator -> PushOperator(rest, UnaryOperator[t])
        [] ~unary /\ t \in DOMAIN BinaryOperator ->
             PushOperator(ReduceByPrecedence(rest, BinaryOperator[t]), BinaryOperator[t])
        [] IsOperand(t) -> IF unary THEN PushOperand(rest, Operand(t)) ELSE Error(p)
        [] ~unary /\ t = "," ->
             LET reduced == ReduceByPrecedence(rest, "ArgumentSeparator")
             IN  IF reduced.status # "ok" \/ OnTop(reduced, "CallOrConstruct")
                 THEN PushOperator(reduced, "ArgumentSeparator") ELSE Error(p)
        [] t = "(" -> PushOperator(rest, IF unary THEN "OpenParen" ELSE "CallOrConstruct")
        [] unary /\ t = ")" -> IF OnTop(p, "CallOrConstruct") THEN CloseCall(PushOperand(rest, <<"Arguments", <<>>>>)) ELSE Error(p)
        [] ~unary /\ t = ")" -> CloseParen(rest)
        [] OTHER -> IF unary THEN Error(p) ELSE FinalReduction(p)

RECURSIVE Expression(_)
Expression(p) == IF p.status = "ok" /\ p.expects # "End" THEN Expression(Turn(p)) ELSE p

ParseExpr(p) == IF p.status = "ok" THEN Expression([p EXCEPT !.expects = "Unary"]) ELSE p

Node(p, node) == IF p.status = "ok" THEN [p EXCEPT !.node = node] ELSE p

(* let or var, with a type or without.  The value is <<>> if there is none. *)
ParseDecl(p) ==
  LET name == Peek(p, 2)
      typed == Peek(p, 3) = ":"
      type == IF typed THEN Peek(p, 4) ELSE ""
      rest == Skip(p, IF typed THEN 4 ELSE 2)
      valued == Peek(rest, 1) = "="
      value == ParseExpr(Skip(rest, 1))
  IN  IF ~IsIdentifier(name) \/ (typed /\ type \notin TypeNames) \/ (~valued /\ (~typed \/ Peek(p, 1) = "let"))
      THEN Error(p)
      ELSE Node(Expect(IF valued THEN value ELSE rest, ";"), <<"DeclStmt", name, type, IF valued THEN value.node ELSE <<>>>>)

ParseStmt(p) ==
  LET expr == ParseExpr(IF Peek(p, 1) = "return" THEN Skip(p, 1) ELSE p)
  IN  CASE Peek(p, 1) \in {"let", "var"} -> ParseDecl(p)
        [] Peek(p, 1) = "return" -> Node(Expect(expr, ";"), <<"ReturnStmt", expr.node>>)
        [] OTHER -> Expect(expr, ";")

RECURSIVE ParseBlock(_, _)
ParseBlock(p, stmts) ==
  IF p.status # "ok" THEN p
  ELSE IF Peek(p, 1) = "}" THEN Node(Skip(p, 1), <<"Block", stmts>>)
  ELSE LET s == ParseStmt(p) IN ParseBlock(s, Append(stmts, s.node))

(* Parameters are separated by commas or by nothing. *)
RECURSIVE ParseParameters(_, _)
ParseParameters(p, parameters) ==
  LET rest == Skip(p, IF Peek(p, 5) = "," THEN 5 ELSE 4)
  IN  IF Peek(p, 1) = ")" THEN Node(Skip(p, 1), parameters)
      ELSE IF Peek(p, 1) = "let" /\ IsIdentifier(Peek(p, 2)) /\ Peek(p, 3) = ":" /\ Peek(p, 4) \in TypeNames
           THEN ParseParameters(rest, Append(parameters, <<Peek(p, 2), Peek(p, 4)>>))
           ELSE Error(p)

ParseFunctionDecl(p, attributes) ==
  LET parameters == ParseParameters(Skip(p, 3), <<>>)
      typed == Peek(parameters, 1) = ":"
      returned == IF typed THEN Peek(parameters, 2) ELSE "void"
      rest == Skip(parameters, IF typed THEN 2 ELSE 0)
      block == IF Peek(rest, 1) = "{" THEN ParseBlock(Skip(rest, 1), <<>>) ELSE Node(Expect(rest, ";"), <<>>)
  IN  IF ~IsIdentifier(Peek(p, 2)) \/ Peek(p, 3) # "(" \/ parameters.status # "ok" \/ returned \notin TypeNames
      THEN Error(p)
      ELSE Node(block, <<"FunctionDecl", Peek(p, 2), parameters.node, returned, block.node, attributes>>)

(* The blocks of uniforms, which the legaliser refuses, are refused here. *)
ParseIoDecl(p, attributes) ==
  IF Peek(p, 2) \in TypeNames /\ IsIdentifier(Peek(p, 3))
  THEN Node(Expect(Skip(p, 3), ";"), <<"IoDecl", Peek(p, 1), Peek(p, 3), Peek(p, 2), attributes>>)
  ELSE Error(p)

RECURSIVE ParseArguments(_, _)
ParseArguments(p, arguments) ==
  LET more == Append(arguments, Peek(p, 1))
  IN  IF ~IsOperand(Peek(p, 1)) THEN Error(p)
      ELSE IF Peek(p, 2) = "," THEN ParseArguments(Skip(p, 2), more)
      ELSE Node(Expect(Skip(p, 1), ")"), more)

RECURSIVE ParseAttributes(_, _)
ParseAttributes(p, attributes) ==
  LET arguments == IF Peek(p, 2) = "(" THEN ParseArguments(Skip(p, 2), <<>>) ELSE Node(Skip(p, 1), <<>>)
      more == Append(attributes, <<Peek(p, 1), arguments.node>>)
  IN  IF Peek(p, 1) \notin {"binding", "set", "ext_inst", "push_constant"} \/ arguments.status # "ok" THEN Error(p)
      ELSE IF Peek(arguments, 1) = "," THEN ParseAttributes(Skip(arguments, 1), more)
      ELSE Node(Expect(arguments, "]]"), more)

ParseTopLevel(p) ==
  LET marked == Peek(p, 1) = "[["
      attributes == IF marked THEN ParseAttributes(Skip(p, 1), <<>>) ELSE Node(p, <<>>)
  IN  IF attributes.status # "ok" THEN attributes
      ELSE CASE Peek(attributes, 1) = "fn" -> ParseFunctionDecl(attributes, attributes.node)
             [] Peek(attributes, 1) \in {"pipeline", "uniform"} -> ParseIoDecl(attributes, attributes.node)
             [] OTHER -> Error(attributes)

=============================================================================
