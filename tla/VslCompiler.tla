----------------------------- MODULE VslCompiler -----------------------------
(***************************************************************************)
(* The older shader compiler as it runs (tools/vslc/main.cc): the parser,  *)
(* the legaliser and the backend, each a declaration at a time.  What it   *)
(* builds is compared with what the source says, which is given here       *)
(* without stacks: the grammar of expressions as a split at the operator   *)
(* that binds least, and the meaning of a function as the terms that it    *)
(* leaves in its outputs.                                                  *)
(*                                                                         *)
(* The backend (tools/vslc/spv/backend.cc, builder.cc) is given first, as  *)
(* functions from backends to backends: "id" is the last type, "made" the  *)
(* last instruction or constant.                                           *)
(***************************************************************************)
EXTENDS VslParser, FiniteSetsExt

Instruction(op, id, type, operands) == [op |-> op, id |-> id, type |-> type, operands |-> operands]
Value(id, creator_op, operands, type) == [id |-> id, creator_op |-> creator_op, operands |-> operands, type |-> type]
Made(inst, type) == Value(inst.id, inst.op, inst.operands, type)
Symbol(id, uniform) == [id |-> id, uniform |-> uniform]

(* import_extension() has made the first id. *)
Std450 == 1
Backend ==
  [status |-> "ok", m_next_id |-> 2, m_types |-> <<>>, m_constants |-> <<>>, m_decorations |-> <<>>,
   m_global_variables |-> <<>>, m_entry_points |-> <<>>, m_functions |-> <<>>, m_pipeline_decls |-> <<>>,
   root |-> <<>>, scope |-> <<>>, m_value_stack |-> <<>>, m_load_symbol |-> TRUE, m_is_fragment_entry |-> FALSE,
   m_fragment_output_id |-> 0, id |-> 0, made |-> Instruction("Nop", 0, 0, <<>>),
   definition |-> 0, label |-> 0, variables |-> <<>>, block |-> <<>>]

Fail(b) == [b EXCEPT !.status = "crashed"]

(* float_type(), vector_type() and the rest: a type is made once. *)
TypeOf(b, op, operands) ==
  LET same == SelectSeq(b.m_types, LAMBDA t : t.op = op /\ t.operands = operands)
  IN  IF same # <<>> THEN [b EXCEPT !.id = same[1].id]
      ELSE [b EXCEPT !.m_types = Append(@, Instruction(op, b.m_next_id, 0, operands)), !.id = b.m_next_id, !.m_next_id = @ + 1]

ConvertScalar(b, scalar) ==
  CASE scalar = "Void" -> TypeOf(b, "TypeVoid", <<>>)
    [] scalar = "Float" -> TypeOf(b, "TypeFloat", <<32>>)
    [] OTHER -> Fail(b)
VectorOf(b, size) == TypeOf(b, "TypeVector", <<b.id, size>>)
MatrixOf(b, columns) == TypeOf(b, "TypeMatrix", <<b.id, columns>>)
ConvertType(b, type) ==
  CASE IsScalar(type) -> ConvertScalar(b, type.scalar)
    [] IsVector(type) -> VectorOf(ConvertScalar(b, type.scalar), type.size)
    [] OTHER -> MatrixOf(VectorOf(ConvertScalar(b, type.scalar), type.size), type.columns)

(* The types of several nodes, in the order of the nodes. *)
ConvertTypes(b, nodes) ==
  LET AndId(c, ids) == <<c, Append(ids, c.id)>>
  IN  FoldLeft(LAMBDA acc, n : AndId(ConvertType(acc[1], n.type), acc[2]), <<b, <<>>>>, nodes)

PointerType(b, storage) == TypeOf(b, "TypePointer", <<storage, b.id>>)

(* struct_type(): every member is decorated with the same offset.  What is *)
(* made as a block is not found again.                                     *)
StructType(b, members) ==
  LET struct == b.m_next_id
  IN  [b EXCEPT !.m_types = Append(@, Instruction("TypeStruct", struct, 0, members)), !.id = struct, !.m_next_id = @ + 1,
                !.m_decorations = @ \o <<<<struct, "Block">>>> \o [i \in DOMAIN members |-> <<struct, "Offset", i - 1, 0>>]]

ScalarConstant(b, value) ==
  LET same == SelectSeq(b.m_constants, LAMBDA c : c.type = b.id /\ c.operands[1] = value)
      constant == Instruction("Constant", b.m_next_id, b.id, <<value>>)
  IN  IF same # <<>> THEN [b EXCEPT !.made = same[1]]
      ELSE [b EXCEPT !.m_constants = Append(@, constant), !.made = constant, !.m_next_id = @ + 1]
CompositeConstant(b, elements) ==
  LET constant == Instruction("ConstantComposite", b.m_next_id, b.id, elements)
  IN  [b EXCEPT !.m_constants = Append(@, constant), !.made = constant, !.m_next_id = @ + 1]

(* Block::append(): some instructions have no result. *)
WithoutId == {"Store", "Return", "ReturnValue"}
AppendInst(b, op, type, operands) ==
  LET inst == Instruction(op, IF op \in WithoutId THEN 0 ELSE b.m_next_id, type, operands)
  IN  [b EXCEPT !.block = Append(@, inst), !.made = inst, !.m_next_id = IF op \in WithoutId THEN @ ELSE @ + 1]
AppendTyped(b, op, operands) == AppendInst(b, op, b.id, operands)
AppendLoad(b, place) == AppendTyped(b, "Load", <<place>>)
AppendStore(b, place, value) == AppendInst(b, "Store", 0, <<place, value>>)

(* A variable of the last type, of the function, of its entry point or of  *)
(* the module.                                                             *)
VariableAt(b, storage) ==
  [b EXCEPT !.made = Instruction("Variable", b.m_next_id, b.id, <<storage>>), !.m_next_id = @ + 1]
NewVariable(b, storage) == VariableAt(PointerType(b, storage), storage)
ShareVariable(b, decoration) ==
  [b EXCEPT !.m_entry_points[Len(b.m_entry_points)].interface = Append(@, b.made),
            !.m_decorations = Append(@, <<b.made.id>> \o decoration)]
AppendInterface(b, storage, decoration) == ShareVariable(NewVariable(b, storage), decoration)

PutSymbol(b, name, symbol) == [b EXCEPT !.scope = (name :> symbol) @@ @]
Push(b, value) == [b EXCEPT !.m_value_stack = Append(@, value)]
PushMade(b, type) == Push(b, Made(b.made, type))
Top(b) == Last(b.m_value_stack)
TakeLast(b) == [b EXCEPT !.m_value_stack = Front(@)]
TakeTwo(b) == [b EXCEPT !.m_value_stack = Front(Front(@))]
Below(b) == b.m_value_stack[Len(b.m_value_stack) - 1]
IsConstant(value) == value.creator_op \in {"Constant", "ConstantComposite"}

-----------------------------------------------------------------------------
BinaryOp ==
  [op \in {"Add", "AddAssign", "Sub", "SubAssign", "Mul", "MulAssign", "Div", "DivAssign"} |->
     CASE op \in {"Add", "AddAssign"} -> "FAdd" [] op \in {"Sub", "SubAssign"} -> "FSub"
       [] op \in {"Mul", "MulAssign"} -> "FMul" [] OTHER -> "FDiv"]
  @@ [op \in {"VectorTimesScalar", "MatrixTimesScalar", "VectorTimesMatrix", "MatrixTimesVector", "MatrixTimesMatrix"} |-> op]

(* The scalars of one argument of a constructor; those of a vector that is *)
(* not made of scalars are extracted.                                      *)
Extract(acc, value, i) ==
  LET AndMade(b) == <<b, Append(acc[2], b.made.id)>>
  IN  AndMade(AppendTyped(ConvertScalar(acc[1], value.type.scalar), "CompositeExtract", <<value.id, i - 1>>))
BreakDown(acc, value) ==
  CASE value.creator_op = "Constant" -> <<acc[1], Append(acc[2], value.id)>>
    [] value.creator_op \in {"ConstantComposite", "CompositeConstruct"} -> <<acc[1], acc[2] \o value.operands>>
    [] OTHER ->
         IF value.type.size = 1 THEN <<acc[1], Append(acc[2], value.id)>>
         ELSE FoldLeft(LAMBDA a, i : Extract(a, value, i), acc, [i \in 1 .. value.type.size |-> i])

(* translate_construct_expr(); a single scalar is repeated. *)
ConstructFrom(b, isConstant, type, ids) ==
  LET arguments == IF Len(ids) = type.size THEN ids ELSE [i \in 1 .. type.size |-> ids[1]]
  IN  CASE Len(ids) \notin {1, type.size} -> Fail(b)
        [] Len(ids) \in {1, type.size} /\ isConstant -> CompositeConstant(b, arguments)
        [] OTHER -> AppendTyped(b, "CompositeConstruct", arguments)
TranslateConstruct(b, type) ==
  LET Construct(parts) ==
        ConstructFrom(VectorOf(ConvertScalar(parts[1], type.scalar), type.size),
                      \A v \in Range(b.m_value_stack) : IsConstant(v), type, parts[2])
  IN  Construct(FoldLeft(BreakDown, <<b, <<>>>>, b.m_value_stack))

(* What an assignment stores in the place that is below its value on the   *)
(* stack; it leaves nothing on the stack.                                  *)
StoreMade(b, place) == AppendStore(b, place, b.made.id)
CombineMade(b, op, value) == AppendTyped(b, BinaryOp[op], <<b.made.id, value>>)
Assign(b, op) ==
  LET lhs == Below(b)
      rhs == Top(b)
  IN  IF op = "Assign" THEN AppendStore(TakeTwo(b), lhs.id, rhs.id)
      ELSE StoreMade(CombineMade(AppendLoad(ConvertType(TakeTwo(b), lhs.type), lhs.id), op, rhs.id), lhs.id)

Operate(b, op, type) ==
  IF op \notin DOMAIN BinaryOp THEN Fail(b)
  ELSE PushMade(AppendTyped(ConvertType(TakeTwo(b), type), BinaryOp[op], <<Below(b).id, Top(b).id>>), type)

(* A symbol of a uniform block is reached through an index, which is that  *)
(* of the first member whatever the member is.                             *)
IndexOf(b) == [ScalarConstant(TypeOf(b, "TypeInt", <<32, 0>>), "0") EXCEPT !.id = b.id]
Reach(b, symbol) == AppendTyped(b, "AccessChain", <<symbol.id, b.made.id>>)
ReachMember(b, symbol) == [Reach(PointerType(IndexOf(b), "PushConstant"), symbol) EXCEPT !.id = b.id]
UsePlace(b, place, type) ==
  IF b.m_load_symbol THEN PushMade(AppendLoad(b, place), type)
  ELSE Push([b EXCEPT !.m_load_symbol = TRUE], Value(place, "", <<>>, type))
UseMade(b, type) == UsePlace(b, b.made.id, type)
UseSymbol(b, symbol, type) ==
  IF symbol.uniform THEN UseMade(ReachMember(b, symbol), type) ELSE UsePlace(b, symbol.id, type)
VisitSymbol(b, n) ==
  IF n.name \in DOMAIN b.scope THEN UseSymbol(ConvertType(b, n.type), b.scope[n.name], n.type) ELSE Fail(b)

CallOp(b, name, type) ==
  LET ids == [i \in DOMAIN b.m_value_stack |-> b.m_value_stack[i].id]
  IN  CASE name = "dot" -> AppendTyped(ConvertType(b, type), "Dot", ids)
        [] name = "max" -> AppendTyped(ConvertType(b, type), "ExtInst", <<Std450, 40>> \o ids)
        [] OTHER -> Fail(b)

(* Of a call or a constructor, whose arguments have the stack to           *)
(* themselves.                                                             *)
Restore(b, saved, type) ==
  IF b.status = "ok" THEN PushMade([b EXCEPT !.m_value_stack = saved], type) ELSE b

RECURSIVE Visit(_, _)
VisitAll(b, nodes) == FoldLeft(Visit, b, nodes)

(* What is visited has to leave "count" values on the stack. *)
Leaves(b, count) == b.status = "ok" /\ Len(b.m_value_stack) >= count
Refuse(b) == IF b.status = "ok" THEN Fail(b) ELSE b

Combine(b, n) ==
  IF ~Leaves(b, 2) THEN Refuse(b)
  ELSE IF n.name \in Assignments THEN Assign(b, n.name) ELSE Operate(b, n.name, n.type)
VisitBinary(b, n) == Combine(VisitAll([b EXCEPT !.m_load_symbol = n.name \notin Assignments /\ @], n.args), n)

KeepVariable(b, initialiser) ==
  [b EXCEPT !.variables = Append(@, [b.made EXCEPT !.operands = @ \o initialiser])]
Initialise(b, value) ==
  IF IsConstant(value) THEN KeepVariable(b, <<value.id>>) ELSE AppendStore(KeepVariable(b, <<>>), b.made.id, value.id)
DeclareVariable(b, value, name) == PutSymbol(Initialise(b, value), name, Symbol(b.made.id, FALSE))
Declare(b, name) ==
  IF ~Leaves(b, 1) THEN Refuse(b)
  ELSE DeclareVariable(NewVariable(ConvertType(TakeLast(b), Top(b).type), "Function"), Top(b), name)
VisitDecl(b, n) == Declare(Visit(b, n.args[1]), n.name)

Return(b, isFragment) ==
  IF ~Leaves(b, 1) THEN Refuse(b)
  ELSE IF isFragment THEN AppendStore(TakeLast(b), b.m_fragment_output_id, Top(b).id)
       ELSE AppendInst(TakeLast(b), "ReturnValue", 0, <<Top(b).id>>)
VisitReturn(b, n) == Return(Visit(b, n.args[1]), b.m_is_fragment_entry)

Negate(b, type) ==
  IF b.status # "ok" THEN b
  ELSE PushMade(AppendTyped(ConvertType(TakeLast(b), type), "FNegate", <<Top(b).id>>), type)
VisitUnary(b, n) == Negate(Visit(b, n.args[1]), n.type)

PushScalar(b, n) == IF b.status = "ok" THEN PushMade(ScalarConstant(b, n.name), n.type) ELSE b
VisitConstant(b, n) == PushScalar(ConvertType(b, n.type), n)

Apply(b, n) ==
  CASE b.status # "ok" -> b
    [] b.status = "ok" /\ n.kind = "Construct" -> TranslateConstruct(b, n.type)
    [] OTHER -> CallOp(b, n.name, n.type)
VisitCall(b, n) == Restore(Apply(VisitAll([b EXCEPT !.m_value_stack = <<>>], n.args), n), b.m_value_stack, n.type)

Visit(b, n) ==
  CASE b.status # "ok" -> b
    [] b.status = "ok" /\ n.kind = "Constant" -> VisitConstant(b, n)
    [] b.status = "ok" /\ n.kind = "Symbol" -> VisitSymbol(b, n)
    [] b.status = "ok" /\ n.kind = "Binary" -> VisitBinary(b, n)
    [] b.status = "ok" /\ n.kind = "Unary" -> VisitUnary(b, n)
    [] b.status = "ok" /\ n.kind = "DeclStmt" -> VisitDecl(b, n)
    [] b.status = "ok" /\ n.kind = "ReturnStmt" -> VisitReturn(b, n)
    [] OTHER -> VisitCall(b, n)

-----------------------------------------------------------------------------
(* A variable of the interface for each node, in the order of the nodes.   *)
PutMade(b, name) == PutSymbol(b, name, Symbol(b.made.id, FALSE))
ShareAll(b, nodes, storage) ==
  FoldLeft(LAMBDA acc, i :
             PutMade(AppendInterface(ConvertType(acc, nodes[i].type), storage, <<"Location", i - 1>>), nodes[i].name),
           b, [i \in DOMAIN nodes |-> i])

SharePosition(b) ==
  PutMade(AppendInterface(ConvertType(b, Type("Float", 4, 1)), "Output", <<"BuiltIn", 0>>), "gl_Position")
EnterVertex(b, n) == ShareAll(SharePosition(ShareAll(b, n.parameters, "Input")), b.m_pipeline_decls, "Output")

KeepOutput(b) == [b EXCEPT !.m_fragment_output_id = b.made.id]
EnterFragment(b, n) ==
  KeepOutput(AppendInterface(ConvertType(ShareAll(b, b.m_pipeline_decls, "Input"), n.type), "Output", <<"Location", 0>>))

EntryPoints == {"vertex_main", "fragment_main"}
BeginFunction(b, returned, n) ==
  [b EXCEPT !.definition = Instruction("Function", b.m_next_id, returned, <<b.id>>),
            !.m_next_id = @ + 1, !.variables = <<>>, !.scope = b.root, !.m_is_fragment_entry = n.name = "fragment_main",
            !.m_entry_points = @ \o IF n.name \notin EntryPoints THEN <<>>
                                    ELSE <<[function |-> b.m_next_id, stage |-> n.name, interface |-> <<>>]>>]
BeginReturning(b, parameters, n) == BeginFunction(TypeOf(b, "TypeFunction", <<b.id>> \o parameters), b.id, n)
BeginTyped(typed, n) ==
  IF n.name \in EntryPoints THEN BeginReturning(ConvertScalar(typed[1], "Void"), <<>>, n)
  ELSE BeginReturning(ConvertType(typed[1], n.type), typed[2], n)
Enter(b, n) ==
  CASE n.name = "vertex_main" -> EnterVertex(b, n)
    [] n.name = "fragment_main" -> EnterFragment(b, n)
    [] OTHER -> b
Begin(b, n) == Enter(BeginTyped(ConvertTypes(b, n.parameters), n), n)

OpenBlock(b) == [b EXCEPT !.label = b.m_next_id, !.m_next_id = @ + 1, !.block = <<>>]
IsTerminated(b) == b.block # <<>> /\ Last(b.block).op \in {"Return", "ReturnValue"}
KeepFunction(b) ==
  [b EXCEPT !.m_functions = Append(@, [definition |-> b.definition, label |-> b.label,
                                       variables |-> b.variables, block |-> b.block])]
EndFunction(b) ==
  CASE b.status # "ok" -> b
    [] b.status = "ok" /\ IsTerminated(b) -> KeepFunction(b)
    [] OTHER -> KeepFunction(AppendInst(b, "Return", 0, <<>>))
VisitFunction(b, n) == EndFunction(VisitAll(OpenBlock(Begin(b, n)), n.args))

KeepBlock(b, nodes) ==
  [b EXCEPT !.m_global_variables = Append(@, b.made),
            !.root = [name \in {m.name : m \in Range(nodes)} |-> Symbol(b.made.id, TRUE)] @@ @]
VisitUniformBlock(b, n) ==
  LET Block(members) == KeepBlock(NewVariable(StructType(members[1], members[2]), "PushConstant"), n.args)
  IN  Block(ConvertTypes(b, n.args))

VisitTopLevel(b, n) ==
  CASE n.kind = "Function" -> VisitFunction(b, n)
    [] n.kind = "PipelineDecl" -> [b EXCEPT !.m_pipeline_decls = Append(@, n)]
    [] n.kind = "UniformBlock" -> VisitUniformBlock(b, n)

-----------------------------------------------------------------------------
(* The compiler. *)

CONSTANTS Sources, Malformed

VARIABLES source, parser, ast, legaliser, backend, visited    (* "visited" declarations are built *)

Tokens(d) ==
  d.head \o IF d.head[1] # "fn" THEN <<>>
            ELSE <<"{">> \o FlattenSeq([i \in DOMAIN d.body |-> d.body[i].intro \o d.body[i].expr \o d.body[i].end]) \o <<"}">>

Init ==
  /\ source \in Sources
  /\ parser = Parser(FlattenSeq([i \in DOMAIN source |-> Tokens(source[i])]))
  /\ ast = <<>> /\ legaliser = Legaliser /\ backend = Backend /\ visited = 0

Parse ==
  LET parsed == ParseTopLevel(parser)
  IN  /\ parser.status = "ok" /\ parser.tokens # <<>>
      /\ parser' = parsed
      /\ ast' = IF parsed.status = "ok" THEN Append(ast, parsed.node) ELSE ast
      /\ UNCHANGED <<source, legaliser, backend, visited>>

IsParsed == parser.status = "ok" /\ parser.tokens = <<>>

LegaliseNext ==
  /\ IsParsed /\ Len(legaliser.nodes) < Len(ast)
  /\ legaliser' = LegaliseTopLevel(legaliser, ast[Len(legaliser.nodes) + 1])
  /\ UNCHANGED <<source, parser, ast, backend, visited>>

IsLegal == IsParsed /\ Len(legaliser.nodes) = Len(ast)

Build ==
  /\ IsLegal /\ backend.status = "ok" /\ visited < Len(ast)
  /\ backend' = VisitTopLevel(backend, legaliser.nodes[visited + 1])
  /\ visited' = visited + 1
  /\ UNCHANGED <<source, parser, ast, legaliser>>

IsBuilt == IsLegal /\ backend.status = "ok" /\ visited = Len(ast)
IsRefused == parser.status # "ok" \/ backend.status # "ok"

Next == Parse \/ LegaliseNext \/ Build

-----------------------------------------------------------------------------
Depth(ts, i) == Cardinality({j \in 1 .. i - 1 : ts[j] = "("}) - Cardinality({j \in 1 .. i - 1 : ts[j] = ")"})
Splits(ts, operators) == {i \in 2 .. Len(ts) : ts[i] \in operators /\ Depth(ts, i) = 0}

RECURSIVE Grammar(_)
Grammar(ts) ==
  LET assignments == Splits(ts, {"=", "+=", "-=", "*=", "/="})
      sums == Splits(ts, {"+"})
      products == Splits(ts, {"*", "/", "%"})
      At(i) == Tree("Binary", BinaryOperator[ts[i]], <<Grammar(SubSeq(ts, 1, i - 1)), Grammar(SubSeq(ts, i + 1, Len(ts)))>>)
      inner == SubSeq(ts, 3, Len(ts) - 1)
      cuts == SetToSortSeq({0, Len(inner) + 1} \cup Splits(inner, {","}), <)
      arguments == [k \in 1 .. Len(cuts) - 1 |-> Grammar(SubSeq(inner, cuts[k] + 1, cuts[k + 1] - 1))]
  IN  CASE assignments # {} -> At(Min(assignments))
        [] assignments = {} /\ sums # {} -> At(Max(sums))
        [] assignments = {} /\ sums = {} /\ products # {} -> At(Max(products))
        [] OTHER ->
             CASE ts[1] = "-" -> Tree("Unary", "Negate", <<Grammar(Tail(ts))>>)
               [] ts[1] = "(" -> Grammar(SubSeq(ts, 2, Len(ts) - 1))
               [] Len(ts) = 1 -> Tree(IF IsIdent(ts[1]) THEN "Symbol" ELSE "Constant", ts[1], <<>>)
               [] OTHER -> Tree(IF ts[1] \in DOMAIN BuiltinTypes THEN "Construct" ELSE "Call", ts[1], arguments)

ExprOf(s) == IF s.kind \in {"DeclStmt", "ReturnStmt"} THEN s.args[1] ELSE s
ParsedByTheGrammar ==
  \A i \in DOMAIN ast : ast[i].kind = "Function" =>
    \A j \in DOMAIN source[i].body : ExprOf(ast[i].args[j]) = Grammar(source[i].body[j].expr)

-----------------------------------------------------------------------------
(* A variable in the environment has a type and a term over the inputs. *)
Undefined == <<"Undefined">>
Entry(type, term) == [type |-> type, term |-> term]
Parts(value) ==
  IF value.term[1] = "Vector" THEN value.term[2]
  ELSE IF IsScalar(value.type) THEN <<value.term>> ELSE [i \in 1 .. value.type.size |-> <<"Part", value.term, i - 1>>]

Arithmetic == [op \in {"Add", "Mul", "Div", "AddAssign", "SubAssign", "MulAssign", "DivAssign"} |->
                 CASE op \in {"Add", "AddAssign"} -> "Add" [] op = "SubAssign" -> "Sub"
                   [] op \in {"Mul", "MulAssign"} -> "Mul" [] OTHER -> "Div"]

(* The type of a sum, a product or a quotient. *)
Resulting(l, r) ==
  CASE IsScalar(r) -> l
    [] IsMatrix(l) /\ IsVector(r) -> Type(l.scalar, l.size, 1)
    [] IsVector(l) /\ IsMatrix(r) -> Type(l.scalar, r.columns, 1)
    [] OTHER -> r

RECURSIVE Evaluate(_, _)
Evaluate(env, e) ==
  LET args == [i \in DOMAIN e.args |-> Evaluate(env, e.args[i])]
      parts == FlattenSeq([i \in DOMAIN args |-> Parts(args[i])])
      terms == [i \in DOMAIN args |-> args[i].term]
      size == BuiltinTypes[e.name].size
  IN  CASE e.kind = "Symbol" -> env[e.name]
        [] e.kind = "Constant" -> Entry(Scalar("Float"), <<"Constant", e.name>>)
        [] e.kind = "Unary" -> Entry(args[1].type, <<"Negate", args[1].term>>)
        [] e.kind = "Binary" /\ e.name = "Assign" -> args[2]
        [] e.kind = "Binary" /\ e.name # "Assign" -> Entry(Resulting(args[1].type, args[2].type), <<Arithmetic[e.name], terms[1], terms[2]>>)
        [] e.kind = "Construct" -> Entry(BuiltinTypes[e.name], <<"Vector", IF Len(parts) = 1 THEN [i \in 1 .. size |-> parts[1]] ELSE parts>>)
        [] e.kind = "Call" -> Entry(IF e.name = "dot" THEN Scalar("Float") ELSE args[1].type, <<"Call", e.name, terms>>)

Bound(nodes, Term(_)) ==
  [n \in {nodes[k].name : k \in DOMAIN nodes} |->
     LET k == CHOOSE k \in DOMAIN nodes : nodes[k].name = n IN Entry(nodes[k].type, Term(k))]
Before(i, kind) == SelectSeq(SubSeq(ast, 1, i - 1), LAMBDA d : d.kind = kind)
Input(k) == <<"Input", "Location", k - 1>>
Environment(i) ==
  LET members == FlattenSeq([k \in DOMAIN Before(i, "UniformBlock") |-> Before(i, "UniformBlock")[k].args])
      isVertex == ast[i].name = "vertex_main"
  IN  Bound(members, LAMBDA k : <<"Input", "PushConstant", k - 1>>)
      @@ Bound(Before(i, "PipelineDecl"), LAMBDA k : IF isVertex THEN Undefined ELSE Input(k))
      @@ Bound(ast[i].parameters, Input)
      @@ ("gl_Position" :> Entry(BuiltinTypes["vec4"], Undefined))
Outputs(i) ==
  LET pipeline == Before(i, "PipelineDecl")
  IN  IF ast[i].name # "vertex_main" THEN <<>>
      ELSE [key \in {<<"Location", k - 1>> : k \in DOMAIN pipeline} |-> pipeline[key[2] + 1].name] @@ (<<"BuiltIn", 0>> :> "gl_Position")

Meaning(i) ==
  LET Step(acc, s) ==
        LET value == Evaluate(acc.env, ExprOf(s))
        IN  CASE s.kind = "DeclStmt" -> [acc EXCEPT !.env = (s.name :> value) @@ @]
              [] s.kind = "ReturnStmt" -> [acc EXCEPT !.result = {<<<<"Location", 0>>, value.term>>}]
              [] s.kind = "Binary" /\ s.name \in Assignments -> [acc EXCEPT !.env[s.args[1].name] = value]
              [] OTHER -> acc
      end == FoldLeft(Step, [env |-> Environment(i), result |-> {}], ast[i].args)
      outputs == Outputs(i)
  IN  end.result \cup {<<key, end.env[outputs[key]].term>> : key \in {k \in DOMAIN outputs : end.env[outputs[k]].term # Undefined}}

-----------------------------------------------------------------------------
(* The module in the order of Builder::write(), and what it computes. *)

Interface == FlattenSeq([i \in DOMAIN backend.m_entry_points |-> backend.m_entry_points[i].interface])
FunctionLayout(f) == <<f.definition, Instruction("Label", f.label, 0, <<>>)>> \o f.variables \o f.block
Layout ==
  backend.m_types \o backend.m_constants \o backend.m_global_variables \o Interface
  \o FlattenSeq([i \in DOMAIN backend.m_functions |-> FunctionLayout(backend.m_functions[i])])

Defined(id) == CHOOSE x \in Range(Layout) : x.id = id
KeyOf(v) == Tail(SelectSeq(backend.m_decorations, LAMBDA d : d[1] = v.id)[1])
Meant == [op \in {"FAdd", "FSub", "FDiv"} |-> CASE op = "FAdd" -> "Add" [] op = "FSub" -> "Sub" [] OTHER -> "Div"]

Execute(f) ==
  LET inputs == {v \in Range(Interface) : v.operands[1] = "Input"}
      outputs == {v \in Range(Interface) : v.operands[1] = "Output"}
      constants ==
        FoldLeft(LAMBDA acc, c :
          (c.id :> IF c.op = "Constant" THEN <<"Constant", c.operands[1]>>
                   ELSE <<"Vector", [i \in DOMAIN c.operands |-> acc[c.operands[i]]]>>) @@ acc, <<>>, backend.m_constants)
      start ==
        [terms |-> constants, result |-> {},
         memory |-> [id \in {v.id : v \in inputs} |-> <<"Input", "Location", KeyOf(Defined(id))[2]>>]
                    @@ [id \in {v.id : v \in {w \in Range(f.variables) : Len(w.operands) = 2}} |-> constants[Defined(id).operands[2]]]]
      Step(acc, x) ==
        LET Term(i) == acc.terms[x.operands[i]]
            From(n) == [i \in 1 .. Len(x.operands) - n + 1 |-> Term(i + n - 1)]
            term ==
              CASE x.op = "Load" -> IF x.operands[1] \in DOMAIN acc.memory THEN acc.memory[x.operands[1]] ELSE acc.terms[x.operands[1]]
                [] x.op = "AccessChain" -> <<"Input", "PushConstant", 0>>
                [] x.op = "FNegate" -> <<"Negate", Term(1)>>
                [] x.op \in DOMAIN Meant -> <<Meant[x.op], Term(1), Term(2)>>
                [] x.op = "CompositeConstruct" -> <<"Vector", From(1)>>
                [] x.op = "CompositeExtract" -> IF Term(1)[1] = "Vector" THEN Term(1)[2][x.operands[2] + 1] ELSE <<"Part", Term(1), x.operands[2]>>
                [] x.op = "Dot" -> <<"Call", "dot", From(1)>>
                [] x.op = "ExtInst" -> <<"Call", "max", From(3)>>
                [] OTHER -> <<"Mul", Term(1), Term(2)>>
        IN  CASE x.op = "Store" -> [acc EXCEPT !.memory = (x.operands[1] :> Term(2)) @@ @]
              [] x.op = "ReturnValue" -> [acc EXCEPT !.result = {<<<<"Location", 0>>, Term(1)>>}]
              [] x.op = "Return" -> acc
              [] OTHER -> [acc EXCEPT !.terms = (x.id :> term) @@ @]
      end == FoldLeft(Step, start, f.block)
  IN  end.result \cup {<<KeyOf(v), end.memory[v.id]>> : v \in {w \in outputs : w.id \in DOMAIN end.memory}}

ComputesTheSource ==
  LET functions == SelectSeq([i \in DOMAIN ast |-> i], LAMBDA i : ast[i].kind = "Function")
  IN  \A k \in DOMAIN functions : Execute(backend.m_functions[k]) = Meaning(functions[k])

-----------------------------------------------------------------------------
(* The rules of SPIR-V that the builder has to keep. *)
IdsUsed(x) ==
  (IF x.type = 0 THEN {} ELSE {x.type})
  \cup CASE x.op \in {"TypeVoid", "TypeFloat", "TypeInt", "Constant", "Label", "Return"} -> {}
         [] x.op = "Variable" -> Range(Tail(x.operands))
         [] x.op \in {"TypeVector", "TypeMatrix", "CompositeExtract"} -> {x.operands[1]}
         [] x.op = "TypePointer" -> {x.operands[2]}
         [] x.op = "ExtInst" -> Range(SubSeq(x.operands, 3, Len(x.operands)))
         [] OTHER -> Range(x.operands)
IdsDefinedOnce ==
  LET layout == Layout
  IN  \A i \in DOMAIN layout :
        /\ layout[i].id # 0 => layout[i].id < backend.m_next_id /\ \A j \in DOMAIN layout : layout[j].id = layout[i].id => i = j
        /\ IdsUsed(layout[i]) \subseteq {layout[j].id : j \in 1 .. i - 1}

TypesUnique ==
  \A i, j \in DOMAIN backend.m_types :
    LET s == backend.m_types[i] t == backend.m_types[j]
    IN  s.op = t.op /\ s.operands = t.operands /\ s.op # "TypeStruct" => i = j

WellTyped(x) ==
  LET T(i) == Defined(x.operands[i]).type
      Inner(t) == LET type == Defined(t) IN IF type.op = "TypePointer" THEN type.operands[2] ELSE type.operands[1]
      Is(t, op) == Defined(t).op = op
  IN  CASE x.op = "Load" -> x.type = Inner(T(1))
        [] x.op = "Store" -> T(2) = Inner(T(1))
        [] x.op \in {"FAdd", "FSub", "FDiv", "FMul", "FNegate"} -> \A i \in DOMAIN x.operands : T(i) = x.type
        [] x.op = "VectorTimesScalar" -> T(1) = x.type /\ Is(T(1), "TypeVector") /\ T(2) = Inner(T(1))
        [] x.op = "MatrixTimesScalar" -> T(1) = x.type /\ Is(T(1), "TypeMatrix") /\ T(2) = Inner(Inner(T(1)))
        [] x.op = "VectorTimesMatrix" -> T(1) = Inner(T(2)) /\ Is(T(2), "TypeMatrix") /\ Is(x.type, "TypeVector")
        [] x.op = "MatrixTimesVector" -> Is(T(1), "TypeMatrix") /\ x.type = Inner(T(1))
        [] x.op = "Dot" -> Is(T(1), "TypeVector") /\ T(1) = T(2) /\ x.type = Inner(T(1))
        [] x.op \in {"ConstantComposite", "CompositeConstruct"} ->
             Len(x.operands) = Defined(x.type).operands[2] /\ \A i \in DOMAIN x.operands : T(i) = Inner(x.type)
        [] x.op = "CompositeExtract" -> x.type = Inner(T(1)) /\ x.operands[2] < Defined(T(1)).operands[2]
        [] OTHER -> TRUE

ValidModule ==
  /\ IdsDefinedOnce /\ TypesUnique
  /\ \A x \in Range(backend.m_constants) : WellTyped(x)
  /\ \A f \in Range(backend.m_functions) : \A x \in Range(f.block) : WellTyped(x)

(* backend.cc, parser.cc: what is built is a module that keeps the rules   *)
(* of SPIR-V and computes what the source says, and a source is refused    *)
(* only if it is none of the language, or one of the two that the compiler *)
(* is known to refuse.                                                     *)
OldCompilerFaithful ==
  /\ (IsBuilt => source \notin Malformed /\ ParsedByTheGrammar /\ ValidModule /\ ComputesTheSource)
  /\ (IsRefused => source \in Malformed)

=============================================================================
