---------------------------- MODULE ShaderBackend ----------------------------
(***************************************************************************)
(* The SPIR-V backend of the shader language (shaderc/spv_backend.cc) and  *)
(* the builder below it (spv_builder.cc), as functions from backends to    *)
(* backends.  Types and constants are made once and found again; the       *)
(* variables a stage shares with others are listed in its entry point.     *)
(*                                                                         *)
(* "chain" is the AccessChain that the last expression was lowered to, "id"  *)
(* the last type or constant.  m_types and m_constants are sequences: the  *)
(* code sorts their elements by id, the order in which they are made.      *)
(***************************************************************************)
EXTENDS Naturals, SequencesExt, Functions, TLC

Instruction(op, id, type, operands) == [op |-> op, id |-> id, type |-> type, operands |-> operands]
RValue(value) == [value |-> value, isRValue |-> TRUE]
LValue(value) == [value |-> value, isRValue |-> FALSE]
Nothing == Instruction("Nop", 0, 0, <<>>)

NoEntryPoint == 0
Std450 == 1    (* the id of the import of the extension *)
Backend ==
  [status |-> "ok", m_next_id |-> 2, m_types |-> <<>>, m_constants |-> <<>>, m_decorations |-> <<>>,
   m_entry_points |-> <<>>, m_functions |-> <<>>, m_variable_map |-> <<>>, m_function_map |-> <<>>,
   m_entry_point |-> NoEntryPoint, m_fragment_output_chain |-> <<>>,
   definition |-> Nothing, label |-> 0, variables |-> <<>>, block |-> <<>>, chain |-> RValue(Nothing), id |-> 0]

Crash(b) == [b EXCEPT !.status = "crashed"]

(* ensure_type(), ensure_constant(): the instruction that is there already, *)
(* or a new one.                                                            *)
EnsureType(b, op, operands) ==
  LET same == {i \in DOMAIN b.m_types : b.m_types[i].op = op /\ b.m_types[i].operands = operands}
  IN  IF same # {} THEN [b EXCEPT !.id = b.m_types[CHOOSE i \in same : TRUE].id]
      ELSE [b EXCEPT !.m_types = Append(@, Instruction(op, b.m_next_id, 0, operands)), !.id = b.m_next_id, !.m_next_id = @ + 1]

EnsureConstant(b, op, type, operands) ==
  LET same == {i \in DOMAIN b.m_constants :
                 LET c == b.m_constants[i] IN c.op = op /\ c.operands = operands /\ c.type = type}
  IN  IF same # {} THEN [b EXCEPT !.id = b.m_constants[CHOOSE i \in same : TRUE].id]
      ELSE [b EXCEPT !.m_constants = Append(@, Instruction(op, b.m_next_id, type, operands)), !.id = b.m_next_id, !.m_next_id = @ + 1]

LookupType(b, id) == b.m_types[CHOOSE i \in DOMAIN b.m_types : b.m_types[i].id = id]
LookupConstant(b, id) == b.m_constants[CHOOSE i \in DOMAIN b.m_constants : b.m_constants[i].id = id]

(* inner_type(): of a component, a column, or what is pointed to. *)
InnerType(b, id) ==
  LET type == LookupType(b, id) IN IF type.op = "TypePointer" THEN type.operands[2] ELSE type.operands[1]

Scalars ==
  [s \in {"float", "int", "uint", "sampler"} |->
     CASE s = "float" -> <<"TypeFloat", <<32>>>> [] s = "int" -> <<"TypeInt", <<32, 1>>>>
       [] s = "uint" -> <<"TypeInt", <<32, 0>>>> [] s = "sampler" -> <<"TypeSampler", <<>>>>]
EnsureScalar(b, scalar) == IF scalar \in DOMAIN Scalars THEN EnsureType(b, Scalars[scalar][1], Scalars[scalar][2]) ELSE b

(* Types made of the last one. *)
EnsureImage(b, image) == EnsureType(b, "TypeImage", <<b.id, IF image = "sampled" THEN 1 ELSE 2>>)
EnsureSampledImage(b) == EnsureType(b, "TypeSampledImage", <<b.id>>)
EnsureSeveral(b, op, count) == IF count > 1 THEN EnsureType(b, op, <<b.id, count>>) ELSE b

LowerType(b, t) ==
  LET scalar == EnsureScalar(EnsureType(b, "TypeVoid", <<>>), t.scalar)
  IN  CASE t.image = "storage" -> EnsureImage(scalar, t.image)
        [] t.image = "sampled" -> EnsureSampledImage(EnsureImage(scalar, t.image))
        [] OTHER -> EnsureSeveral(EnsureSeveral(scalar, "TypeVector", t.size), "TypeMatrix", t.columns)

AppendId(b, ids) == <<b, Append(ids, b.id)>>
LowerTypes(b, types) == FoldLeft(LAMBDA acc, t : AppendId(LowerType(acc[1], t), acc[2]), <<b, <<>>>>, types)

(* Block::append(), of an instruction with a result. *)
AppendInstruction(b, op, type, operands) ==
  LET inst == Instruction(op, b.m_next_id, type, operands)
  IN  [b EXCEPT !.block = Append(@, inst), !.m_next_id = @ + 1, !.chain = RValue(inst)]

(* An instruction whose type is the last one. *)
AppendResult(b, op, operands) == AppendInstruction(b, op, b.id, operands)
AppendTyped(b, op, t, operands) == AppendResult(LowerType(b, t), op, operands)

Load(b, chain) ==
  IF b.status # "ok" \/ chain.isRValue THEN [b EXCEPT !.chain = chain]
  ELSE AppendInstruction(b, "Load", InnerType(b, chain.value.type), <<chain.value.id>>)

(* store_access_chain(), which asserts that there is a place to store to. *)
Store(b, chain, rvalue) ==
  IF chain.isRValue THEN Crash(b)
  ELSE [b EXCEPT !.block = Append(@, Instruction("Store", 0, 0, <<chain.value.id, rvalue.id>>)), !.chain = chain]

(* A variable of the last type; b has the type of the pointer to it. *)
NewVariable(b, storage) ==
  [b EXCEPT !.m_next_id = @ + 1, !.chain = LValue(Instruction("Variable", b.m_next_id, b.id, <<storage>>))]
AppendVariable(b, storage) == NewVariable(EnsureType(b, "TypePointer", <<storage, b.id>>), storage)

(* append_variable() of a function, and of an entry point, of which there  *)
(* is none in a function that is not one.                                  *)
KeepLocal(b) == [b EXCEPT !.variables = Append(@, b.chain.value)]
KeepShared(b) ==
  IF b.m_entry_point = NoEntryPoint THEN Crash(b)
  ELSE [b EXCEPT !.m_entry_points[b.m_entry_point].interface = Append(@, b.chain.value)]
AppendInterface(b, storage) == KeepShared(AppendVariable(b, storage))
Decorate(b, decoration) == [b EXCEPT !.m_decorations = Append(@, <<b.chain.value.id>> \o decoration)]

(* materialise_variable(), of a variable of the last type. *)
MaterialiseVariable(b, e) ==
  CASE e.kind = "LocalVariable" -> KeepLocal(AppendVariable(b, "Function"))
    [] e.kind \in {"DescriptorBinding", "PipelineVariable"} -> Decorate(AppendInterface(b, e.index[1]), Tail(e.index))
    [] e.kind = "PushConstant" -> AppendInterface(b, e.index[1])
    [] e.kind = "Argument" -> Crash(b)

Mapped(b, e) == IF b.status # "ok" THEN b ELSE [b EXCEPT !.m_variable_map = (e.id :> b.chain.value) @@ @]
LowerVariable(b, e) ==
  IF e.id \in DOMAIN b.m_variable_map THEN [b EXCEPT !.chain = LValue(b.m_variable_map[e.id])]
  ELSE Mapped(MaterialiseVariable(LowerType(b, e.type), e), e)

BinaryOps ==
  [op \in {"Add", "Sub", "Div", "ScalarTimesScalar", "VectorTimesVector", "VectorTimesScalar", "MatrixTimesScalar",
           "VectorTimesMatrix", "MatrixTimesVector", "MatrixTimesMatrix"} |->
     CASE op = "Add" -> "FAdd" [] op = "Sub" -> "FSub" [] op = "Div" -> "FDiv"
       [] op \in {"ScalarTimesScalar", "VectorTimesVector"} -> "FMul" [] OTHER -> op]

(* The scalars a value is made of, as ids: those it was constructed from,  *)
(* or those that are extracted from it, which must be a vector.            *)
Constituents(b, value) ==
  LET type == LookupType(b, value.type)
      Extract(acc, i) ==
        LET part == AppendInstruction(acc[1], "CompositeExtract", type.operands[1], <<value.id, i - 1>>)
        IN  <<part, Append(acc[2], part.chain.value.id)>>
  IN  CASE value.op = "Constant" -> <<b, <<value.id>>>>
        [] value.op \in {"ConstantComposite", "CompositeConstruct"} -> <<b, value.operands>>
        [] OTHER -> IF type.op # "TypeVector" THEN <<Crash(b), <<>>>>
                    ELSE FoldLeft(Extract, <<b, <<>>>>, [i \in 1 .. type.operands[2] |-> i])

(* A constant whose type is the last one. *)
PutConstant(b) == [b EXCEPT !.chain = RValue(LookupConstant(b, b.id))]
LowerConstant(b, op, operands) == PutConstant(EnsureConstant(b, op, b.id, operands))

(* The scalars of all values, and what is built of these. *)
AppendParts(acc, parts) == <<parts[1], acc[2] \o parts[2]>>
Broken(b, values) ==
  FoldLeft(LAMBDA acc, v : IF acc[1].status # "ok" THEN acc ELSE AppendParts(acc, Constituents(acc[1], v)), <<b, <<>>>>, values)

ConstructOf(b, parts, e, isConstant) ==
  LET constituents == IF Len(parts) = 1 /\ e.type.size > 1 THEN [i \in 1 .. e.type.size |-> parts[1]] ELSE parts
  IN  CASE b.status # "ok" -> b
        [] b.status = "ok" /\ isConstant -> LowerConstant(LowerType(b, e.type), "ConstantComposite", constituents)
        [] OTHER -> AppendTyped(b, "CompositeConstruct", e.type, constituents)

ConstructFrom(b, e, values) ==
  LET broken == Broken(b, values)
  IN  ConstructOf(broken[1], broken[2], e, \A v \in Range(values) : v.op \in {"Constant", "ConstantComposite"})

RECURSIVE Lower(_, _)

(* Lowers expressions one after the other and loads their values. *)
AppendValue(b, values) == <<b, Append(values, b.chain.value)>>
LoadLast(b) == Load(b, b.chain)
LowerArguments(b, es) == FoldLeft(LAMBDA acc, e : AppendValue(LoadLast(Lower(acc[1], e)), acc[2]), <<b, <<>>>>, es)

(* Mutant of LowerBinary: the value of an assignment is the value assigned, *)
(* and a compound assignment stores only its right side.                    *)
LowerBinaryAsRead(b, e) ==
  LET lhs == Lower(b, e.lhs)
      rhs == Lower(lhs, e.rhs)
      left == IF e.isAssign THEN rhs ELSE Load(rhs, lhs.chain)
      right == Load(left, rhs.chain)
  IN  IF right.status # "ok" \/ e.op \notin DOMAIN BinaryOps \cup {"Assign"} THEN Crash(right)
      ELSE IF e.isAssign THEN Store(right, lhs.chain, right.chain.value)
      ELSE AppendTyped(right, BinaryOps[e.op], e.type, <<left.chain.value.id, right.chain.value.id>>)

(* lower_binary_expr(): both sides are lowered, then both loaded. *)
LowerBinary(b, e) ==
  LET lhs == Lower(b, e.lhs)
      rhs == Lower(lhs, e.rhs)
      left == IF e.op = "Assign" THEN rhs ELSE Load(rhs, lhs.chain)
      right == Load(left, rhs.chain)
      computed == IF e.op = "Assign" THEN right
                  ELSE AppendTyped(right, BinaryOps[e.op], e.type, <<left.chain.value.id, right.chain.value.id>>)
  IN  IF right.status # "ok" \/ e.op \notin DOMAIN BinaryOps \cup {"Assign"} THEN Crash(right)
      ELSE IF e.isAssign THEN Store(computed, lhs.chain, computed.chain.value) ELSE computed

(* A call, whose arguments have been lowered to values. *)
Call(b, e, values) ==
  LET ids == [i \in DOMAIN values |-> values[i].id]
  IN  CASE b.status # "ok" -> b
        [] b.status = "ok" /\ e.kind = "ConstructExpr" -> ConstructFrom(b, e, values)
        [] b.status = "ok" /\ e.kind = "CallIntrinsicExpr" -> AppendTyped(b, "Dot", e.type, ids)
        [] b.status = "ok" /\ e.kind = "CallExpr" /\ e.callee \notin DOMAIN b.m_function_map ->
             AppendTyped(b, "ExtInst", e.type, <<Std450, e.callee>> \o ids)
        [] OTHER -> AppendTyped(b, "FunctionCall", e.type, <<b.m_function_map[e.callee]>> \o ids)

LowerCall(b, e) == LET arguments == LowerArguments(b, e.arguments) IN Call(arguments[1], e, arguments[2])

Negate(b, e) == IF b.status # "ok" THEN b ELSE AppendTyped(b, "FNegate", e.type, <<b.chain.value.id>>)

Lower(b, e) ==
  CASE b.status # "ok" -> b
    [] b.status = "ok" /\ e.kind = "BinaryExpr" -> LowerBinary(b, e)
    [] b.status = "ok" /\ e.kind \in {"CallExpr", "CallIntrinsicExpr", "ConstructExpr"} -> LowerCall(b, e)
    [] b.status = "ok" /\ e.kind = "Constant" -> LowerConstant(LowerType(b, e.type), "Constant", <<e.word>>)
    [] b.status = "ok" /\ e.kind = "UnaryExpr" -> Negate(LoadLast(Lower(b, e.operand)), e)
    [] OTHER -> LowerVariable(b, e)

(* A statement, whose expression has been lowered. *)
Return(b) ==
  LET value == b.chain.value
  IN  CASE b.status # "ok" -> b
        [] b.status = "ok" /\ b.m_fragment_output_chain # <<>> -> Store(b, b.m_fragment_output_chain[1], value)
        [] OTHER -> [b EXCEPT !.block = Append(@, Instruction("ReturnValue", 0, 0, <<value.id>>))]
LowerStatement(b, s) == IF s.kind = "ExprStmt" THEN Lower(b, s.expr) ELSE Return(LoadLast(Lower(b, s.expr)))

IsEntry(f) == f.name \in {"vertex_main", "fragment_main"}
LowerReturned(b, f) == IF IsEntry(f) THEN EnsureType(b, "TypeVoid", <<>>) ELSE LowerType(b, f.returned)

(* A function with parameters of these types, which returns the last type. *)
Define(b, f, parameters) ==
  LET type == EnsureType(b, "TypeFunction", <<b.id>> \o (IF IsEntry(f) THEN <<>> ELSE parameters))
  IN  [type EXCEPT !.definition = Instruction("Function", type.m_next_id, b.id, <<type.id>>), !.m_next_id = @ + 1]

Begin(b, f) ==
  [b EXCEPT
    !.m_function_map = (f.callable :> b.definition.id) @@ @,
    !.m_fragment_output_chain = <<>>,
    !.m_entry_point = IF IsEntry(f) THEN Len(b.m_entry_points) + 1 ELSE NoEntryPoint,
    !.m_entry_points = IF IsEntry(f) THEN Append(@, [name |-> f.name, function |-> b.definition.id, interface |-> <<>>]) ELSE @]

(* The output of the fragment stage, to which a return stores. *)
KeepOutput(b) == [b EXCEPT !.m_fragment_output_chain = <<b.chain>>]
Enter(b, f) ==
  IF f.name # "fragment_main" THEN b
  ELSE KeepOutput(Decorate(AppendInterface(LowerType(b, f.returned), "Output"), <<"Location", 0>>))

OpenBlock(b) == [b EXCEPT !.label = b.m_next_id, !.m_next_id = @ + 1, !.variables = <<>>, !.block = <<>>]

(* The end of the function, in build(). *)
EndFunction(b) ==
  LET isTerminated == b.block # <<>> /\ Last(b.block).op = "ReturnValue"
      block == IF isTerminated THEN b.block ELSE Append(b.block, Instruction("Return", 0, 0, <<>>))
  IN  IF b.status # "ok" THEN b
      ELSE [b EXCEPT
        !.m_entry_point = NoEntryPoint,
        !.m_functions = Append(@, [definition |-> b.definition, label |-> b.label, variables |-> b.variables, block |-> block])]

(* lower_function_decl(). *)
LowerFunction(b, f) ==
  LET types == LowerTypes(b, f.parameters)
      begun == Begin(Define(LowerReturned(types[1], f), f, types[2]), f)
  IN  EndFunction(FoldLeft(LowerStatement, OpenBlock(Enter(begun, f)), f.body))

=============================================================================
