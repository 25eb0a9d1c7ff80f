--------------------------- MODULE ShaderLegaliser ---------------------------
(***************************************************************************)
(* The legaliser of the shader language (sources/shaderc/legaliser.cc), as *)
(* functions from legalisers to legalisers: names are resolved, every      *)
(* expression gets a type, and multiplications become specific.            *)
(*                                                                         *)
(* An expression is a record with its kind and its type.  A variable has a *)
(* number, by which it is the same node wherever it is used.  A scope      *)
(* refuses the names of the scopes around it, so that one function from    *)
(* names to variables stands for all of them.                              *)
(***************************************************************************)
EXTENDS Naturals, SequencesExt, FiniteSetsExt, Functions, TLC

CONSTANTS
  LiteralTypes,   (* the literals, and the type of each: float, uint or string *)
  Word            (* the word of each number; numbers of two types may share it *)

Type(scalar, size, columns) == [scalar |-> scalar, image |-> "none", size |-> size, columns |-> columns]
Image(sampled) == [scalar |-> "float", image |-> sampled, size |-> 0, columns |-> 0]
Invalid == Type("invalid", 0, 0)
Float == Type("float", 1, 1)
Void == Type("void", 1, 1)

BuiltinTypes ==
  [t \in {"float", "int", "uint", "void", "sampler"} |-> Type(t, 1, 1)]
  @@ ("vec2" :> Type("float", 2, 1)) @@ ("vec3" :> Type("float", 3, 1)) @@ ("vec4" :> Type("float", 4, 1))
  @@ ("ivec2" :> Type("int", 2, 1)) @@ ("ivec3" :> Type("int", 3, 1)) @@ ("ivec4" :> Type("int", 4, 1))
  @@ ("uvec2" :> Type("uint", 2, 1)) @@ ("uvec3" :> Type("uint", 3, 1)) @@ ("uvec4" :> Type("uint", 4, 1))
  @@ ("mat3" :> Type("float", 3, 3)) @@ ("mat4" :> Type("float", 4, 4))
  @@ ("image2D" :> Image("storage")) @@ ("texture2D" :> Image("sampled"))

IsMatrix(t) == t.columns > 1
IsVector(t) == ~IsMatrix(t) /\ t.size > 1
IsScalar(t) == t.image = "none" /\ ~IsMatrix(t) /\ ~IsVector(t)

NoCallable == 0
Legaliser ==
  [status |-> "ok", symbols |-> <<>>, variables |-> 0, callables |-> <<>>, pipeline |-> <<>>, body |-> <<>>, function |-> <<>>]

Refuse(l) == [l EXCEPT !.status = "error"]

Bad == [kind |-> "Bad", type |-> Invalid]
Variable(kind, id, type, index) == [kind |-> kind, id |-> id, type |-> type, index |-> index]

(* put_symbol() of a new variable. *)
PutSymbol(l, name, kind, type, index) ==
  IF l.status # "ok" \/ name \in DOMAIN l.symbols THEN Refuse(l)
  ELSE [l EXCEPT !.symbols = (name :> Variable(kind, l.variables, type, index)) @@ @, !.variables = @ + 1]

(* find_overload(): the parameters must be of exactly the types given. *)
FindOverload(l, name, types) ==
  LET matches == {i \in DOMAIN l.callables : l.callables[i].name = name /\ l.callables[i].parameters = types}
  IN  IF matches = {} THEN NoCallable ELSE Min(matches)

(* What a multiplication is, by the types of its operands, and its type. *)
Multiplication(l, r) ==
  CASE IsVector(l) /\ IsScalar(r) -> <<"VectorTimesScalar", l>>
    [] IsScalar(l) /\ IsVector(r) -> <<"VectorTimesScalar", r>>
    [] IsMatrix(l) /\ IsScalar(r) -> <<"MatrixTimesScalar", l>>
    [] IsScalar(l) /\ IsMatrix(r) -> <<"MatrixTimesScalar", r>>
    [] IsVector(l) /\ IsMatrix(r) -> <<"VectorTimesMatrix", Type(l.scalar, r.columns, 1)>>
    [] IsMatrix(l) /\ IsVector(r) -> <<"MatrixTimesVector", Type(l.scalar, l.size, 1)>>
    [] IsMatrix(l) /\ IsMatrix(r) -> <<"MatrixTimesMatrix", Type(l.scalar, r.columns, l.size)>>
    [] IsScalar(l) /\ IsScalar(r) -> <<"ScalarTimesScalar", Type(l.scalar, 1, 1)>>
    [] IsVector(l) /\ IsVector(r) -> <<"VectorTimesVector", l>>
    [] OTHER -> <<"Mul", Invalid>>

Assigning == [op \in {"Assign", "AddAssign", "SubAssign", "MulAssign", "DivAssign"} |->
                CASE op = "Assign" -> "Assign" [] op = "AddAssign" -> "Add" [] op = "SubAssign" -> "Sub"
                  [] op = "MulAssign" -> "Mul" [] op = "DivAssign" -> "Div"]

Binary(op, isAssign, type, lhs, rhs) ==
  [kind |-> "BinaryExpr", type |-> type, op |-> op, isAssign |-> isAssign, lhs |-> lhs, rhs |-> rhs]

(* lower_binary_expr().  Only multiplication looks at both types. *)
LowerBinaryExpr(op, lhs, rhs) ==
  LET isAssign == op \in DOMAIN Assigning
      plain == IF isAssign THEN Assigning[op] ELSE op
      multiplication == Multiplication(lhs.type, rhs.type)
  IN  IF plain = "Mul" THEN Binary(multiplication[1], isAssign, IF isAssign THEN lhs.type ELSE multiplication[2], lhs, rhs)
      ELSE Binary(plain, isAssign, lhs.type, lhs, rhs)

RECURSIVE LowerExpr(_, _)
LowerExpr(l, e) ==
  LET Lowered(es) == [i \in DOMAIN es |-> LowerExpr(l, es[i])]
      AnyBad(es) == \E x \in Range(es) : x.kind = "Bad"
  IN
  CASE e[1] = "Symbol" -> IF e[2] \in DOMAIN l.symbols THEN l.symbols[e[2]] ELSE Bad
    [] e[1] = "Constant" -> [kind |-> "Constant", type |-> BuiltinTypes[LiteralTypes[e[2]]], word |-> Word[e[2]]]
    [] e[1] = "Negate" ->
         LET operand == LowerExpr(l, e[2])
         IN  IF operand.kind = "Bad" THEN Bad ELSE [kind |-> "UnaryExpr", type |-> operand.type, operand |-> operand]
    [] e[1] = "Binary" ->
         LET sides == Lowered(<<e[3], e[4]>>)
         IN  IF AnyBad(sides) THEN Bad ELSE LowerBinaryExpr(e[2], sides[1], sides[2])
    [] e[1] = "Construct" ->
         LET values == Lowered(e[3])
         IN  IF AnyBad(values) THEN Bad ELSE [kind |-> "ConstructExpr", type |-> BuiltinTypes[e[2]], arguments |-> values]
    [] e[1] = "Call" ->
         LET arguments == Lowered(e[3])
             callee == FindOverload(l, e[2], [i \in DOMAIN arguments |-> arguments[i].type])
         IN  CASE AnyBad(arguments) \/ (e[4] /\ e[2] # "dot") \/ (~e[4] /\ callee = NoCallable) -> Bad
               [] ~AnyBad(arguments) /\ e[4] /\ e[2] = "dot" ->
                    [kind |-> "CallIntrinsicExpr", type |-> Float, arguments |-> arguments]
               [] OTHER ->
                    [kind |-> "CallExpr", type |-> l.callables[callee].returned, callee |-> callee, arguments |-> arguments]

(* lower_decl_stmt(): the name is visible to its own initial value, without *)
(* a type unless it was given one.                                          *)
LowerDeclStmt(l, s) ==
  LET declared == IF s[3] = "" THEN Invalid ELSE BuiltinTypes[s[3]]
      named == PutSymbol(l, s[2], "LocalVariable", declared, <<>>)
      value == LowerExpr(named, s[4])
      variable == [named.symbols[s[2]] EXCEPT !.type = value.type]
      assign == [kind |-> "ExprStmt", expr |-> Binary("Assign", TRUE, value.type, variable, value)]
  IN  IF named.status # "ok" \/ s[4] = <<>> THEN named
      ELSE IF value.kind = "Bad" \/ (declared # Invalid /\ declared # value.type) THEN Refuse(named)
      ELSE [named EXCEPT !.symbols[s[2]] = variable, !.body = Append(@, assign)]

LowerStmt(l, s) ==
  LET expr == LowerExpr(l, IF s[1] = "ReturnStmt" THEN s[2] ELSE s)
      kind == IF s[1] = "ReturnStmt" THEN "ReturnStmt" ELSE "ExprStmt"
  IN  CASE l.status # "ok" -> l
        [] l.status = "ok" /\ s[1] = "DeclStmt" -> LowerDeclStmt(l, s)
        [] OTHER -> IF expr.kind = "Bad" THEN Refuse(l) ELSE [l EXCEPT !.body = Append(@, [kind |-> kind, expr |-> expr])]

Attributes(node) == {a[1] : a \in Range(Last(node))}
Attribute(node, name) == SelectSeq(Last(node), LAMBDA a : a[1] = name)[1][2]

AddCallable(l, name, parameters, returned, isExternal) ==
  [l EXCEPT !.callables = Append(@, [name |-> name, parameters |-> parameters, returned |-> returned, isExternal |-> isExternal])]

(* The names a function sees: its parameters, which are the inputs of the  *)
(* vertex stage, and a variable of its own for each pipeline declaration.  *)
Scope(l, d) ==
  LET isVertex == d[2] = "vertex_main"
      parameters ==
        FoldLeftDomain(LAMBDA acc, i :
          PutSymbol(acc, d[3][i][1], IF isVertex THEN "PipelineVariable" ELSE "Argument", BuiltinTypes[d[3][i][2]],
                    <<"Input", "Location", i - 1>>), l, d[3])
      variables ==
        FoldLeftDomain(LAMBDA acc, i :
          PutSymbol(acc, l.pipeline[i][1], "PipelineVariable", l.pipeline[i][2],
                    <<IF isVertex THEN "Output" ELSE "Input", "Location", i - 1>>), parameters, l.pipeline)
  IN  IF isVertex
      THEN PutSymbol(variables, "gl_Position", "PipelineVariable", Type("float", 4, 1), <<"Output", "BuiltIn", 0>>)
      ELSE variables

LowerFunctionDecl(l, d) ==
  LET parameters == [i \in DOMAIN d[3] |-> BuiltinTypes[d[3][i][2]]]
      returned == BuiltinTypes[d[4]]
      isExternal == "ext_inst" \in Attributes(d)
      hasBody == d[5] # <<>>
      instruction == Attribute(d, "ext_inst")
      wellAttributed ==
        Len(instruction) = 2 /\ instruction[1] = "GLSL.std.450"
        /\ instruction[2] \in DOMAIN LiteralTypes /\ LiteralTypes[instruction[2]] = "uint"
      body == FoldLeft(LowerStmt, Scope([l EXCEPT !.body = <<>>], d), d[5][2])
      function == [name |-> d[2], callable |-> Len(l.callables) + 1, parameters |-> parameters, returned |-> returned, body |-> body.body]
  IN  CASE FindOverload(l, d[2], parameters) # NoCallable \/ hasBody = isExternal -> Refuse(l)
        [] OTHER ->
             IF isExternal
             THEN IF wellAttributed THEN AddCallable([l EXCEPT !.function = <<>>], d[2], parameters, returned, TRUE) ELSE Refuse(l)
             ELSE IF body.status # "ok" THEN Refuse(l)
             ELSE [AddCallable(body, d[2], parameters, returned, FALSE) EXCEPT !.symbols = l.symbols, !.function = <<function>>]

LowerIoDecl(l, d) ==
  LET Index(name) == IF name \in Attributes(d) THEN Attribute(d, name)[1] ELSE "0"
      isDescriptor == {"set", "binding"} \cap Attributes(d) # {}
      isPushConstant == "push_constant" \in Attributes(d)
      type == BuiltinTypes[d[4]]
  IN  CASE d[2] = "pipeline" -> [l EXCEPT !.pipeline = Append(@, <<d[3], type>>), !.function = <<>>]
        [] d[2] = "uniform" /\ isDescriptor = isPushConstant -> Refuse(l)
        [] d[2] = "uniform" /\ isPushConstant /\ ~isDescriptor ->
             PutSymbol([l EXCEPT !.function = <<>>], d[3], "PushConstant", type, <<"PushConstant">>)
        [] OTHER ->
             PutSymbol([l EXCEPT !.function = <<>>], d[3], "DescriptorBinding", type,
                       <<"UniformConstant", Index("set"), Index("binding")>>)

(* lower_top_level(): "function" is what is appended to the output, if     *)
(* anything is.                                                            *)
LowerTopLevel(l, d) == IF d[1] = "IoDecl" THEN LowerIoDecl(l, d) ELSE LowerFunctionDecl(l, d)

=============================================================================
