--------------------------- MODULE ShaderCompiler ---------------------------
(***************************************************************************)
(* The compiler of the shader language (tools/vslc.cc over engine/sources/ *)
(* shaderc): a text is parsed, then legalised, then lowered to SPIR-V, one *)
(* declaration after the other.                                            *)
(*                                                                         *)
(* A source is a sequence of declarations: "head" is the tokens up to the  *)
(* body, "body" the statements, each with the tokens before its expression *)
(* and those of the expression.  The parser sees nothing but the tokens.   *)
(***************************************************************************)
EXTENDS Naturals, SequencesExt, FiniteSetsExt, Functions, TLC

CONSTANTS
  Sources,       (* the sources that are compiled                           *)
  Malformed,     (* those among them that must be refused                   *)
  Unsupported,   (* those at which the compiler is known to stop            *)
  LiteralTypes,  (* the literals in them, and the type of each              *)
  Word           (* the word that stands for a number                       *)

VARIABLES
  source,
  parser,
  ast,           (* the declarations parsed so far                          *)
  legaliser,
  legalised,     (* how many of them are legalised                          *)
  hir,           (* the functions that came of them                         *)
  backend

vars == <<source, parser, ast, legaliser, legalised, hir, backend>>

L == INSTANCE ShaderLegaliser
P == INSTANCE ShaderParser WITH Literals <- LiteralTypes, TypeNames <- DOMAIN L!BuiltinTypes
B == INSTANCE ShaderBackend

StatementTokens(s) == s.intro \o s.expr \o <<";">>
Tokens(d) ==
  d.head \o (IF d.body = <<>> THEN <<>>
             ELSE <<"{">> \o FlattenSeq([i \in DOMAIN d.body |-> StatementTokens(d.body[i])]) \o <<"}">>)

Init ==
  /\ source \in Sources
  /\ parser = P!Parser(FlattenSeq([i \in DOMAIN source |-> Tokens(source[i])]))
  /\ ast = <<>> /\ legaliser = L!Legaliser /\ legalised = 0 /\ hir = <<>> /\ backend = B!Backend

Parse ==
  LET parsed == P!ParseTopLevel(parser)
  IN  /\ parser.status = "ok" /\ parser.tokens # <<>>
      /\ parser' = parsed
      /\ ast' = IF parsed.status = "ok" THEN Append(ast, parsed.node) ELSE ast
      /\ UNCHANGED <<source, legaliser, legalised, hir, backend>>

IsParsed == parser.status = "ok" /\ parser.tokens = <<>>

Legalise ==
  LET lowered == L!LowerTopLevel(legaliser, ast[legalised + 1])
  IN  /\ IsParsed /\ legaliser.status = "ok" /\ legalised < Len(ast)
      /\ legaliser' = lowered /\ legalised' = legalised + 1
      /\ hir' = IF lowered.status = "ok" THEN hir \o lowered.function ELSE hir
      /\ UNCHANGED <<source, parser, ast, backend>>

IsLegal == IsParsed /\ legaliser.status = "ok" /\ legalised = Len(ast)

BuildSpv ==
  /\ IsLegal /\ backend.status = "ok" /\ Len(backend.m_functions) < Len(hir)
  /\ backend' = B!LowerFunction(backend, hir[Len(backend.m_functions) + 1])
  /\ UNCHANGED <<source, parser, ast, legaliser, legalised, hir>>

IsBuilt == IsLegal /\ backend.status = "ok" /\ Len(backend.m_functions) = Len(hir)

Next == Parse \/ Legalise \/ BuildSpv

-----------------------------------------------------------------------------
(* The grammar of expressions, without stacks: an expression is split at    *)
(* the operator that binds least, assignments to the right of the first,    *)
(* the others to the left of the last.                                      *)

Depth(ts, i) == Cardinality({j \in 1 .. i - 1 : ts[j] = "("}) - Cardinality({j \in 1 .. i - 1 : ts[j] = ")"})
EndsOperand(t) == P!IsOperand(t) \/ t = ")"
Splits(ts, operators) == {i \in 2 .. Len(ts) : ts[i] \in operators /\ EndsOperand(ts[i - 1]) /\ Depth(ts, i) = 0}

RECURSIVE Tree(_)
Tree(ts) ==
  LET assignments == Splits(ts, {"=", "+=", "-=", "*=", "/="})
      sums == Splits(ts, {"+", "-"})
      products == Splits(ts, {"*", "/", "%"})
      At(i) == <<"Binary", P!BinaryOperator[ts[i]], Tree(SubSeq(ts, 1, i - 1)), Tree(SubSeq(ts, i + 1, Len(ts)))>>
      name == IF ts[1] = "@" THEN 2 ELSE 1
      inner == SubSeq(ts, name + 2, Len(ts) - 1)
      cuts == SetToSortSeq({0, Len(inner) + 1} \cup Splits(inner, {","}), <)
      arguments == IF inner = <<>> THEN <<>>
                   ELSE [k \in 1 .. Len(cuts) - 1 |-> Tree(SubSeq(inner, cuts[k] + 1, cuts[k + 1] - 1))]
  IN  IF assignments # {} THEN At(Min(assignments))
      ELSE IF sums # {} THEN At(Max(sums))
      ELSE IF products # {} THEN At(Max(products))
      ELSE IF ts[1] = "-" THEN <<"Negate", Tree(Tail(ts))>>
      ELSE IF Len(ts) = 1 THEN P!Operand(ts[1])
      ELSE IF ts[1] = "(" THEN Tree(SubSeq(ts, 2, Len(ts) - 1))
      ELSE IF ts[name] \in DOMAIN L!BuiltinTypes THEN <<"Construct", ts[name], arguments>>
      ELSE <<"Call", ts[name], arguments, name = 2>>

ExprOf(s) == CASE s[1] = "DeclStmt" -> s[4] [] s[1] = "ReturnStmt" -> s[2] [] OTHER -> s

ParsedByTheGrammar ==
  \A i \in DOMAIN ast : \A j \in DOMAIN source[i].body :
    ExprOf(ast[i][5][2][j]) = (IF source[i].body[j].expr = <<>> THEN <<>> ELSE Tree(source[i].body[j].expr))

-----------------------------------------------------------------------------
(* The meaning of a function: what it leaves in its outputs, as a term over *)
(* its inputs.  An environment gives each name its type and its term.       *)

Undefined == <<"Undefined">>
Entry(type, term) == [type |-> type, term |-> term]

(* The scalars of a value. *)
Parts(value) ==
  IF value.term[1] = "Vector" THEN value.term[2]
  ELSE IF L!IsScalar(value.type) THEN <<value.term>>
  ELSE [i \in 1 .. value.type.size |-> <<"Part", value.term, i - 1>>]

RECURSIVE Target(_)
Target(e) == IF e[1] = "Symbol" THEN e[2] ELSE Target(e[3])

RECURSIVE Evaluate(_, _)
EvaluateAll(env, es) ==
  FoldLeft(LAMBDA acc, e : LET v == Evaluate(acc.env, e) IN [env |-> v.env, values |-> Append(acc.values, v.value)],
           [env |-> env, values |-> <<>>], es)

Evaluate(env, e) ==
  LET isPlain == e[2] = "Assign"
      sides == EvaluateAll(env, IF isPlain /\ e[3][1] = "Symbol" THEN <<e[4]>> ELSE <<e[3], e[4]>>)
      rhs == Last(sides.values)
      lhs == IF isPlain THEN rhs ELSE sides.values[1]
      isAssign == e[2] \in P!Assignments
      op == IF isAssign THEN L!Assigning[e[2]] ELSE e[2]
      result == IF isPlain THEN rhs
                ELSE Entry(IF op = "Mul" THEN L!Multiplication(lhs.type, rhs.type)[2] ELSE lhs.type, <<op, lhs.term, rhs.term>>)
      operand == Evaluate(env, e[2])
      arguments == EvaluateAll(env, e[3])
      parts == FlattenSeq([i \in DOMAIN arguments.values |-> Parts(arguments.values[i])])
      type == L!BuiltinTypes[e[2]]
      terms == [i \in DOMAIN arguments.values |-> arguments.values[i].term]
      returned == L!Type("float", 1, 1)
      In(environment, value) == [env |-> environment, value |-> value]
  IN  CASE e[1] = "Symbol" -> In(env, env[e[2]])
        [] e[1] = "Constant" -> In(env, Entry(L!BuiltinTypes[LiteralTypes[e[2]]], <<"Constant", Word[e[2]]>>))
        [] e[1] = "Negate" -> In(operand.env, Entry(operand.value.type, <<"Negate", operand.value.term>>))
        [] e[1] = "Binary" -> In(IF isAssign THEN [sides.env EXCEPT ![Target(e[3])] = result] ELSE sides.env, result)
        [] e[1] = "Construct" ->
             In(arguments.env, Entry(type, <<"Vector", IF Len(parts) = 1 THEN [i \in 1 .. type.size |-> parts[1]] ELSE parts>>))
        [] e[1] = "Call" -> In(arguments.env, Entry(returned, <<"Call", e[2], terms>>))

(* The environment a declaration begins with, and the outputs it has. *)
Before(i, kind) == SelectSeq(SubSeq(ast, 1, i - 1), LAMBDA d : d[1] = "IoDecl" /\ d[2] = kind)
Key(d) ==
  LET Index(name) == IF name \in L!Attributes(d) THEN L!Attribute(d, name)[1] ELSE "0"
  IN  IF "push_constant" \in L!Attributes(d) THEN <<"PushConstant">> ELSE <<Index("set"), Index("binding")>>
Environment(i) ==
  LET d == ast[i]
      isVertex == d[2] = "vertex_main"
      uniforms == Before(i, "uniform")
      pipeline == Before(i, "pipeline")
      At(k) == <<"Input", <<"Location", k - 1>>>>
  IN  [n \in {uniforms[k][3] : k \in DOMAIN uniforms} |->
         LET k == CHOOSE k \in DOMAIN uniforms : uniforms[k][3] = n IN Entry(L!BuiltinTypes[uniforms[k][4]], <<"Input", Key(uniforms[k])>>)]
      @@ [n \in {pipeline[k][3] : k \in DOMAIN pipeline} |->
         LET k == CHOOSE k \in DOMAIN pipeline : pipeline[k][3] = n IN Entry(L!BuiltinTypes[pipeline[k][4]], IF isVertex THEN Undefined ELSE At(k))]
      @@ [n \in {d[3][k][1] : k \in DOMAIN d[3]} |->
         LET k == CHOOSE k \in DOMAIN d[3] : d[3][k][1] = n IN Entry(L!BuiltinTypes[d[3][k][2]], At(k))]
      @@ ("gl_Position" :> Entry(L!BuiltinTypes["vec4"], Undefined))
Outputs(i) ==
  LET pipeline == Before(i, "pipeline")
  IN  IF ast[i][2] # "vertex_main" THEN <<>>
      ELSE [key \in {<<"Location", k - 1>> : k \in DOMAIN pipeline} |-> pipeline[key[2] + 1][3]] @@ (<<"BuiltIn", 0>> :> "gl_Position")

(* What the declaration says: a statement may bind a name or return. *)
Meaning(i) ==
  LET Step(acc, s) ==
        LET v == Evaluate(acc.env, ExprOf(s))
        IN  CASE s[1] = "DeclStmt" /\ s[4] = <<>> -> [acc EXCEPT !.env = (s[2] :> Entry(L!BuiltinTypes[s[3]], Undefined)) @@ @]
              [] s[1] = "DeclStmt" /\ s[4] # <<>> -> [acc EXCEPT !.env = (s[2] :> v.value) @@ v.env]
              [] s[1] = "ReturnStmt" -> [env |-> v.env, result |-> {<<<<"Location", 0>>, v.value.term>>}]
              [] OTHER -> [acc EXCEPT !.env = v.env]
      end == FoldLeft(Step, [env |-> Environment(i), result |-> {}], ast[i][5][2])
      outputs == Outputs(i)
  IN  end.result \cup {<<key, end.env[outputs[key]].term>> : key \in {k \in DOMAIN outputs : end.env[outputs[k]].term # Undefined}}

-----------------------------------------------------------------------------
(* The module that is built, in the order of build(), and what it computes. *)

Interface == FlattenSeq([i \in DOMAIN backend.m_entry_points |-> backend.m_entry_points[i].interface])
FunctionLayout(f) == <<f.definition, B!Instruction("Label", f.label, 0, <<>>)>> \o f.variables \o f.block
Layout ==
  backend.m_types \o backend.m_constants \o Interface
  \o FlattenSeq([i \in DOMAIN backend.m_functions |-> FunctionLayout(backend.m_functions[i])])

Defined(id) == CHOOSE x \in Range(Layout) : x.id = id
KeyOf(variable) ==
  LET d == SelectSeq(backend.m_decorations, LAMBDA x : x[1] = variable.id)
  IN  IF d = <<>> THEN <<"PushConstant">> ELSE Tail(d[1])

Meant == [op \in {"FAdd", "FSub", "FDiv"} |-> CASE op = "FAdd" -> "Add" [] op = "FSub" -> "Sub" [] OTHER -> "Div"]
NameOf(f) == LET i == CHOOSE i \in DOMAIN backend.m_functions : backend.m_functions[i].definition.id = f IN hir[i].name

(* Executes a function: the terms of its ids, and what is in the variables. *)
Execute(f) ==
  LET interface == Range(Interface)
      inputs == {v \in interface : v.operands[1] # "Output"}
      start == [terms |-> [c \in {x.id : x \in Range(backend.m_constants)} |-> Undefined],
                memory |-> [id \in {v.id : v \in inputs} |-> <<"Input", KeyOf(Defined(id))>>], result |-> {}]
      constants ==
        FoldLeft(LAMBDA acc, c :
          (c.id :> IF c.op = "Constant" THEN <<"Constant", c.operands[1]>>
                   ELSE <<"Vector", [i \in DOMAIN c.operands |-> acc[c.operands[i]]]>>) @@ acc, <<>>, backend.m_constants)
      Step(acc, x) ==
        LET Term(i) == acc.terms[x.operands[i]]
            From(n) == [i \in 1 .. Len(x.operands) - n + 1 |-> Term(i + n - 1)]
            term ==
              CASE x.op = "Load" -> acc.memory[x.operands[1]]
                [] x.op = "FNegate" -> <<"Negate", Term(1)>>
                [] x.op \in DOMAIN Meant -> <<Meant[x.op], Term(1), Term(2)>>
                [] x.op = "CompositeConstruct" -> <<"Vector", From(1)>>
                [] x.op = "CompositeExtract" ->
                     IF Term(1)[1] = "Vector" THEN Term(1)[2][x.operands[2] + 1] ELSE <<"Part", Term(1), x.operands[2]>>
                [] x.op = "Dot" -> <<"Call", "dot", From(1)>>
                [] x.op = "ExtInst" -> <<"Call", legaliser.callables[x.operands[2]].name, From(3)>>
                [] x.op = "FunctionCall" -> <<"Call", NameOf(x.operands[1]), From(2)>>
                [] OTHER -> <<"Mul", Term(1), Term(2)>>
        IN  CASE x.op = "Store" -> [acc EXCEPT !.memory = (x.operands[1] :> Term(2)) @@ @]
              [] x.op = "ReturnValue" -> [acc EXCEPT !.result = {<<<<"Location", 0>>, Term(1)>>}]
              [] x.op = "Return" -> acc
              [] OTHER -> [acc EXCEPT !.terms = (x.id :> term) @@ @]
      end == FoldLeft(Step, [start EXCEPT !.terms = constants], f.block)
  IN  end.result \cup {<<KeyOf(v), end.memory[v.id]>> : v \in {w \in interface \ inputs : w.id \in DOMAIN end.memory}}

ComputesTheSource ==
  LET bodies == SelectSeq([i \in DOMAIN ast |-> i], LAMBDA i : ast[i][1] = "FunctionDecl" /\ ast[i][5] # <<>>)
  IN  \A k \in DOMAIN bodies : Execute(backend.m_functions[k]) = Meaning(bodies[k])

-----------------------------------------------------------------------------
(* The rules of SPIR-V that the builder has to keep. *)

IdsUsed(x) ==
  LET all == Range(x.operands)
  IN  (IF x.type = 0 THEN {} ELSE {x.type})
      \cup CASE x.op \in {"TypeVoid", "TypeFloat", "TypeInt", "TypeSampler", "Constant", "Variable", "Label", "Return"} -> {}
             [] x.op \in {"TypeVector", "TypeMatrix", "TypeImage", "CompositeExtract"} -> {x.operands[1]}
             [] x.op = "TypePointer" -> {x.operands[2]}
             [] x.op = "ExtInst" -> Range(SubSeq(x.operands, 3, Len(x.operands)))
             [] OTHER -> all

IdsDefinedOnce ==
  LET layout == Layout
  IN  \A i \in DOMAIN layout :
        /\ layout[i].id # 0 => layout[i].id < backend.m_next_id /\ \A j \in DOMAIN layout : layout[j].id = layout[i].id => i = j
        /\ IdsUsed(layout[i]) \subseteq {layout[j].id : j \in 1 .. i - 1}

WellTyped(f, x) ==
  LET T(i) == Defined(x.operands[i]).type
      type == Defined(x.type)
      Is(t, op) == Defined(t).op = op
      Inner(t) == B!InnerType(backend, t)
      Same(n) == \A i \in n .. Len(x.operands) : T(i) = x.type
  IN  CASE x.op = "Load" -> x.type = Inner(T(1))
        [] x.op = "Store" -> T(2) = Inner(T(1))
        [] x.op \in {"FAdd", "FSub", "FDiv", "FMul", "FNegate"} -> Same(1)
        [] x.op = "VectorTimesScalar" -> T(1) = x.type /\ Is(T(1), "TypeVector") /\ T(2) = Inner(T(1))
        [] x.op = "MatrixTimesScalar" -> T(1) = x.type /\ Is(T(1), "TypeMatrix") /\ T(2) = Inner(Inner(T(1)))
        [] x.op = "VectorTimesMatrix" -> Is(T(1), "TypeVector") /\ Is(T(2), "TypeMatrix") /\ T(1) = Inner(T(2)) /\ Is(x.type, "TypeVector")
        [] x.op = "MatrixTimesVector" -> Is(T(1), "TypeMatrix") /\ Is(T(2), "TypeVector") /\ x.type = Inner(T(1))
        [] x.op = "MatrixTimesMatrix" -> Is(T(1), "TypeMatrix") /\ Is(T(2), "TypeMatrix") /\ Is(x.type, "TypeMatrix")
        [] x.op = "Dot" -> Is(T(1), "TypeVector") /\ T(1) = T(2) /\ x.type = Inner(T(1))
        [] x.op \in {"ConstantComposite", "CompositeConstruct"} ->
             type.op = "TypeVector" /\ Len(x.operands) = type.operands[2] /\ \A i \in DOMAIN x.operands : T(i) = type.operands[1]
        [] x.op = "CompositeExtract" -> x.type = Inner(T(1)) /\ x.operands[2] < Defined(T(1)).operands[2]
        [] x.op = "ExtInst" -> Same(3)
        [] x.op = "FunctionCall" ->
             LET callee == Defined(Defined(x.operands[1]).operands[1])
             IN  x.type = callee.operands[1] /\ [i \in 2 .. Len(x.operands) |-> T(i)] = [i \in 2 .. Len(callee.operands) |-> callee.operands[i]]
        [] x.op = "ReturnValue" -> T(1) = f.definition.type
        [] OTHER -> TRUE

InterfacesComplete ==
  \A e \in Range(backend.m_entry_points) :
    LET f == CHOOSE f \in Range(backend.m_functions) : f.definition.id = e.function
        used == UNION {IdsUsed(x) : x \in Range(f.block)}
    IN  {v.id : v \in Range(Interface)} \cap used \subseteq {v.id : v \in Range(e.interface)}

ValidModule ==
  /\ IdsDefinedOnce
  /\ \A x \in Range(backend.m_constants) : WellTyped(<<>>, x)
  /\ \A f \in Range(backend.m_functions) : \A x \in Range(f.block) : WellTyped(f, x)
  /\ InterfacesComplete

(* A source is parsed into the trees of the grammar; what is built of it is *)
(* a module that keeps the rules of SPIR-V and computes what the source     *)
(* says; it is refused only if the source is none of the language, and the  *)
(* compiler stops at an assertion only where it is known to.                *)
CompilesFaithfully ==
  LET Reaches(status) == status \in {parser.status, legaliser.status, backend.status}
  IN  /\ (IsBuilt => source \notin Malformed \cup Unsupported /\ ParsedByTheGrammar /\ ValidModule /\ ComputesTheSource)
      /\ (Reaches("error") => source \in Malformed)
      /\ (Reaches("crashed") => source \in Unsupported)

=============================================================================
