------------------------------ MODULE Workloads ------------------------------
(***************************************************************************)
(* What components are run with: the passes of a frame of the program, as  *)
(* its renderers add them to the render graph, programs of the script      *)
(* language, and sources of the shader languages.                          *)
(***************************************************************************)
EXTENDS Naturals, SequencesExt, TLC

(* Pass kinds, and what each pass reads and writes, in the order of the    *)
(* calls.                                                                  *)
Read(x) == [access |-> "read", of |-> x, flag |-> "None"]
ReadAs(x, flag) == [access |-> "read", of |-> x, flag |-> flag]
Write(x) == [access |-> "write", of |-> x, flag |-> "None"]
WriteOver(x) == [access |-> "write", of |-> x, flag |-> "Additive"]
Pass(kind, ops) == [kind |-> kind, ops |-> ops]

(* DeferredRenderer::create_gbuffer(), the images of the renderers and the *)
(* swapchain image that is imported.                                       *)
FrameImages == {"albedo", "normal", "depth", "depth-pyramid", "hdr-image", "output-image"}
FrameResources ==
  <<"output-image", "albedo", "normal", "depth", "default-descriptor-buffer", "frame-ubo", "object-buffer", "draw-buffer",
    "depth-pyramid", "deferred-descriptor-buffer", "light-buffer", "light-visibility", "hdr-image">>

(* DefaultRenderer::build_pass(): objects are culled against the last      *)
(* frame, drawn, culled against the depth pyramid of what was drawn, and   *)
(* the rest drawn over it.                                                 *)
DefaultPasses ==
  <<Pass("Transfer", <<Write("default-descriptor-buffer"), Write("frame-ubo"), Write("object-buffer")>>),
    Pass("Compute", <<Read("frame-ubo"), Write("draw-buffer")>>),
    Pass("Graphics", <<ReadAs("draw-buffer", "Indirect"), Write("albedo"), Write("normal"), Write("depth")>>),
    Pass("Compute", <<Read("depth"), Write("depth-pyramid")>>),
    Pass("Compute", <<Read("depth-pyramid"), Write("draw-buffer")>>),
    Pass("Graphics", <<ReadAs("draw-buffer", "Indirect"), WriteOver("albedo"), WriteOver("normal"), WriteOver("depth")>>)>>

(* DeferredRenderer::build_pass(): lights per tile, shading, tone mapping. *)
DeferredPasses ==
  <<Pass("Compute", <<Read("depth"), Write("deferred-descriptor-buffer"), Write("light-buffer"), Write("light-visibility")>>),
    Pass("Compute", <<Read("albedo"), Read("normal"), Read("depth"), Read("light-visibility"), Write("hdr-image")>>),
    Pass("Graphics", <<ReadAs("hdr-image", "Sampled"), Write("output-image")>>)>>

(* SkyboxRenderer::build_pass() and ui::Renderer::build_pass(). *)
SkyboxPass == Pass("Graphics", <<WriteOver("output-image"), Read("depth"), Read("frame-ubo")>>)
UiPass == Pass("Graphics", <<WriteOver("output-image")>>)

(* The pass that the sandbox adds to present the image. *)
SubmitPass == Pass("None", <<ReadAs("output-image", "Present")>>)

Frame == DefaultPasses \o DeferredPasses \o <<SkyboxPass, UiPass, SubmitPass>>

-----------------------------------------------------------------------------
(* The programs that ScriptVm is run with: a definition, then a call, made *)
(* so that collections happen while arguments, bodies and definitions are  *)
(* evaluated, in closures and in closures within closures.                 *)

Symbol(name) == <<<<"Identifier", name>>>>
N(n) == <<<<"Integer", n>>>>
L(forms) == <<<<"ListBegin">>>> \o FlattenSeq(forms) \o <<<<"ListEnd">>>>
Q(form) == <<<<"Quote">>>> \o form

Def(name, form) == L(<<Symbol("def!"), Symbol(name), form>>)
Fn(name, body) == L(<<Symbol("fn"), L(<<Symbol(name)>>), body>>)
Both(a, b) == L(<<Symbol("seq"), a, b>>)
CollectGarbage == L(<<Symbol("collect-garbage")>>)

(* What arguments, bodies and definitions are made of. *)
Simple ==
  {N(5), Symbol("x"), CollectGarbage, L(<<Symbol("+"), Symbol("x"), N(2)>>), L(<<Symbol("nth"), N(1), Symbol("x")>>),
   L(<<Symbol("f"), N(1)>>), L(<<Symbol("f")>>), Q(L(<<Symbol("x"), N(2)>>)),
   Def("z", Both(Def("f", N(1)), CollectGarbage))}
Bodies == Simple \cup {Both(a, b) : a \in {CollectGarbage, L(<<Symbol("f"), N(1)>>)}, b \in {Symbol("x"), Symbol("y"), CollectGarbage}}

Functions == {Fn("y", v) : v \in Bodies}
Closures == {L(<<Fn("x", f), N(5)>>) : f \in {Fn("y", Symbol("x")), Fn("y", Both(CollectGarbage, Symbol("x"))), Fn("y", Both(CollectGarbage, Symbol("y")))}}

Definitions == {Def("f", f) : f \in Functions \cup Closures} \cup {Def("x", v) : v \in {Q(L(<<Symbol("x"), N(2)>>)), N(7)}}
Uses ==
  Bodies \cup {L(<<Symbol("f"), v>>) : v \in Simple}
  \cup {L(<<Fn("x", v), w>>) : v \in {Symbol("x"), Both(CollectGarbage, Symbol("x"))}, w \in {N(1), CollectGarbage}}

Programs == {d \o u : d \in Definitions, u \in Uses} \cup {Symbol("x") \o <<<<"ListBegin">>>>, <<<<"ListEnd">>>>}

-----------------------------------------------------------------------------
(* The sources that the two shader compilers are run with: all expressions *)
(* of three operands, and one source or more for each kind of statement,   *)
(* variable and declaration, among them those of engine/tests/shaderc.     *)
(*                                                                         *)
(* A source is a sequence of declarations; a declaration has its head and  *)
(* the statements of its body; a statement has what is before its          *)
(* expression, the expression, and, for the older compiler, where the last *)
(* statement may go without, what is after it.                             *)

LiteralTypes ==
  [l \in {"0.0f", "1.0f", "2.0f"} |-> "float"] @@ [l \in {"0", "1", "40"} |-> "uint"] @@ ("GLSL.std.450" :> "string")
Word == [l \in DOMAIN LiteralTypes |-> IF l = "0.0f" THEN "0" ELSE l]

S(intro, expr) == [intro |-> intro, expr |-> expr]
E(expr) == S(<<>>, expr)
D(head, body) == [head |-> head, body |-> body]
Parameter(name, type) == <<"let", name, ":", type, ",">>
Vertex(parameters, body) == D(<<"fn", "vertex_main", "(">> \o parameters \o <<")">>, body)
Fragment(type, body) == D(<<"fn", "fragment_main", "(", ")", ":", type>>, body)
Pipeline(type, name) == D(<<"pipeline", type, name, ";">>, <<>>)
Uniform(attribute, type, name) == D(<<"[[">> \o attribute \o <<"]]", "uniform", type, name, ";">>, <<>>)
Max2 == D(<<"[[", "ext_inst", "(", "GLSL.std.450", ",", "40", ")", "]]", "fn", "max", "(", "let", "x", ":", "float",
            ",", "let", "y", ":", "float", ")", ":", "float", ";">>, <<>>)

abc == Parameter("a", "float") \o Parameter("b", "float") \o Parameter("c", "float")
vectors == Parameter("v", "vec3") \o Parameter("w", "vec3") \o Parameter("m", "mat3") \o Parameter("p", "vec4")
            \o Parameter("t", "vec2")

(* One expression over three floats, which goes to the output. *)
ToOut(expr) == <<Pipeline("float", "out"), Max2, Vertex(abc, <<E(<<"out", "=">> \o expr)>>)>>

Minus == {<<>>, <<"-">>}
Arithmetic == {"+", "-", "*", "/"}
Chains(ops) == {u \o <<"a", o>> \o v \o <<"b", q>> \o w \o <<"c">> : u, v, w \in Minus, o, q \in ops}
Nested(ops) ==
  {u \o <<"(", "a", o, "b", ")", q, "c">> : u \in Minus, o, q \in ops}
  \cup {<<"a", o>> \o u \o <<"(", "b", q, "c", ")">> : u \in Minus, o, q \in ops}
Calls(ops) ==
  {<<"max", "(", "a", o, "b", ",">> \o u \o <<"c", ")">> : o \in ops, u \in Minus}
  \cup {<<"-", "max", "(", "max", "(", "a", ",", "b", ")", ",", "c", o, "2.0f", ")", o, "a">> : o \in ops}
Expressions(ops) == Chains(ops) \cup Nested(ops) \cup Calls(ops)
NegatedTwice == {<<"a", o, "b", q, "-", "-", "c", r, "1.0f">> : o, q, r \in Arithmetic}

(* Assignments in a chain, and within parentheses. *)
AssignmentOps == {"=", "+=", "-=", "*=", "/="}
Assigned ==
  {<<Pipeline("float", "out"),
     Vertex(abc, <<S(<<"var", "x", "=">>, <<"a">>), S(<<"var", "y", ":", "float", "=">>, <<"b">>), E(<<"x", o, "y", q, "c", "+", "a">>),
                   E(<<"out", "=", "x", "-", "y">>)>>)>> : o, q \in AssignmentOps}
  \cup {<<Pipeline("float", "out"),
     Vertex(abc, <<S(<<"var", "x", "=">>, <<"a">>), E(<<"out", "=", "(", "x", o, "b", ")", q, "x">>)>>)>> :
       o \in AssignmentOps, q \in Arithmetic}

(* Vectors and matrices. *)
Vec4Exprs ==
  {<<"vec4", "(", "1.0f", ")">>, <<"vec4", "(", "v", ",", "1.0f", ")">>, <<"vec4", "(", "v", "*", "m", ",", "1.0f", ")">>,
   <<"vec4", "(", "vec3", "(", "-", "v", ")", ",", "2.0f", ")">>, <<"vec4", "(", "t", ",", "t", "-", "t", ")">>,
   <<"vec4", "(", "vec2", "(", "1.0f", ",", "2.0f", ")", ",", "t", ")">>, <<"-", "p", "*", "2.0f", "+", "p">>,
   <<"vec4", "(", "m", "*", "m", "*", "v", "*", "2.0f", ",", "1.0f", ")">>,
   <<"p", "*", "@", "dot", "(", "v", "+", "w", ",", "-", "w", ")", "*", "max", "(", "1.0f", ",", "2.0f", ")">>,
   <<"p", "*", "p", "/", "p">>, <<"vec4", "(", "w", "*", "(", "m", "*", "2.0f", ")", ",", "1.0f", ")">>}
Vectors == {<<Max2, Vertex(vectors, <<E(<<"gl_Position", "=">> \o e)>>)>> : e \in Vec4Exprs}

(* Stages that share declarations, functions, overloads, resources. *)
One(name, parameter, literal) == D(<<"fn", name, "(", "let", "x", ":", parameter, ")", ":", "float">>, <<S(<<"return">>, <<literal>>)>>)
Stages ==
  {<<Pipeline("vec3", "n"), Pipeline("float", "d"),
     Vertex(vectors, <<E(<<"n", "=", "v", "*", "m">>), E(<<"d", "=", "2.0f">>), E(<<"gl_Position", "=", "p">>)>>),
     Fragment("vec4", <<S(<<"let", "k", "=">>, <<"n", "*", "d">>), S(<<"return">>, <<"vec4", "(", "k", ",", "1.0f", ")">>)>>)>>,
   <<Vertex(<<>>, <<S(<<"let", "i", "=">>, <<"uvec2", "(", "0", ")">>), S(<<"let", "f", ":", "vec2", "=">>, <<"vec2", "(", "0.0f", ")">>),
                  E(<<"gl_Position", "=", "vec4", "(", "f", ",", "f", ")">>)>>)>>,
   <<Fragment("float", <<S(<<"return">>, <<"1.0f">>)>>), Vertex(<<>>, <<S(<<"var", "z", ":", "vec4">>, <<>>)>>)>>,
   <<Uniform(<<"set", "(", "1", ")", ",", "binding", "(", "0", ")">>, "vec4", "colour"), Uniform(<<"push_constant">>, "float", "time"),
     Fragment("vec4", <<S(<<"return">>, <<"colour", "*", "time", "+", "colour">>)>>)>>,
   <<Uniform(<<"binding", "(", "1", ")">>, "mat3", "view"), Vertex(vectors, <<E(<<"gl_Position", "=", "vec4", "(", "view", "*", "v", ",", "1.0f", ")">>)>>)>>,
   <<One("value", "float", "1.0f"), One("value", "vec3", "2.0f"), Pipeline("float", "out"),
     Vertex(vectors, <<E(<<"out", "=", "value", "(", "v", "*", "2.0f", ")", "-", "value", "(", "2.0f", ")">>)>>)>>,
   <<D(<<"fn", "half", "(", ")", ":", "float">>, <<S(<<"let", "h", "=">>, <<"1.0f", "/", "2.0f">>), S(<<"return">>, <<"h", "*", "h">>)>>),
     Pipeline("float", "out"), Vertex(abc, <<E(<<"out", "=", "half", "(", ")", "*", "a">>)>>)>>}

(* What must be refused: by the parser, by the legaliser. *)
Unparsed ==
  {<<"a", "+">>, <<"a", "b">>, <<"(", "a", "+", "b">>, <<"a", "+", "b", ")">>, <<"(", "a", ",", "b", ")">>, <<"max", "(", "a", ",", ")">>,
   <<"@", "a">>, <<"@", "dot">>, <<"max", "(", "a", ",", "b", ")", "(", "c", ")">>, <<"(", ")">>, <<"*", "a">>, <<"@", "vec2", "(", "1.0f", ")">>,
   <<"a", ",", "b">>, <<"max", "(", "a", "b", ")">>}
Illegal ==
  {<<"d">>, <<"max", "(", "2.0f", ")">>, <<"max", "(", "a", ",", "vec2", "(", "1.0f", ")", ")">>, <<"min", "(", "a", ",", "b", ")">>,
   <<"@", "max", "(", "a", ",", "b", ")">>, <<"vec2", "(", "-", "d", ")">>, <<"a", "+", "max", "(", "-", "d", ",", "a", ")">>}
Undeclared ==
  {<<Vertex(abc, <<S(<<"let", "a", "=">>, <<"b">>)>>)>>, <<Vertex(abc, <<S(<<"let", "d", ":", "vec2", "=">>, <<"b">>)>>)>>,
   <<Vertex(abc, <<S(<<"var", "d">>, <<>>)>>)>>, <<Vertex(abc, <<S(<<"let", "d", ":", "float">>, <<>>)>>)>>,
   <<Pipeline("float", "a"), Vertex(abc, <<E(<<"b">>)>>)>>, <<Max2, Max2>>, <<D(<<"fn", "f", "(", ")", ";">>, <<>>)>>,
   <<D(<<"uniform", "float", "x", ";">>, <<>>)>>, <<Uniform(<<"push_constant", ",", "set", "(", "1", ")">>, "float", "x")>>,
   <<Uniform(<<"location", "(", "1", ")">>, "float", "x")>>, <<D(<<"pipeline", "x", "float", ";">>, <<>>)>>,
   <<Uniform(<<"push_constant">>, "float", "x"), Vertex(Parameter("x", "float"), <<E(<<"x">>)>>)>>,
   <<One("f", "float", "1.0f"), One("f", "float", "2.0f")>>, <<D(<<"fn", "f", "(", "a", ":", "float", ")">>, <<E(<<"a">>)>>)>>,
   <<D(<<"[[", "ext_inst", "(", "1", ")", "]]", "fn", "f", "(", ")", ";">>, <<>>)>>}

(* An identifier as the only argument, at which the parser stops.          *)
Lone ==
  {<<"max", "(", "a", ")">>, <<"vec2", "(", "d", ")">>, <<"-", "max", "(", "(", "a", ")", ")", "+", "b">>, <<"@", "vec2", "(", "a", ")">>,
   <<"max", "(", "vec2", "(", "a", ")", ",", "b", ")">>}
Unsupported ==
  {ToOut(e) : e \in Lone} \cup
  {<<Vertex(vectors, <<E(<<"gl_Position", "=", "vec4", "(", "vec3", "(", "v", ")", ",", "2.0f", ")">>)>>)>>}

Malformed == {ToOut(e) : e \in Unparsed \cup Illegal} \cup Undeclared
Sources == {<<Max2>>} \cup {ToOut(e) : e \in Expressions(Arithmetic) \cup NegatedTwice} \cup Assigned \cup Vectors \cup Stages
           \cup Malformed \cup Unsupported

-----------------------------------------------------------------------------
(* The sources of the older compiler. *)

FloatLiterals == {"1.0f", "2.0f"}
IntLiterals == {"1"}

OldStatement(intro, expr, end) == [intro |-> intro, expr |-> expr, end |-> end]
OldExpression(expr) == OldStatement(<<>>, expr, <<";">>)
Let(name, expr) == OldStatement(<<"let", name, "=">>, expr, <<";">>)
Var(name, expr) == OldStatement(<<"var", name, "=">>, expr, <<";">>)
Returned(expr) == OldStatement(<<>>, expr, <<>>)
OldUniform(members) == D(<<"uniform", "{">> \o members \o <<"}", ";">>, <<>>)

OldToOut(expr) == <<Pipeline("float", "out"), Vertex(abc, <<OldExpression(<<"out", "=">> \o expr)>>)>>

OldAssigned ==
  {<<Pipeline("float", "out"),
     Vertex(abc, <<Var("x", <<"a">>), OldExpression(<<"x", o, "b", "+", "c">>), OldExpression(<<"out", "=", "x", "*", "b">>), OldExpression(<<"out", q, "x">>)>>)>> :
       o, q \in AssignmentOps}
  \cup {<<Pipeline("float", "out"), Vertex(abc, <<Var("x", <<"1.0f">>), OldExpression(<<"x", "+", "a">>), OldExpression(<<"out", "=", "x">>)>>)>>}

OldVec4Exprs ==
  {<<"vec4", "(", "1.0f", ")">>, <<"vec4", "(", "v", ",", "1.0f", ")">>, <<"vec4", "(", "v", "*", "m", ",", "1.0f", ")">>,
   <<"vec4", "(", "vec3", "(", "v", ")", ",", "2.0f", ")">>, <<"vec4", "(", "t", ",", "t", "*", "t", ")">>,
   <<"vec4", "(", "vec2", "(", "1.0f", ",", "2.0f", ")", ",", "t", ")">>, <<"-", "p", "*", "2.0f", "+", "p">>,
   <<"vec4", "(", "vec3", "(", "1.0f", ",", "2.0f", ",", "1.0f", ")", ",", "2.0f", ")">>,
   <<"p", "*", "dot", "(", "v", "+", "w", ",", "-", "w", ")", "*", "max", "(", "1.0f", ",", "2.0f", ")">>,
   <<"p", "*", "p", "/", "p">>, <<"vec4", "(", "w", "*", "(", "m", "*", "2.0f", ")", ",", "1.0f", ")">>,
   <<"vec4", "(", "(", "m", "*", "m", ")", "*", "v", ",", "1.0f", ")">>}
OldVectors == {<<Vertex(vectors, <<OldExpression(<<"gl_Position", "=">> \o e)>>)>> : e \in OldVec4Exprs}

OldStages ==
  {<<Pipeline("vec3", "n"), Pipeline("float", "d"),
     Vertex(vectors, <<OldExpression(<<"n", "=", "v", "*", "m">>), OldExpression(<<"d", "=", "2.0f">>), OldExpression(<<"gl_Position", "=", "p">>)>>),
     Fragment("vec4", <<Let("k", <<"n", "*", "d">>), Returned(<<"vec4", "(", "k", ",", "1.0f", ")">>)>>)>>,
   <<OldUniform(<<"k", ":", "vec4", ",">>), Vertex(vectors, <<Let("s", <<"k", "+", "p">>), OldExpression(<<"gl_Position", "=", "s">>)>>)>>,
   <<OldUniform(<<"view", ":", "mat4", ",">>), Vertex(vectors, <<OldExpression(<<"gl_Position", "=", "view", "*", "p">>)>>),
     Fragment("float", <<Returned(<<"1.0f">>)>>)>>,
   <<D(<<"fn", "half", "(", ")", ":", "float">>, <<Returned(<<"1.0f", "/", "2.0f">>)>>), Fragment("vec2", <<Returned(<<"vec2", "(", "2.0f", ")">>)>>)>>}

(* Sources that are none of the language, or of its operators on integers. *)
OldMalformed ==
  {OldToOut(<<"a", "b">>), OldToOut(<<"a", "*">>), OldToOut(<<"(", "a", "+", "b">>), OldToOut(<<"a", "+", "unknown">>),
   OldToOut(<<"half", "(", "a", ")">>), OldToOut(<<"1", "+", "a">>), OldToOut(<<"a", "%", "b">>), <<D(<<"let">>, <<>>)>>,
   <<Pipeline("colour", "out")>>, <<OldUniform(<<"k", ":", "vec4">>)>>, <<Vertex(<<"a", ":", "float">>, <<>>)>>}

(* Sources of the language that the compiler does not compile: an          *)
(* assignment as a value, and the subtraction of two values.               *)
Subtraction == OldToOut(<<"a", "-", "b">>)
Refused == {OldToOut(<<"c", "=", "a">>), Subtraction}

Compiled == {OldToOut(e) : e \in Expressions({"+", "*", "/"})} \cup OldAssigned \cup OldVectors \cup OldStages

==============================================================================
