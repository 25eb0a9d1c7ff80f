------------------------------- MODULE ScriptVm -------------------------------
(***************************************************************************)
(* The script language (engine/sources/script): a text is parsed into      *)
(* lists on the heap of the machine, which evaluates them recursively and  *)
(* collects garbage when a program asks for it.  The collector marks from  *)
(* the argument lists that are being evaluated and from the environment of *)
(* the call; what the frames of evaluate() hold besides is not marked.     *)
(*                                                                         *)
(* A value is <<type>> or <<type, data>>, the data of an object being its  *)
(* place on the heap.  A freed place is not used again, so that a use of   *)
(* it shows.                                                               *)
(***************************************************************************)
EXTENDS Integers, SequencesExt, FiniteSetsExt, Functions

CONSTANTS
  Programs,    (* texts, as sequences of tokens                             *)
  PlaceLimit   (* bound: the objects a program makes, since it may recur    *)

VARIABLES
  text,        (* what is still to be parsed; <<>> once it has been         *)
  heap,        (* the objects of m_object_list and the two environments     *)
  next,        (* the place of the next object                              *)
  m_marked,    (* the argument lists being evaluated, the last one last     *)
  stale,       (* the environments that are still marked from a collection  *)
  stack,       (* the frames of evaluate(), the innermost one last          *)
  returned,    (* what the innermost frame waits for, once it is there      *)
  careful      (* no step so far was one that the collector does not allow  *)

vars == <<text, heap, next, m_marked, stale, stack, returned, careful>>

RootEnvironment == 0
Environment == 1    (* of evaluate(form): on the stack, not in m_object_list *)
Unlisted == {RootEnvironment, Environment}

Null == <<"Null">>
Objects == {"Symbol", "String", "List", "Closure"}
IsObject(v) == v[1] \in Objects
Contents(v) == {w[2] : w \in {u \in v : IsObject(u)}}

Natives == {"+", "collect-garbage", "nth", "seq"}
Forms == [symbol \in {"def!", "fn", "quote"} |->
            <<CASE symbol = "def!" -> "Def" [] symbol = "fn" -> "Fn" [] OTHER -> "Quote">>]

List(items) == [kind |-> "List", items |-> items]
Symbol(name) == [kind |-> "Symbol", name |-> name]
Closure(e, bindings, body) == [kind |-> "Closure", environment |-> e, bindings |-> bindings, body |-> body]
Scope(parent, symbols) == [kind |-> "Environment", parent |-> parent, symbols |-> symbols]

Init ==
  /\ text \in Programs
  /\ heap = (RootEnvironment :> Scope(RootEnvironment, Forms @@ [n \in Natives |-> <<"NativeFn", n>>]))
            @@ (Environment :> Scope(RootEnvironment, <<>>))
  /\ next = 2 /\ m_marked = <<>> /\ stale = {} /\ stack = <<>> /\ returned = <<>> /\ careful = TRUE

(***************************************************************************)
(* The parser: [tokens, heap, next] and the value that was made.           *)
(***************************************************************************)
New(p, object) == [p EXCEPT !.heap = (p.next :> object) @@ @, !.next = @ + 1]

(* make_symbol(): the one object of a name. *)
MakeSymbol(p, name) ==
  LET known == {o \in DOMAIN p.heap : p.heap[o].kind = "Symbol" /\ p.heap[o].name = name}
  IN IF known # {} THEN [p EXCEPT !.value = <<"Symbol", CHOOSE o \in known : TRUE>>]
     ELSE [New(p, Symbol(name)) EXCEPT !.value = <<"Symbol", p.next>>]

MakeList(p, items) == [New(p, List(items)) EXCEPT !.value = <<"List", p.next>>]

Failed(p) == p.value = <<"ParseError">>
Consumed(p) == [p EXCEPT !.tokens = Tail(@)]
At(p, kind) == p.tokens # <<>> /\ Head(p.tokens)[1] = kind

RECURSIVE ParseForm(_), ParseForms(_, _, _)
(* The forms up to an end of list (or of the text); an empty list is null. *)
ParseForms(p, items, end) ==
  IF At(p, end) \/ (end = "Eof" /\ p.tokens = <<>>)
    THEN LET q == IF end = "Eof" THEN p ELSE Consumed(p)
         IN IF items = <<>> THEN [q EXCEPT !.value = Null] ELSE MakeList(q, items)
    ELSE LET q == ParseForm(p) IN IF Failed(q) THEN q ELSE ParseForms(q, Append(items, q.value), end)

ParseForm(p) ==
  CASE At(p, "Quote") ->
         LET s == MakeSymbol(Consumed(p), "quote")
             q == ParseForm(s)
         IN IF Failed(q) THEN q ELSE MakeList(q, <<s.value, q.value>>)
    [] At(p, "ListBegin") -> ParseForms(Consumed(p), <<>>, "ListEnd")
    [] At(p, "Identifier") -> MakeSymbol(Consumed(p), Head(p.tokens)[2])
    [] At(p, "Integer") -> [Consumed(p) EXCEPT !.value = Head(p.tokens)]
    [] OTHER -> [p EXCEPT !.value = <<"ParseError">>]

(* A frame of evaluate(); `at` is where it is: before the form is looked   *)
(* at, or waiting for the operation, for the value of a definition, or for *)
(* an argument.                                                            *)
Frame(form, e) == [form |-> form, environment |-> e, at |-> "form", op |-> Null, arguments |-> next, index |-> 1]

(* Parser::parse() and Vm::evaluate(form): the text as one seq. *)
Parse ==
  /\ text # <<>> /\ text' = <<>>
  /\ LET s == MakeSymbol([tokens |-> text, heap |-> heap, next |-> next, value |-> Null], "seq")
         p == ParseForms(s, <<s.value>>, "Eof")
     IN /\ heap' = p.heap /\ next' = p.next
        /\ IF Failed(p) THEN stack' = <<>> /\ returned' = <<p.value>>
           ELSE stack' = <<Frame(p.value, Environment)>> /\ returned' = <<>>
  /\ UNCHANGED <<m_marked, stale, careful>>

(***************************************************************************)
(* The evaluator.                                                          *)
(***************************************************************************)
Top == Last(stack)
Items(list) == heap[list].items
Form == Items(Top.form[2])      (* of a frame that evaluates a list *)

(* The environments that lookup_symbol() goes through, from e outwards.    *)
(* One that has been freed ends the search.                                *)
RECURSIVE Chain(_)
Chain(e) == IF e \notin DOMAIN heap \/ e = RootEnvironment THEN <<e>> ELSE <<e>> \o Chain(heap[e].parent)
Knows(e, name) == e \in DOMAIN heap => name \in DOMAIN heap[e].symbols
Visited(e, name) ==
  LET known == {i \in DOMAIN Chain(e) : Knows(Chain(e)[i], name)}
  IN IF known = {} THEN Chain(e) ELSE SubSeq(Chain(e), 1, Min(known))
Name(symbol) == heap[symbol[2]].name
Found(e, name) == Knows(Last(Visited(e, name)), name)
Lookup(e, name) == heap[Last(Visited(e, name))].symbols[name]

IsEmpty(form) == form[1] = "List" /\ Items(form[2]) = <<>>
LastArgument == Top.index = Len(Items(Top.arguments))
Arguments == [Items(Top.arguments) EXCEPT ![Top.index] = returned[1]]

(* What the next step reads or writes on the heap. *)
Touched ==
  IF stack = <<>> THEN {}
  ELSE CASE Top.at = "form" ->
              IF Top.form[1] = "Symbol"
                THEN {Top.form[2]} \cup (IF Top.form[2] \in DOMAIN heap THEN ToSet(Visited(Top.environment, Name(Top.form))) ELSE {})
                ELSE Contents({Top.form})
         [] Top.at = "op" -> {Top.form[2]} \cup (IF returned[1][1] = "Closure" THEN {returned[1][2]} ELSE {})
         [] Top.at = "define" -> {Top.op[2], Top.environment}
         [] OTHER ->
              {Top.arguments}
                \cup (IF Top.op[1] = "Closure" THEN {Top.op[2]} ELSE {})
                \cup (IF Top.op[1] = "Closure" /\ Top.op[2] \in DOMAIN heap
                        THEN {heap[Top.op[2]].bindings}
                             \cup (IF heap[Top.op[2]].bindings \in DOMAIN heap THEN Contents(ToSet(Items(heap[Top.op[2]].bindings))) ELSE {})
                        ELSE {})

Ready(place) == stack # <<>> /\ Top.at = place /\ Touched \subseteq DOMAIN heap /\ (place = "form" <=> returned = <<>>)

Return(v) == stack' = Front(stack) /\ returned' = <<v>>
Call(frame, form) == stack' = Front(stack) \o <<frame, Frame(form, frame.environment)>> /\ returned' = <<>>
Jump(form, e) == stack' = Front(stack) \o <<Frame(form, e)>> /\ returned' = <<>>

(* A symbol, an atom, or the operation of a list.  An unknown symbol ends  *)
(* the program.                                                            *)
EvaluateForm ==
  /\ Ready("form")
  /\ CASE Top.form[1] = "Symbol" ->
            /\ Found(Top.environment, Name(Top.form))
            /\ Return(Lookup(Top.environment, Name(Top.form)))
       [] Top.form[1] = "List" /\ ~IsEmpty(Top.form) -> Call([Top EXCEPT !.at = "op"], Form[1])
       [] OTHER -> Return(IF IsEmpty(Top.form) THEN Null ELSE Top.form)
  /\ UNCHANGED <<text, heap, next, m_marked, stale, careful>>

(* The special forms. *)
EvaluateSpecial ==
  /\ Ready("op") /\ UNCHANGED <<text, m_marked, stale, careful>>
  /\ \/ returned[1] = <<"Def">> /\ Call([Top EXCEPT !.at = "define", !.op = Form[2]], Form[3]) /\ UNCHANGED <<heap, next>>
     \/ returned[1] = <<"Quote">> /\ Return(Form[2]) /\ UNCHANGED <<heap, next>>
     \/ /\ returned[1] = <<"Fn">>
        /\ heap' = (next :> Closure(Top.environment, Form[2][2], Form[3])) @@ heap
        /\ next' = next + 1 /\ Return(<<"Closure", next>>)

(* put_symbol(), which may replace what the name meant. *)
Define ==
  /\ Ready("define")
  /\ heap' = [heap EXCEPT ![Top.environment].symbols = (Name(Top.op) :> returned[1]) @@ @]
  /\ careful' = (careful /\ Name(Top.op) \notin DOMAIN heap[Top.environment].symbols)
  /\ Return(Null)
  /\ UNCHANGED <<text, next, m_marked, stale>>

(* Mutant of Pushed: the list is not pushed. *)
NotPushed(list) == m_marked

(* m_marked.push(argument_list). *)
Pushed(list) == Append(m_marked, list)

(* The list of arguments, a copy of the form's, whose elements are then    *)
(* replaced by their values.                                               *)
EvaluateArguments ==
  /\ Ready("op") /\ returned[1][1] \in {"Closure", "NativeFn"} /\ Len(Form) > 1 /\ next < PlaceLimit
  /\ heap' = (next :> List(Tail(Form))) @@ heap /\ next' = next + 1
  /\ m_marked' = Pushed(next)
  /\ Call([Top EXCEPT !.at = "argument", !.op = returned[1], !.arguments = next], Form[2])
  /\ UNCHANGED <<text, stale, careful>>

NextArgument ==
  /\ Ready("argument") /\ ~LastArgument
  /\ heap' = [heap EXCEPT ![Top.arguments].items = Arguments]
  /\ Call([Top EXCEPT !.index = @ + 1], Arguments[Top.index + 1])
  /\ UNCHANGED <<text, next, m_marked, stale, careful>>

(* bind_arguments() and the body, in whose place the frame then is. *)
ApplyClosure ==
  /\ Ready("argument") /\ LastArgument /\ Top.op[1] = "Closure"
  /\ LET closure == heap[Top.op[2]]
         bindings == Items(closure.bindings)
         symbols == [name \in {Name(s) : s \in ToSet(bindings)} |->
                       Arguments[CHOOSE i \in DOMAIN bindings : Name(bindings[i]) = name]]
     IN /\ heap' = (next :> Scope(closure.environment, symbols)) @@ [heap EXCEPT ![Top.arguments].items = Arguments]
        /\ next' = next + 1 /\ Jump(closure.body, next)
  /\ m_marked' = Front(m_marked)
  /\ UNCHANGED <<text, stale, careful>>

(* Without arguments the body is evaluated in the environment of the       *)
(* closure itself.                                                         *)
ApplyToNothing ==
  /\ Ready("op") /\ Len(Form) = 1 /\ next < PlaceLimit
  /\ returned[1][1] = "Closure" /\ Jump(heap[returned[1][2]].body, heap[returned[1][2]].environment)
  /\ heap' = (next :> List(<<>>)) @@ heap /\ next' = next + 1
  /\ UNCHANGED <<text, m_marked, stale, careful>>

(* native_add(), native_nth(), native_seq(). *)
Native(name, arguments) ==
  CASE name = "+" -> <<"Integer", FoldLeft(LAMBDA sum, v : sum + v[2], 0, arguments)>>
    [] name = "nth" -> Items(arguments[2][2])[arguments[1][2] + 1]
    [] name = "seq" -> Last(arguments)

(* What they assert of their arguments; if it does not hold, the program   *)
(* ends here.                                                              *)
Applicable(name, arguments) ==
  CASE name = "+" -> \A i \in DOMAIN arguments : arguments[i][1] = "Integer"
    [] name = "nth" -> /\ Len(arguments) = 2 /\ arguments[1][1] = "Integer" /\ arguments[2][1] = "List"
                       /\ arguments[1][2] \in 0 .. Len(Items(arguments[2][2])) - 1
    [] OTHER -> name = "seq"

ApplyNative ==
  /\ Ready("argument") /\ LastArgument /\ Top.op[1] = "NativeFn" /\ Applicable(Top.op[2], Arguments)
  /\ heap' = [heap EXCEPT ![Top.arguments].items = Arguments]
  /\ Return(Native(Top.op[2], Arguments)) /\ m_marked' = Front(m_marked)
  /\ UNCHANGED <<text, next, stale, careful>>

(***************************************************************************)
(* The collector.                                                          *)
(***************************************************************************)
References(o) ==
  CASE o \notin DOMAIN heap -> {}
    [] heap[o].kind = "List" -> Contents(ToSet(Items(o)))
    [] heap[o].kind = "Closure" -> {heap[o].environment, heap[o].bindings} \cup Contents({heap[o].body})
    [] heap[o].kind = "Environment" -> {heap[o].parent} \cup Contents(Range(heap[o].symbols))
    [] OTHER -> {}

(* The objects that become marked from those in todo: the search does not  *)
(* go through one that is marked already.                                  *)
RECURSIVE Marked(_, _)
Marked(todo, marked) ==
  IF todo \subseteq marked THEN marked
  ELSE LET new == todo \ marked IN Marked(UNION {References(o) : o \in new}, marked \cup new)

(* collect_garbage(): only objects of m_object_list are unmarked first, so *)
(* that the two environments outside of it stay marked.                    *)
Survivors(roots, e) == Marked(ToSet(roots) \cup {e}, stale)

(* Whether the environments of the frames that will go on, and the         *)
(* functions they are about to call, can be seen from e.                   *)
SeenFrom(e) ==
  \A i \in 1 .. Len(stack) - 1 :
    /\ stack[i].environment \in ToSet(Chain(e))
    /\ stack[i].op[1] = "Closure" => \E s \in ToSet(Chain(e)) : stack[i].op \in Range(heap[s].symbols)

(* native_collect_garbage(), whose arguments, if it has any, are no longer *)
(* kept.                                                                   *)
CollectGarbage ==
  /\ \/ Ready("op") /\ returned = <<<<"NativeFn", "collect-garbage">>>> /\ Len(Form) = 1 /\ m_marked' = m_marked
     \/ Ready("argument") /\ LastArgument /\ Top.op = <<"NativeFn", "collect-garbage">> /\ m_marked' = Front(m_marked)
  /\ heap' = Restrict(heap, (DOMAIN heap \cap Survivors(m_marked', Top.environment)) \cup Unlisted)
  /\ stale' = Survivors(m_marked', Top.environment) \cap Unlisted
  /\ careful' = (careful /\ stale = {} /\ SeenFrom(Top.environment))
  /\ Return(Null)
  /\ UNCHANGED <<text, next>>

(* ~Vm(), once the program has its value: nothing is a root. *)
Destroy ==
  /\ text = <<>> /\ stack = <<>> /\ returned # <<>>
  /\ heap' = Restrict(heap, Marked(ToSet(m_marked), stale) \cup Unlisted) /\ heap' # heap
  /\ UNCHANGED <<text, next, m_marked, stale, stack, returned, careful>>

Next ==
  \/ Parse \/ EvaluateForm \/ EvaluateSpecial \/ Define
  \/ EvaluateArguments \/ NextArgument \/ ApplyClosure \/ ApplyToNothing \/ ApplyNative
  \/ CollectGarbage \/ Destroy

Spec == Init /\ [][Next]_vars

(***************************************************************************)
(* Properties.                                                             *)
(***************************************************************************)
Reachable(roots) == Marked(roots, {})

(* vm.cc: evaluation touches no object that has been freed, if a program   *)
(* collects once, where every environment in use is one that the           *)
(* collecting call can see and the functions being called have names in    *)
(* these, and gives no name a second meaning.  What frames hold besides    *)
(* (forms, bodies, names, closures being executed) need not be marked.     *)
TouchesOnlyLive == careful => Touched \subseteq DOMAIN heap

(* vm.cc: a collection frees nothing that is reachable from the            *)
(* environment it is given or from the argument lists being evaluated.     *)
RootsKept == stack # <<>> => Reachable(ToSet(m_marked) \cup {Environment}) \subseteq DOMAIN heap

=============================================================================
