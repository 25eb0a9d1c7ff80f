------------------------------- MODULE UiLayout -------------------------------
(***************************************************************************)
(* The two passes that give every element of the user interface its place  *)
(* (Tree::render, box_layout.cc, screen_pane.cc, window.cc,                *)
(* time_graph.cc): pre_layout goes up the tree and finds how small each    *)
(* pane may be, layout goes down and shares out the space there is.        *)
(*                                                                         *)
(* "els" is a function from the elements to their members; "kind" is the   *)
(* class of an element.  Text is a sequence of glyphs.                     *)
(***************************************************************************)
EXTENDS Integers, SequencesExt

CONSTANTS
  Ppcm,         \* how many pixels a centimetre of the screen has
  Glyph(_, _),  \* font, index: [extent, bitmap, advance] of a glyph
  MinimumBars,  \* how many bars of a time graph are always shown (100 in the code)
  Legend,       \* a time graph: the labels of its legend, as many as are ever needed
  Title(_)      \* the text of its title when that is how long the longest bar took

-------------------------------------------------------------------------------
(* Lengths (ui/units.hh, units.cc): fixed-point numbers of pixels, pairs   *)
(* of them, and lengths that become a number when the space they are a     *)
(* part of is known.                                                       *)

(* A LayoutUnit is an integer number of subpixels. *)
Precision == 64
IntPixels(n) == n * Precision
FloorPixels(u) == u \div Precision
CeilPixels(u) == (u + Precision - 1) \div Precision
Magnitude(u) == IF u < 0 THEN -u ELSE u
RoundPixels(u) ==
  LET value == (Magnitude(u) + Precision \div 2) \div Precision IN IF u < 0 THEN -value ELSE value

(* The quotient of two integers as the code's division rounds it. *)
Quotient(a, b) ==
  LET value == Magnitude(a) \div Magnitude(b) IN IF (a < 0) # (b < 0) THEN -value ELSE value
ScaleBy(u, part, whole) == Quotient(u * part, whole)

Larger(a, b) == IF a < b THEN b ELSE a
Smaller(a, b) == IF a < b THEN a ELSE b

(* Points, sizes and differences of points. *)
Vec(x, y) == [x |-> x, y |-> y]
Axes == {"x", "y"}
Plus(p, q) == [a \in Axes |-> p[a] + q[a]]
Minus(p, q) == [a \in Axes |-> p[a] - q[a]]
Half(p) == [a \in Axes |-> Quotient(p[a], 2)]
FloorVec(p) == [a \in Axes |-> FloorPixels(p[a])]
CeilVec(p) == [a \in Axes |-> CeilPixels(p[a])]
VecOfPixels(p) == [a \in Axes |-> IntPixels(p[a])]
Zero == Vec(0, 0)

(* A Length; centimetres are counted in tenths. *)
Absolute(u) == [type |-> "Absolute", value |-> u]
Cm(tenths) == [type |-> "Cm", value |-> tenths]
Percentage(n) == [type |-> "Percentage", value |-> n]
Grow == [type |-> "Grow", value |-> 0]
Shrink == [type |-> "Shrink", value |-> 0]

Resolve(length, maximum) ==
  CASE length.type = "Absolute" -> length.value
    [] length.type = "Cm" -> Quotient(length.value * Ppcm * Precision, 10)
    [] length.type = "Percentage" -> ScaleBy(maximum, length.value, 100)
    [] length.type = "Grow" -> maximum
    [] length.type = "Shrink" -> 0

ResolveSize(size, maximum) == [a \in Axes |-> Resolve(size[a], maximum[a])]
AbsoluteSize(p) == [a \in Axes |-> Absolute(p[a])]

(* A box has a main axis, along which its children lie, and a cross axis. *)
Main(orientation) == IF orientation = "Horizontal" THEN "x" ELSE "y"
Cross(orientation) == IF orientation = "Horizontal" THEN "y" ELSE "x"

-------------------------------------------------------------------------------
(* Panes. *)

Panes == {"screen", "window", "box", "graph"}
IsPane(els, e) == els[e].kind \in Panes
Shown(els, e) == SelectSeq(els[e].children, LAMBDA c : els[c].visible)

NoMargins == [start |-> AbsoluteSize(Zero), end |-> AbsoluteSize(Zero)]
MarginStart(els, e, axis) == Resolve(els[e].margins.start[axis], 0)
MarginTotal(els, e, axis) == MarginStart(els, e, axis) + Resolve(els[e].margins.end[axis], 0)

(* A new element; a box and a time graph add their spacing. *)
Element(kind) ==
  [kind |-> kind, children |-> <<>>, visible |-> TRUE, offset |-> Zero, computed |-> Zero,
   minimum |-> [a \in Axes |-> Shrink], maximum |-> [a \in Axes |-> Grow], align |-> "Left",
   margins |-> NoMargins, orientation |-> "Vertical", spacing |-> Cm(2), text |-> <<>>, font |-> "main",
   label |-> "none", bars |-> <<>>, longest |-> 0]

(* The space a text takes. *)
TextBounds(font, text) ==
  FoldLeft(LAMBDA bounds, g : Vec(bounds.x + Glyph(font, g).advance,
                                  Larger(bounds.y, IntPixels(Glyph(font, g).extent.y))), Zero, text)

(* Label::set_text; a label whose text becomes empty keeps its size. *)
SetText(els, e, text) ==
  LET bounds == TextBounds(els[e].font, text)
  IN IF text = <<>> THEN [els EXCEPT ![e].text = text]
     ELSE [els EXCEPT ![e] = [@ EXCEPT !.text = text, !.computed = bounds,
                                       !.minimum = AbsoluteSize(bounds), !.maximum = AbsoluteSize(bounds)]]

(* Button::set_text and Slider::set_value, around their label. *)
ButtonPadding == Resolve(Cm(2), 0)
SetButton(els, e, text) ==
  LET labelled == SetText(els, els[e].label, text)
      size == Plus(labelled[els[e].label].computed, Vec(ButtonPadding, ButtonPadding))
  IN [labelled EXCEPT ![e].minimum = AbsoluteSize(size), ![e].maximum.y = Absolute(size.y)]

HandleWidth == Resolve(Cm(3), 0)
HandlePadding == IntPixels(3)
SetSlider(els, e, text) ==
  LET labelled == SetText(els, els[e].label, text)
      size == Plus(labelled[els[e].label].computed, Vec(2 * HandlePadding, 2 * HandlePadding))
  IN [labelled EXCEPT ![e].minimum = AbsoluteSize(size), ![e].maximum.y = Absolute(size.y)]

-------------------------------------------------------------------------------
(* pre_layout *)

SumOf(f(_), s) == FoldLeft(LAMBDA total, c : total + f(c), 0, s)
MaximumOf(f(_), s) == FoldLeft(LAMBDA largest, c : Larger(largest, f(c)), 0, s)

(* BoxLayout::pre_layout, when the panes among the children have theirs. *)
SetMinimum(els, e, available) ==
  LET main == Main(els[e].orientation)
      cross == Cross(els[e].orientation)
      shown == Shown(els, e)
      MinimumOn(axis, c) == Resolve(els[c].minimum[axis], available[axis])
      length == SumOf(LAMBDA c : MinimumOn(main, c) + Resolve(els[e].spacing, available[main]), shown)
      across == MaximumOf(LAMBDA c : MinimumOn(cross, c), shown)
  IN [els EXCEPT ![e].minimum = [a \in Axes |->
        Absolute((IF a = main THEN length ELSE across) + MarginTotal(els, e, a))]]

(* TimeGraph::pre_layout: the title tells what was last painted, and the   *)
(* legend is thrown away and made anew from the latest bar, the shortest   *)
(* section first.                                                          *)
SetTitle(els, e) ==
  SetText(els, els[e].children[1], Title(els[els[els[e].children[2]].children[1]].longest))
MakeLegend(els, e) ==
  LET legend == els[els[e].children[2]].children[2]
      sections == Reverse(Last(els[e].bars))
      labels == SubSeq(Legend[e], 1, Len(sections))
      Labelled(els2, i) ==
        SetText([els2 EXCEPT ![labels[i]] = [Element("label") EXCEPT !.align = "Right", !.font = "monospace"]],
                labels[i], <<sections[i].name>>)
  IN FoldLeft(Labelled, [els EXCEPT ![legend].children = labels], [i \in DOMAIN labels |-> i])

RECURSIVE PreLayout(_, _, _)
PreLayoutAll(els, children) ==
  FoldLeft(LAMBDA els2, c : IF IsPane(els2, c) THEN PreLayout(els2, c, Zero) ELSE els2, els, children)
PreLayout(els, e, available) ==
  CASE els[e].kind = "screen" -> PreLayoutAll(els, Shown(els, e))
    [] els[e].kind = "window" ->
         FoldLeft(LAMBDA els2, c : PreLayout(els2, c, els[e].computed), els, els[e].children)
    [] els[e].kind = "box" -> SetMinimum(PreLayoutAll(els, Shown(els, e)), e, available)
    [] els[e].kind = "graph" ->
         LET made == MakeLegend(SetTitle(els, e), e) IN SetMinimum(PreLayoutAll(made, Shown(made, e)), e, available)

-------------------------------------------------------------------------------
(* layout *)

(* The loop of BoxLayout::layout that shares out what is left of the main  *)
(* axis: an item is finalised when it is as long as it may be.             *)
RECURSIVE ShareOut(_, _, _)
ShareOut(lengths, maxima, uncommitted) ==
  LET unfinalised == SelectSeq([i \in DOMAIN lengths |-> i], LAMBDA i : lengths[i] # maxima[i])
      slice == Quotient(uncommitted, Len(unfinalised))
      shared == [i \in DOMAIN lengths |->
                   IF lengths[i] = maxima[i] THEN lengths[i] ELSE Smaller(lengths[i] + slice, maxima[i])]
  IN IF uncommitted <= 0 \/ unfinalised = <<>> THEN lengths
     ELSE ShareOut(shared, maxima, SumOf(LAMBDA i : shared[i] - (lengths[i] + slice), unfinalised))

(* How long the items of a box become when it has "available". *)
MainMinimum(els, axis, c) == Resolve(els[c].minimum[axis], 0)
MainMaximum(els, axis, c, available) ==
  Larger(Resolve(els[c].maximum[axis], available), MainMinimum(els, axis, c))
MainSpacing(els, e, available) == Resolve(els[e].spacing, available)
Uncommitted(els, e, axis, available) ==
  available - MarginTotal(els, e, axis) - MainSpacing(els, e, available) * (Len(Shown(els, e)) - 1)
    - SumOf(LAMBDA c : MainMinimum(els, axis, c), Shown(els, e))
MainLengths(els, e, axis, available) ==
  LET items == Shown(els, e)
  IN ShareOut([i \in DOMAIN items |-> MainMinimum(els, axis, items[i])],
              [i \in DOMAIN items |-> MainMaximum(els, axis, items[i], available)],
              Uncommitted(els, e, axis, available))

CrossOffset(align, available, length) ==
  CASE align = "Left" -> 0
    [] align = "Center" -> Quotient(available, 2) - Quotient(length, 2)
    [] align = "Right" -> available - length

RECURSIVE Layout(_, _, _)

(* BoxLayout::layout *)
LayoutBox(els, e, available) ==
  LET main == Main(els[e].orientation)
      cross == Cross(els[e].orientation)
      items == Shown(els, e)
      lengths == MainLengths(els, e, main, available[main])
      across == available[cross] - MarginTotal(els, e, cross)
      Place(placing, i) ==
        LET c == items[i]
            length == Resolve(els[c].maximum[cross], across)
            placed == [placing.els EXCEPT
                         ![c].computed = [a \in Axes |-> IF a = main THEN lengths[i] ELSE length],
                         ![c].offset = [a \in Axes |-> IF a = main THEN placing.at
                           ELSE MarginStart(els, e, cross) + CrossOffset(els[c].align, across, length)]]
        IN [els |-> IF IsPane(els, c) THEN Layout(placed, c, placed[c].computed) ELSE placed,
            at |-> IntPixels(RoundPixels(placing.at + lengths[i] + MainSpacing(els, e, available[main])))]
      given == [els EXCEPT ![e].computed[cross] = available[cross]]
      last == FoldLeft(Place, [els |-> given, at |-> MarginStart(els, e, main)], [i \in DOMAIN items |-> i])
  IN IF items = <<>> THEN given ELSE [last.els EXCEPT ![e].computed[main] = last.at]

(* Window::layout: a window becomes larger when its panes need it to be. *)
LayoutWindow(els, e) ==
  LET title == els[e].children[1]
      content == els[e].children[2]
      least == [p \in {title, content} |-> ResolveSize(els[p].minimum, els[e].computed)]
      size == Vec(Larger(els[e].computed.x, Larger(least[title].x, least[content].x)),
                  Larger(els[e].computed.y, least[title].y + least[content].y))
      height == least[title].y
      titled == Layout([els EXCEPT ![e].computed = size], title, Vec(size.x, height))
  IN Layout([titled EXCEPT ![content].offset = Vec(0, height)], content, Vec(size.x, size.y - height))

Layout(els, e, available) ==
  CASE els[e].kind = "screen" ->
         FoldLeft(LAMBDA els2, c : IF IsPane(els2, c) THEN Layout(els2, c, Zero) ELSE els2, els, Shown(els, e))
    [] els[e].kind = "window" -> LayoutWindow(els, e)
    [] els[e].kind \in {"box", "graph"} -> LayoutBox(els, e, available)
===============================================================================
