------------------------------- MODULE UiFrame --------------------------------
(***************************************************************************)
(* The user interface from frame to frame: the program and the user change *)
(* the elements, and Tree::render lays them out and paints them, while the *)
(* GPU copies the glyphs that earlier frames asked for.  Where the pointer *)
(* is and which element has it is UiTree.                                  *)
(*                                                                         *)
(* What the elements of the user interface paint, and how the list of      *)
(* paint commands becomes draw commands of the GPU (ui/painter.cc,         *)
(* renderer.cc, and the paint functions of the elements).                  *)
(*                                                                         *)
(* Glyphs are in an image (ui/font_atlas.cc, font.cc) whose free space is  *)
(* what lies below a skyline, a list of points from left to right: a glyph *)
(* is placed where its upper edge is highest, the skyline moves down below *)
(* it, and the GPU copies the glyph into the image.  Until the copy has    *)
(* been found to be complete nothing is drawn for the glyph.               *)
(*                                                                         *)
(* A paint command "shows" what it was made for: a colour, an image or a   *)
(* glyph.  Only the properties read that of an image or a glyph.           *)
(***************************************************************************)
EXTENDS UiLayout

CONSTANTS
  BarWidth,        \* the width of a bar of a time graph
  Target,          \* the size of the image that is painted on, in pixels
  Tenths(_),       \* the value that is told by a text, in tenths of the range of its slider
  GlyphCount,      \* how many glyphs a font has
  AtlasExtent      \* the size of the image that holds the glyphs

VARIABLES
  atlas,           \* [skyline, cache]
  texels           \* what the image holds

-------------------------------------------------------------------------------
(* FontAtlas.                                                              *)

ImageTexels == [x : 0 .. AtlasExtent.x - 1, y : 0 .. AtlasExtent.y - 1]
RectTexels(offset, extent) ==
  [x : offset.x .. offset.x + extent.x - 1, y : offset.y .. offset.y + extent.y - 1]

AtlasInit ==
  /\ atlas = [skyline |-> <<Vec(0, 0)>>, cache |-> <<>>]
  /\ texels = [t \in ImageTexels |-> "clear"]

(* pack_rect: how high the upper edge of a rectangle lies that begins at a *)
(* node, if there is room for it to the right.                             *)
HasRoom(skyline, n, extent) == skyline[n].x + extent.x <= AtlasExtent.x
PackRect(skyline, n, extent) ==
  FoldLeft(LAMBDA y, node : IF skyline[n].x <= node.x /\ node.x < skyline[n].x + extent.x THEN Larger(y, node.y) ELSE y,
           0, skyline)

(* find_rect: the first of the nodes where it lies highest, 0 for none. *)
FindRect(skyline, extent) ==
  LET Better(n, best) == best = 0 \/ PackRect(skyline, n, extent) < PackRect(skyline, best, extent)
  IN FoldLeft(LAMBDA best, n : IF HasRoom(skyline, n, extent) /\ Better(n, best) THEN n ELSE best,
              0, [n \in DOMAIN skyline |-> n])

(* allocate_rect: the nodes above the rectangle give way to one below it,  *)
(* and the last of them, or the node itself, goes on from its right edge.  *)
AllocateRect(skyline, n, extent) ==
  LET right == skyline[n].x + extent.x
      new == Vec(skyline[n].x, PackRect(skyline, n, extent) + extent.y)
      covered == SelectSeq(SubSeq(skyline, n, Len(skyline)), LAMBDA node : node.x <= right)
      current == Vec(Larger(Last(covered).x, right), Last(covered).y)
  IN SubSeq(skyline, 1, n - 1) \o <<new, current>> \o SubSeq(skyline, n + Len(covered), Len(skyline))

(* What ensure_glyph returns while there is nothing to draw. *)
NoGlyph == [font |-> "none", index |-> 0, offset |-> Vec(0, 0), size |-> Vec(0, 0), bitmap |-> Vec(0, 0), future |-> "none"]
Cached(cache, font, index) ==
  SelectSeq([i \in DOMAIN cache |-> i], LAMBDA i : cache[i].font = font /\ cache[i].index = index)

(* ensure_glyph: [atlas, glyph].  A future is invalid ("none") when it has *)
(* been found complete.                                                    *)
LoadGlyph(a, font, index) ==
  LET glyph == Glyph(font, index)
      n == FindRect(a.skyline, glyph.extent)
      offset == Vec(a.skyline[n].x, PackRect(a.skyline, n, glyph.extent))
  IN IF glyph.extent.x = 0 \/ glyph.extent.y = 0 \/ n = 0 THEN [atlas |-> a, glyph |-> NoGlyph]
     ELSE [atlas |-> [skyline |-> AllocateRect(a.skyline, n, glyph.extent),
                      cache |-> Append(a.cache, [font |-> font, index |-> index, offset |-> offset,
                                                 size |-> glyph.extent, bitmap |-> glyph.bitmap, future |-> "pending"])],
           glyph |-> NoGlyph]
EnsureGlyph(a, font, index) ==
  LET found == Cached(a.cache, font, index)
      glyph == a.cache[found[1]]
  IN CASE index >= GlyphCount -> [atlas |-> a, glyph |-> NoGlyph]
       [] index < GlyphCount /\ found = <<>> -> LoadGlyph(a, font, index)
       [] OTHER -> IF glyph.future = "pending" THEN [atlas |-> a, glyph |-> NoGlyph]
                   ELSE [atlas |-> [a EXCEPT !.cache[found[1]].future = "none"], glyph |-> glyph]

(* The GPU copies a glyph and the fence of its command buffer is seen. *)
CopyGlyph(i) ==
  LET glyph == atlas.cache[i] IN
  /\ glyph.future = "pending"
  /\ atlas' = [atlas EXCEPT !.cache[i].future = "complete"]
  /\ texels' = [t \in ImageTexels |->
       IF t \in RectTexels(glyph.offset, glyph.size) THEN <<glyph.font, glyph.index>> ELSE texels[t]]

-------------------------------------------------------------------------------
(* The two sizes that stand for a number that no coordinate reaches: that  *)
(* of unset_scissor, and a negative one when it is read as unsigned.       *)
Huge == 1000000
Unsigned(n) == IF n < 0 THEN Huge ELSE n

-------------------------------------------------------------------------------
(* Painter: the textures of a frame, of which the first is the null image, *)
(* and its commands.                                                       *)

NewPainter == [textures |-> <<"null">>, commands |-> <<>>]
TextureIndex(textures, image) ==
  IF Contains(textures, image) THEN CHOOSE i \in DOMAIN textures : textures[i] = image ELSE Len(textures) + 1
BindTexture(textures, image) == IF Contains(textures, image) THEN textures ELSE Append(textures, image)

Command(kind, position, size, texture, uv, shows) ==
  [kind |-> kind, position |-> FloorVec(position), size |-> CeilVec(size), texture |-> texture, uv |-> uv, shows |-> shows]
Whole == [a |-> Zero, c |-> Zero]
Push(painting, command) == [painting EXCEPT !.painter.commands = Append(@, command)]

PaintRect(painting, position, size, colour) ==
  Push(painting, Command("rect", position, size, 1, Whole, colour))

PaintImage(painting, position, size, image) ==
  Push([painting EXCEPT !.painter.textures = BindTexture(@, image)],
       Command("image", position, size, TextureIndex(painting.painter.textures, image), Whole, image))

(* paint_text: one command for each glyph, whether it can be drawn yet or  *)
(* not.                                                                    *)
PushGlyph(painting, font, index, at, glyph) ==
  Push(painting, Command("text", Plus(at, VecOfPixels(glyph.bitmap)), VecOfPixels(glyph.size),
                         TextureIndex(painting.painter.textures, "atlas"),
                         [a |-> glyph.offset, c |-> Plus(glyph.offset, glyph.size)], <<font, index>>))
PaintGlyph(painting, font, at, index) ==
  LET With(ensured) ==
        PushGlyph([painting EXCEPT !.atlas = ensured.atlas, !.painter.textures = BindTexture(@, "atlas")],
                  font, index, at, ensured.glyph)
  IN With(EnsureGlyph(painting.atlas, font, index))
PaintText(painting, font, position, text) ==
  LET Next(line, index) == [painting |-> PaintGlyph(line.painting, font, line.at, index),
                            at |-> Plus(line.at, Vec(Glyph(font, index).advance, 0))]
  IN FoldLeft(Next, [painting |-> painting, at |-> position], text).painting

SetScissor(painting, position, size) ==
  LET corner == FloorVec(position)
      corrected == [a \in Axes |-> CeilVec(size)[a] + Smaller(corner[a], 0)]
  IN Push(painting, [kind |-> "scissor", position |-> [a \in Axes |-> Larger(corner[a], 0)], size |-> corrected])
UnsetScissor(painting) == Push(painting, [kind |-> "scissor", position |-> Zero, size |-> Vec(Huge, Huge)])

-------------------------------------------------------------------------------
(* The paint functions of the elements.                                    *)

(* Label::paint *)
PaintLabel(painting, els, e, position) ==
  PaintText(painting, els[e].font, Plus(position, Vec(0, els[e].computed.y)), els[e].text)

(* The label of a button or a slider, in its middle. *)
PaintCentred(painting, els, e, position) ==
  PaintLabel(painting, els, els[e].label,
             Minus(Plus(position, Half(els[e].computed)), Half(els[els[e].label].computed)))

PaintButton(painting, els, e, position) ==
  PaintCentred(PaintRect(painting, position, els[e].computed, "face"), els, e, position)

(* Slider::paint; a slider has the value that its label tells. *)
PaintSlider(painting, els, e, position) ==
  LET x == ScaleBy(els[e].computed.x - HandleWidth - 2 * HandlePadding, Tenths(els[els[e].label].text), 10)
      groove == PaintRect(painting, position, els[e].computed, "groove")
  IN PaintCentred(PaintRect(groove, Plus(position, Vec(x + HandlePadding, HandlePadding)),
                            Vec(HandleWidth, els[e].computed.y - 2 * HandlePadding), "handle"), els, e, position)

(* TimeGraphPanel::paint: the sections of each bar one over the other,     *)
(* downwards from the lower edge by a negative height.                     *)
VisibleBars(els, graph, panel) ==
  LET bars == els[graph].bars
      count == Smaller(Quotient(els[panel].computed.x, BarWidth) + 2, Len(bars))
  IN SubSeq(bars, Len(bars) - count + 1, Len(bars))
TotalTime(bar) == SumOf(LAMBDA section : section.duration, bar)
PaintBar(painting, bar, base, height, longest) ==
  LET Next(stack, section) ==
        LET tall == IntPixels(-RoundPixels(ScaleBy(height, section.duration, longest)))
        IN [painting |-> PaintRect(stack.painting, Plus(base, Vec(0, stack.y)), Vec(BarWidth, tall), section.name),
            y |-> stack.y + tall]
  IN FoldLeft(Next, [painting |-> painting, y |-> 0], bar).painting
PaintPanel(painting, els, graph, e, position) ==
  LET bars == VisibleBars(els, graph, e)
      longest == MaximumOf(TotalTime, bars)
      framed == SetScissor(PaintRect(painting, position, els[e].computed, "black"), position, els[e].computed)
      Next(all, i) ==
        PaintBar(all, bars[i], Plus(position, Vec(BarWidth * (i - 1), els[e].computed.y)), els[e].computed.y, longest)
  IN [UnsetScissor(FoldLeft(Next, framed, [i \in DOMAIN bars |-> i])) EXCEPT !.longest = (e :> longest) @@ @]

(* Window::paint: the backgrounds of its two panes. *)
PaintBackground(painting, els, e, position) ==
  LET title == els[e].children[1]
      content == els[e].children[2]
      titled == IF els[title].visible
                THEN PaintRect(painting, position, Vec(els[e].computed.x, els[title].computed.y), "title") ELSE painting
  IN IF els[content].visible
     THEN PaintRect(titled, Plus(position, els[content].offset),
                    Minus(els[e].computed, Vec(0, els[title].computed.y)), "content")
     ELSE titled

(* Pane::paint, and the paint function of each kind of element. *)
RECURSIVE Paint(_, _, _, _)
PaintChildren(painting, els, e, position) ==
  FoldLeft(LAMBDA all, c : Paint(all, els, c, Plus(position, els[c].offset)), painting, Shown(els, e))
Paint(painting, els, e, position) ==
  CASE els[e].kind \in {"screen", "box", "graph"} -> PaintChildren(painting, els, e, position)
    [] els[e].kind = "window" ->
         PaintChildren(PaintBackground(painting, els, e, position), els, e, position)
    [] els[e].kind = "label" -> PaintLabel(painting, els, e, position)
    [] els[e].kind = "button" -> PaintButton(painting, els, e, position)
    [] els[e].kind = "slider" -> PaintSlider(painting, els, e, position)
    [] els[e].kind = "panel" -> PaintPanel(painting, els, els[e].label, e, position)
    [] els[e].kind = "image" -> PaintImage(painting, position, els[e].computed, e)

-------------------------------------------------------------------------------
(* Painter::compile: the commands of the GPU, and the rectangles in the    *)
(* vertex buffer, counted from 1.                                          *)

(* flush_draws *)
Flush(c) ==
  IF c.first > Len(c.quads) THEN c
  ELSE [c EXCEPT !.recorded = Append(@, [op |-> "draw", first |-> c.first, count |-> Len(c.quads) + 1 - c.first]), !.first = Len(c.quads) + 1]

CompileScissor(c, command) ==
  [Flush(c) EXCEPT !.recorded = Append(@,
     [op |-> "scissor", position |-> command.position, size |-> [a \in Axes |-> Unsigned(command.size[a])]])]

(* A slip in the order: the rectangles before it get the new texture. *)
TextureFirst(c, command) ==
  IF c.texture = command.texture THEN c
  ELSE Flush([c EXCEPT !.texture = command.texture,
                       !.recorded = Append(@, [op |-> "texture", index |-> command.texture])])

PushTexture(c, command) ==
  IF c.texture = command.texture THEN c
  ELSE [Flush(c) EXCEPT !.texture = command.texture,
                        !.recorded = Append(@, [op |-> "texture", index |-> command.texture])]

CompileQuad(c, command) ==
  [PushTexture(c, command) EXCEPT !.quads = Append(@,
     [position |-> command.position, size |-> command.size, uv |-> command.uv,
      kind |-> command.kind, shows |-> command.shows])]

CompileCommand(c, command) ==
  IF command.kind = "scissor" THEN CompileScissor(c, command) ELSE CompileQuad(c, command)
Compile(painter) ==
  Flush(FoldLeft(CompileCommand, [recorded |-> <<>>, quads |-> <<>>, first |-> 1, texture |-> 0], painter.commands))

-------------------------------------------------------------------------------
(* The frames.                                                             *)

CONSTANTS
  Words,        \* the texts of the titles, labels and buttons as they are made
  ImageExtent,  \* the size of the image of an image label, in pixels
  BarCount,     \* how many bars a time graph keeps (1000 in the code)
  Texts,        \* the texts that the program gives to labels, buttons and sliders later
  WindowSizes,  \* what the user drags the corner of a window to
  Drags,        \* how far the user drags a window
  Bars,         \* what the program records in a time graph for a frame
  ActLimit      \* how often the program and the user do something

VARIABLES
  elements,
  frame,        \* [painter, gpu] of the last frame
  isDrawn,      \* the last frame shows the elements as they are
  acts

uiVars == <<elements, atlas, texels, frame, isDrawn, acts>>

Uniform(length) == [a \in Axes |-> length]

(* Window::Window *)
NewWindow(els, w, title, label, content) ==
  SetText(els @@ (w :> [Element("window") EXCEPT !.children = <<title, content>>])
            @@ (title :> [Element("box") EXCEPT !.orientation = "Horizontal", !.children = <<label>>,
                            !.margins = [start |-> Uniform(Cm(2)), end |-> Uniform(Cm(2))]])
            @@ (content :> [Element("box") EXCEPT !.margins = [start |-> Vec(Cm(5), Cm(3)), end |-> Vec(Cm(5), Cm(3))]])
            @@ (label :> Element("label")), label, Words[label])

(* TimeGraph::TimeGraph; the title is set at the first pre_layout. *)
NewGraph(els, graph, label, hbox, panel, legend) ==
  els @@ (graph :> [Element("graph") EXCEPT !.children = <<label, hbox>>, !.bars = [i \in 1 .. BarCount |-> <<>>]])
      @@ (label :> Element("label"))
      @@ (hbox :> [Element("box") EXCEPT !.orientation = "Horizontal", !.children = <<panel, legend>>])
      @@ (panel :> [Element("panel") EXCEPT !.label = graph, !.minimum.x = Absolute(BarWidth * MinimumBars),
                                            !.maximum.x = Absolute(BarWidth * BarCount)])
      @@ (legend :> [Element("box") EXCEPT !.maximum.x = Shrink])
      @@ [l \in {Legend[graph][i] : i \in DOMAIN Legend[graph]} |-> Element("label")]

NewLabel(els, e, changed) == SetText(els @@ (e :> changed), e, Words[e])
NewButton(els, e, label) ==
  SetButton(els @@ (e :> [Element("button") EXCEPT !.label = label]) @@ (label :> Element("label")), e, Words[label])
NewSlider(els, e, label) ==
  SetSlider(els @@ (e :> [Element("slider") EXCEPT !.label = label]) @@ (label :> Element("label")), e, Words[label])
NewImage(els, e) ==
  els @@ (e :> [Element("image") EXCEPT !.minimum = AbsoluteSize(VecOfPixels(ImageExtent)),
                                        !.maximum = AbsoluteSize(VecOfPixels(ImageExtent))])
AddChildren(els, pane, children) == [els EXCEPT ![pane].children = @ \o children]

(* The windows of the sandbox, with one element where it has several of a  *)
(* kind, an image label and a button that may be higher than it need be;   *)
(* all but the first are hidden.                                           *)
Root == "root"
MainWindow ==
  LET made == NewWindow(Root :> Element("screen"), "main", "main title", "main label", "main content")
  IN AddChildren(NewImage(NewButton(NewLabel(made, "help", Element("label")), "quit", "quit label"), "picture"),
                 "main content", <<"help", "quit", "picture">>)
GraphWindow(els) ==
  LET made == NewWindow(els, "graphs", "graphs title", "graphs label", "graphs content")
      tall == NewButton(made, "clear", "clear label")
      loose == [tall EXCEPT !["clear"].maximum.y = Absolute(2 * @.value)]
  IN AddChildren(NewGraph(loose, "graph", "graph label", "graph hbox", "panel", "legend"),
                 "graphs content", <<"clear", "graph">>)
SettingsWindow(els) ==
  LET made == NewWindow(els, "settings", "settings title", "settings label", "settings content")
      right == [Element("label") EXCEPT !.align = "Right", !.font = "monospace"]
  IN AddChildren(NewSlider(NewLabel(made, "count", right), "exposure", "exposure label"),
                 "settings content", <<"count", "exposure">>)
NewElements ==
  LET made == AddChildren(SettingsWindow(GraphWindow(MainWindow)), Root, <<"main", "graphs", "settings">>)
  IN [made EXCEPT !["graphs"].visible = FALSE, !["settings"].visible = FALSE]

Init ==
  /\ elements = NewElements
  /\ AtlasInit
  /\ frame = [painter |-> NewPainter, gpu |-> Compile(NewPainter)]
  /\ isDrawn = FALSE /\ acts = 0

(* Tree::render, and the pass of Renderer::build_pass: the elements as they *)
(* have been laid out, and what they paint.  A panel keeps how long its    *)
(* longest bar took.                                                       *)
Present(els, painting) ==
  /\ elements' = [e \in DOMAIN els |->
       IF e \in DOMAIN painting.longest THEN [els[e] EXCEPT !.longest = painting.longest[e]] ELSE els[e]]
  /\ atlas' = painting.atlas
  /\ frame' = [painter |-> painting.painter, gpu |-> Compile(painting.painter)]
  /\ isDrawn' = TRUE
  /\ UNCHANGED <<texels, acts>>
PaintRoot(els) == Present(els, Paint([painter |-> NewPainter, atlas |-> atlas, longest |-> <<>>], els, Root, els[Root].offset))
Render == PaintRoot(Layout(PreLayout(elements, Root, Zero), Root, Zero))

Copied(i) == CopyGlyph(i) /\ UNCHANGED <<elements, frame, isDrawn, acts>>

Act(els) ==
  /\ acts < ActLimit /\ acts' = acts + 1
  /\ elements' = els /\ isDrawn' = FALSE
  /\ UNCHANGED <<atlas, texels, frame>>

OfKind(kind) == {e \in DOMAIN elements : elements[e].kind = kind}
Windows == OfKind("window")

Relabel(e, text) ==
  CASE elements[e].kind = "label" -> Act(SetText(elements, e, text))
    [] elements[e].kind = "button" -> Act(SetButton(elements, e, text))
    [] elements[e].kind = "slider" -> Act(SetSlider(elements, e, text))

(* ScreenPane::bring_to_front *)
ToFront(els, e) ==
  [els EXCEPT ![Root].children = Append(SelectSeq(@, LAMBDA c : c # e), e)]

(* Element::set_visible, of a window. *)
Show(w) == ~elements[w].visible /\ Act(ToFront([elements EXCEPT ![w].visible = TRUE], w))
Hide(w) == elements[w].visible /\ Act([elements EXCEPT ![w].visible = FALSE])

(* Window::handle_mouse_move, after a press on the window or its corner. *)
Resize(w, size) == elements[w].visible /\ Act(ToFront([elements EXCEPT ![w].computed = size], w))
Drag(w, delta) == elements[w].visible /\ Act(ToFront([elements EXCEPT ![w].offset = Plus(@, delta)], w))

(* TimeGraph::new_bar and push_section: the bars are a ring.  sort() takes *)
(* what it is given for "goes after": the longest section is the first.    *)
(* The program records a whole bar between two frames.                     *)
NewBar(els, graph) == [els EXCEPT ![graph].bars = Append(Tail(@), <<>>)]
PushSection(els, graph, section) ==
  [els EXCEPT ![graph].bars[BarCount] = SortSeq(Append(@, section), LAMBDA s, t : s.duration > t.duration)]
Record(graph, bar) ==
  Act(FoldLeft(LAMBDA els, section : PushSection(els, graph, section), NewBar(elements, graph), bar))

Next ==
  \/ Render
  \/ \E i \in DOMAIN atlas.cache : Copied(i)
  \/ \E e \in DOMAIN Texts : \E text \in Texts[e] : Relabel(e, text)
  \/ \E w \in Windows : Show(w) \/ Hide(w)
  \/ \E w \in Windows : \E size \in WindowSizes : Resize(w, size)
  \/ \E w \in Windows : \E delta \in Drags : Drag(w, delta)
  \/ \E graph \in OfKind("graph") : \E bar \in Bars : Record(graph, bar)

-------------------------------------------------------------------------------
(* What the GPU makes of a frame: for each rectangle the part of the       *)
(* target it covers, and what it is filled with.                           *)

Box(position, size) ==
  [lo |-> [a \in Axes |-> Smaller(position[a], position[a] + size[a])],
   hi |-> [a \in Axes |-> Larger(position[a], position[a] + size[a])]]
Common(b1, b2) ==
  [lo |-> [a \in Axes |-> Larger(b1.lo[a], b2.lo[a])], hi |-> [a \in Axes |-> Smaller(b1.hi[a], b2.hi[a])]]
Nothing == [lo |-> Zero, hi |-> Zero]
Visible(box, scissor) ==
  LET seen == Common(Common(box, scissor), Box(Zero, Target))
  IN IF \E a \in Axes : seen.lo[a] >= seen.hi[a] THEN Nothing ELSE seen

Everywhere == Box(Zero, Vec(Huge, Huge))
DrawnQuad(gpu, n) ==
  LET quad == frame.gpu.quads[n]
  IN [kind |-> quad.kind, shows |-> quad.shows, at |-> Visible(Box(quad.position, quad.size), gpu.scissor),
      texture |-> frame.painter.textures[gpu.texture], uv |-> quad.uv]
Execute(gpu, command) ==
  CASE command.op = "scissor" -> [gpu EXCEPT !.scissor = Box(command.position, command.size)]
    [] command.op = "texture" -> [gpu EXCEPT !.texture = command.index]
    [] command.op = "draw" ->
         [gpu EXCEPT !.drawn = @ \o [n \in 1 .. command.count |-> DrawnQuad(gpu, command.first + n - 1)]]
Drawn == FoldLeft(Execute, [scissor |-> Everywhere, texture |-> 1, drawn |-> <<>>], frame.gpu.recorded).drawn

(* The same by the paint commands alone: a scissor is good for what is     *)
(* painted until the next, and shows nothing when it ends left of or above *)
(* the target.                                                             *)
Paintings ==
  LET Follow(seen, command) ==
        IF command.kind = "scissor" THEN [seen EXCEPT !.scissor = Box(command.position, command.size)]
        ELSE [seen EXCEPT !.all = Append(@, [shows |-> command.shows,
                at |-> Visible(Box(command.position, command.size), seen.scissor)])]
  IN FoldLeft(Follow, [scissor |-> Everywhere, all |-> <<>>], frame.painter.commands).all

UvTexels(uv) == [x : uv.a.x .. uv.c.x - 1, y : uv.a.y .. uv.c.y - 1]
IsSeen(font, index) ==
  \E i \in DOMAIN atlas.cache : atlas.cache[i].font = font /\ atlas.cache[i].index = index /\ atlas.cache[i].future = "none"

(* Painter::compile, FontAtlas: every rectangle that was painted is drawn, *)
(* in its order, where it was painted as far as its scissor lets it be     *)
(* seen, with the image it was painted for; a glyph shows the texels that  *)
(* were copied for it and no others, and is shown if and only if the copy  *)
(* has been seen to be complete.                                           *)
DrawnAsPainted ==
  LET drawn == Drawn
      painted == Paintings
  IN /\ Len(drawn) = Len(painted)
     /\ \A i \in DOMAIN drawn :
          LET quad == drawn[i] IN
          /\ quad.shows = painted[i].shows /\ quad.at = painted[i].at
          /\ quad.texture = CASE quad.kind = "rect" -> "null" [] quad.kind = "image" -> quad.shows [] quad.kind = "text" -> "atlas"
          /\ quad.kind = "text" =>
               /\ (UvTexels(quad.uv) # {}) = IsSeen(quad.shows[1], quad.shows[2])
               /\ \A t \in UvTexels(quad.uv) \cap DOMAIN texels : texels[t] = quad.shows

-------------------------------------------------------------------------------
(* Where the layout has put the elements.                                  *)

(* The elements below e that are no panes, with their boxes relative to    *)
(* the window; "slack" is half a pixel for each place that was rounded on  *)
(* the way.                                                                *)
RECURSIVE Leaves(_, _, _)
Leaves(e, at, slack) ==
  IF ~IsPane(elements, e) THEN {[box |-> Box(at, elements[e].computed), slack |-> slack]}
  ELSE LET items == Shown(elements, e)
       IN UNION {Leaves(items[i], Plus(at, elements[items[i]].offset), slack + i * (Precision \div 2)) : i \in DOMAIN items}

(* box_layout.cc, window.cc: what pre_layout has added up on the way up is *)
(* enough for what layout gives out on the way down: every element that is *)
(* shown lies within its window, however small the user has made it and    *)
(* whatever has been shown, hidden or relabelled since.                    *)
EverythingInItsWindow ==
  isDrawn => \A w \in {v \in OfKind("window") : elements[v].visible} :
    \A leaf \in Leaves(w, Zero, 0) : \A a \in Axes :
      /\ leaf.box.lo[a] >= 0 - leaf.slack
      /\ leaf.box.hi[a] <= elements[w].computed[a] + leaf.slack
===============================================================================
