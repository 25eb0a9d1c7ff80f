--------------------------------- MODULE UiTree ---------------------------------
(***************************************************************************)
(* ui::Tree with its windows and widgets (engine/sources/ui/tree.cc,       *)
(* element.cc, window.cc, layout, widget), as the sandbox feeds it: mouse  *)
(* moves and the left button while the cursor is not grabbed, keys that    *)
(* show and hide windows, and a frame that lays out and renders.           *)
(*                                                                         *)
(* Of the geometry there is what lies under the mouse, which moves, drags  *)
(* and layouts change.  The panes and labels of a window that handle       *)
(* nothing are one with the window, whose handlers their events reach.     *)
(***************************************************************************)
EXTENDS Naturals, Sequences, FiniteSetsExt, Functions

CONSTANTS
  Windows,     (* children of the screen pane                              *)
  Widgets,     (* per window, the sequence of its widgets                  *)
  Kind,        (* of each widget: "slider", "button" or "label"            *)
  Labels,      (* labels that are made anew in every frame (TimeGraph)     *)
  UnderMouse   (* the sets of elements that may lie under the mouse        *)

NoElement == "none"
WidgetsOf(w) == Range(Widgets[w])
WindowOf(e) == IF e \in Windows THEN e ELSE CHOOSE w \in Windows : e \in WidgetsOf(w)

(* Every element has its place in one window.  The labels that are made    *)
(* anew are children of one box, one after the other, and handle nothing;  *)
(* the new ones lie where the old ones lay.                                *)
ASSUME TreeAssumption ==
  /\ IsFiniteSet(Windows) /\ Windows # {} /\ NoElement \notin Windows
  /\ \A w \in Windows :
       /\ Widgets[w] \in Seq(WidgetsOf(w)) /\ IsInjective(Widgets[w])
       /\ NoElement \notin WidgetsOf(w) /\ WidgetsOf(w) \cap Windows = {}
       /\ \A v \in Windows \ {w} : WidgetsOf(v) \cap WidgetsOf(w) = {}
  /\ \E w \in Windows : \E first, last \in DOMAIN Widgets[w] :
       Labels = {Widgets[w][j] : j \in first .. last}
  /\ \A l \in Labels : Kind[l] = "label"
  /\ \A here \in UnderMouse : Labels \subseteq here \/ Labels \cap here = {}

VARIABLES
  m_children,           (* of the screen pane, the last is in front        *)
  m_visible,            (* the windows that are visible                    *)
  label,                (* the label of Labels that exists                 *)
  m_active_element, m_hovered_element, m_need_hover_update,
  m_is_resizing,        (* the windows that are being resized              *)
  under,                (* what lies under m_mouse_position                *)
  moved,                (* it has changed since update_hover()             *)
  grabbed, pressed,     (* the cursor, the left button                     *)
  dropped,              (* a release was kept from the active element      *)
  failed                (* the assertion of set_active_element()           *)

treeVars == <<m_children, m_visible, label, m_active_element, m_hovered_element, m_need_hover_update,
              m_is_resizing, under, moved, grabbed, pressed, dropped, failed>>
treeElements == <<m_children, m_visible, label>>
pointers == <<m_active_element, m_hovered_element, m_need_hover_update>>
mouse == <<under, moved, grabbed, pressed>>

TreeInit ==
  /\ m_children \in Bijection(1 .. Cardinality(Windows), Windows) /\ m_visible = {m_children[1]}
  /\ label \in Labels
  /\ m_active_element = NoElement /\ m_hovered_element = NoElement /\ m_need_hover_update = FALSE
  /\ m_is_resizing = {}
  /\ under = {} /\ moved = FALSE /\ grabbed = TRUE /\ pressed = FALSE
  /\ dropped = FALSE /\ failed = FALSE

-----------------------------------------------------------------------------
(* hit_test(): the foremost visible window, the first of its widgets. *)
HitBy(e, visible, here, current) ==
  e \in here /\ (e \in Windows => e \in visible) /\ (e \in Labels => e = current)

Hit(children, visible, here, current) ==
  LET windows == {i \in DOMAIN children : HitBy(children[i], visible, here, current)}
      w == children[Max(windows)]
      widgets == {j \in DOMAIN Widgets[w] : HitBy(Widgets[w][j], visible, here, current)}
  IN  CASE windows = {} -> NoElement
        [] windows # {} /\ widgets = {} -> w
        [] windows # {} /\ widgets # {} -> Widgets[w][Min(widgets)]

(* bring_to_front() rotates the children from w on. *)
BroughtToFront(w) ==
  LET place == CHOOSE k \in DOMAIN m_children : m_children[k] = w
      last == Cardinality(Windows)
  IN  [k \in 1 .. last |-> IF k < place THEN m_children[k] ELSE IF k < last THEN m_children[k + 1] ELSE w]

(* dispatch_event(): the element or the first of its parents that handles  *)
(* buttons; the element that hijacks input, or else the hovered one.       *)
Handler ==
  LET e == IF m_active_element # NoElement THEN m_active_element ELSE m_hovered_element
  IN  IF e = NoElement \/ e \in Windows THEN e ELSE IF Kind[e] = "label" THEN WindowOf(e) ELSE e

(* handle_mouse_move(): a window follows the mouse while it is active, or  *)
(* its corner does while it is being resized.                              *)
MouseMove(here) ==
  LET hovered == Hit(m_children, m_visible, here, label)
      target == IF m_active_element # NoElement THEN m_active_element ELSE hovered
  IN  /\ ~failed /\ ~grabbed
      /\ under' = here
      /\ m_hovered_element' = hovered
      /\ moved' = (target \in m_is_resizing \/ (target \in Windows /\ target = m_active_element))
      /\ UNCHANGED <<treeElements, m_active_element, m_need_hover_update, m_is_resizing, grabbed, pressed, dropped, failed>>

(* set_active_element(), with its assertion, which ends the program. *)
SetActiveElement(e) ==
  /\ failed' = (m_active_element # NoElement)
  /\ m_active_element' = IF failed' THEN m_active_element ELSE e

(* handle_mouse_press(), unless the cursor is grabbed: a window that is    *)
(* pressed comes to the front, and is resized if it is held by its corner. *)
MousePress ==
  /\ ~failed /\ ~pressed /\ pressed' = TRUE
  /\ IF grabbed \/ Handler = NoElement THEN UNCHANGED <<m_active_element, failed>> ELSE SetActiveElement(Handler)
  /\ IF Handler \in Windows /\ ~grabbed /\ ~failed'
     THEN m_children' = BroughtToFront(Handler) /\ m_is_resizing' \in {m_is_resizing, m_is_resizing \cup {Handler}}
     ELSE UNCHANGED <<m_children, m_is_resizing>>
  /\ UNCHANGED <<m_visible, label, m_hovered_element, m_need_hover_update, under, moved, grabbed, dropped>>

(* handle_mouse_release(), unless the cursor is grabbed. *)
MouseRelease ==
  /\ ~failed /\ pressed /\ pressed' = FALSE
  /\ IF grabbed \/ Handler = NoElement
     THEN /\ dropped' = (dropped \/ m_active_element # NoElement)
          /\ UNCHANGED <<m_active_element, m_need_hover_update, m_is_resizing>>
     ELSE /\ m_active_element' = NoElement /\ m_need_hover_update' = TRUE
          /\ m_is_resizing' = m_is_resizing \ {Handler}
          /\ dropped' = FALSE
  /\ UNCHANGED <<treeElements, m_hovered_element, under, moved, grabbed, failed>>

(* The middle button grabs the cursor and lets it go. *)
GrabCursor ==
  /\ ~failed /\ grabbed' = ~grabbed
  /\ UNCHANGED <<treeElements, pointers, m_is_resizing, under, moved, pressed, dropped, failed>>

(* Mutant of Hidden: only the element itself is looked for. *)
HiddenItself(w, e) == e = w

(* handle_element_hide(): the element or one of its parents is hidden. *)
Hidden(w, e) == e # NoElement /\ WindowOf(e) = w

(* set_visible(), by a key. *)
Hide(w) ==
  /\ ~failed /\ w \in m_visible
  /\ m_visible' = m_visible \ {w}
  /\ m_active_element' = IF Hidden(w, m_active_element) THEN NoElement ELSE m_active_element
  /\ m_hovered_element' = IF Hidden(w, m_hovered_element) THEN NoElement ELSE m_hovered_element
  /\ m_need_hover_update' = (m_need_hover_update \/ Hidden(w, m_active_element) \/ Hidden(w, m_hovered_element))
  /\ dropped' = (dropped /\ m_active_element' # NoElement)
  /\ UNCHANGED <<m_children, label, m_is_resizing, mouse, failed>>

Show(w) ==
  /\ ~failed /\ w \notin m_visible
  /\ m_visible' = m_visible \cup {w}
  /\ m_children' = BroughtToFront(w)
  /\ m_need_hover_update' = TRUE
  /\ UNCHANGED <<label, m_active_element, m_hovered_element, m_is_resizing, mouse, dropped, failed>>

(* render(): pre_layout() makes the labels of a visible TimeGraph anew and *)
(* their destructors tell the tree; layout() moves what it likes; then     *)
(* comes the update of the hovered element, if one is due.                 *)
RenderTree(here) ==
  LET remade == WindowOf(label) \in m_visible
      due == m_need_hover_update \/ (remade /\ m_hovered_element = label)
  IN  /\ ~failed
      /\ IF remade THEN label' \in Labels \ {label} ELSE UNCHANGED label
      /\ under' = here
      /\ moved' = (~due /\ (moved \/ here # under))
      /\ m_hovered_element' = IF due THEN Hit(m_children, m_visible, here, label') ELSE m_hovered_element
      /\ m_need_hover_update' = FALSE
      /\ UNCHANGED <<m_children, m_visible, m_active_element, m_is_resizing, grabbed, pressed, dropped, failed>>

TreeNext ==
  \/ \E here \in UnderMouse : MouseMove(here) \/ RenderTree(here)
  \/ MousePress \/ MouseRelease \/ GrabCursor
  \/ \E w \in Windows : Hide(w) \/ Show(w)

TreeSpec == TreeInit /\ [][TreeNext]_treeVars

-----------------------------------------------------------------------------
(* Properties *)

IsShown(e) == WindowOf(e) \in m_visible /\ (e \in Labels => e = label)

(* The pointers of the tree lead to elements that exist and can be seen;   *)
(* unless an update is due or things have moved since the last one, the    *)
(* hovered element is what lies under the mouse; and an element is active  *)
(* only while the button is held, or if its release was dropped.           *)
PointersSound ==
  /\ \A e \in {m_active_element, m_hovered_element} \ {NoElement} : IsShown(e)
  /\ ~m_need_hover_update /\ ~moved => m_hovered_element = Hit(m_children, m_visible, under, label)
  /\ m_active_element # NoElement => pressed \/ dropped

=============================================================================
