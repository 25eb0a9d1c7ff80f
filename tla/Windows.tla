-------------------------------- MODULE Windows --------------------------------
(***************************************************************************)
(* A window and what it knows of the keyboard and the pointer              *)
(* (platform/window.hh, common.cc), for the two display servers it is made *)
(* for (wayland.cc, x11.cc), with the callbacks of the application         *)
(* (sandbox/main.cc): the middle button grabs and ungrabs the cursor, and  *)
(* Alt and Return together ask for the whole screen.                       *)
(*                                                                         *)
(* The display server is external: what a user does becomes events, in     *)
(* their order, and the application handles them one after the other.  A   *)
(* request reaches the server at once, but not before events on the way.   *)
(* No movement is zero.                                                    *)
(***************************************************************************)
EXTENDS Naturals, SequencesExt

CONSTANTS
  Keys, Translate,      (* the keys of the keyboard, and what each means in each layout *)
  Buttons, Masked,      (* the buttons of the mouse, and those that have a bit          *)
  Places, Corner, Centre, (* of the pointer: the corner of the window is zero           *)
  Sizes,                (* of the window; 0 leaves the choice to the window             *)
  UserLimit             (* steps of the user                                            *)

VARIABLES
  system,               (* "none", "wayland", "x11", "closed", "failed" or "crashed" *)
  window,               (* the members of Window and of its subclass                 *)
  desktop,              (* the display server, and the user in front of it           *)
  events, told, steps   (* sent and not handled; movements told; steps of the user   *)

windowVars == <<system, window, desktop, events, told, steps>>

(* m_buttons has no initialiser.  alt and layout are what m_xkb_state has. *)
(* Only the properties read tracked, whether the place of the mouse was    *)
(* told since it was last out of sight, and touched, the buttons that were *)
(* told of.                                                                *)
Window(buttons) ==
  [m_keys |-> {}, m_buttons |-> buttons, m_cursor_grabbed |-> TRUE, m_mouse |-> Corner, m_resolution |-> 0,
   m_desired_resolution |-> 1, m_is_fullscreen |-> FALSE, m_locked_pointer |-> FALSE, alt |-> FALSE, layout |-> 1,
   m_pointer_enter_serial |-> 0, tracked |-> FALSE, touched |-> {}]

(* since are the keys that the window was told of, relaid whether a layout *)
(* was changed that it could not know in time, heard the devices whose     *)
(* events come to the window.                                              *)
Desktop ==
  [keys |-> {}, since |-> {}, alt |-> FALSE, layout |-> 1, relaid |-> FALSE, focus |-> FALSE,
   heard |-> {"keyboard", "pointer"}, buttons |-> {}, at |-> Centre, over |-> FALSE, lock |-> "none",
   cursor |-> "undefined", serial |-> 0, size |-> 1, fullscreen |-> FALSE, protocols |-> {}]

Event(kind, what) == [kind |-> kind, what |-> what, on |-> TRUE, alt |-> FALSE]

Init ==
  /\ system = "none"
  /\ window \in {Window(buttons) : buttons \in SUBSET Masked}
  /\ desktop = Desktop /\ events = <<>> /\ told = <<>> /\ steps = 0

IsOpen == system \in {"wayland", "x11"}

-----------------------------------------------------------------------------
(* grab_cursor() and ungrab_cursor().  On Wayland a lock of the pointer is *)
(* active only while the pointer is on the window, and good for one time;  *)
(* a cursor is set only by who knows of the latest enter.  X11 may refuse  *)
(* the grab unnoticed, and warps a pointer that is on the window.          *)
SetCursor(s, cursor) ==
  IF s.window.m_pointer_enter_serial = s.desktop.serial THEN [s EXCEPT !.desktop.cursor = cursor] ELSE s

IsLockable == "constraints" \in desktop.protocols
Grab(s) ==
  CASE system = "wayland" /\ IsLockable /\ ~s.window.m_locked_pointer ->
         SetCursor([s EXCEPT !.window.m_cursor_grabbed = TRUE, !.window.m_locked_pointer = TRUE, !.desktop.lock = "pending"], "hidden")
    [] system = "x11" -> [s EXCEPT !.window.m_cursor_grabbed = TRUE]
    [] OTHER -> s

Warp(s) ==
  IF ~s.desktop.over THEN s
  ELSE [s EXCEPT !.desktop.at = Centre, !.events = Append(@, [Event("motion", 0) EXCEPT !.on = Centre])]
Ungrab(s) ==
  LET released == [s EXCEPT !.window.m_cursor_grabbed = FALSE, !.window.tracked = FALSE]
  IN  CASE system = "wayland" /\ s.window.m_locked_pointer ->
             SetCursor([released EXCEPT !.window.m_locked_pointer = FALSE, !.desktop.lock = "none"], "arrow")
        [] system = "x11" -> Warp(released)
        [] OTHER -> s

(* set_fullscreen() of X11 does nothing if nothing changes. *)
SetFullscreen(s, fullscreen) ==
  IF system = "x11" /\ s.window.m_is_fullscreen = fullscreen THEN s
  ELSE [s EXCEPT !.window.m_is_fullscreen = fullscreen, !.desktop.fullscreen = fullscreen]

(* handle_key() of Wayland and the handler of key events of X11, whose     *)
(* state of the keyboard is never updated.                                 *)
Meaning(w, key) == Translate[IF system = "x11" THEN 1 ELSE w.layout][key]
HandleKey(s, key, pressed, alt) ==
  LET meaning == Meaning(s.window, key)
      kept == [s EXCEPT !.window.m_keys = IF pressed THEN @ \cup {meaning} ELSE @ \ {meaning}]
  IN  IF ~pressed /\ meaning = "Return" /\ alt THEN SetFullscreen(kept, ~s.window.m_is_fullscreen) ELSE kept

HandleButton(s, button, pressed) ==
  LET kept == [s EXCEPT !.window.m_buttons = IF pressed THEN @ \cup ({button} \cap Masked) ELSE @ \ {button},
                        !.window.touched = @ \cup {button}]
  IN  CASE button = "Middle" /\ ~pressed /\ kept.window.m_cursor_grabbed -> Ungrab(kept)
        [] button = "Middle" /\ ~pressed /\ ~kept.window.m_cursor_grabbed -> Grab(kept)
        [] OTHER -> kept

(* on_pointer_motion() and on_relative_motion(), of which each leaves the  *)
(* movement to the other.                                                  *)
HandleMotion(s, movement, place) ==
  IF s.window.m_cursor_grabbed THEN s
  ELSE [s EXCEPT !.window.m_mouse = place, !.window.tracked = TRUE, !.told = Append(@, movement)]
TellRelative(s, movement) == [s EXCEPT !.told = Append(@, movement)]
HandleRelative(s, movement) == IF s.window.m_cursor_grabbed THEN [s EXCEPT !.told = Append(@, movement)] ELSE s

(* A size is only wished for until the configuration is acknowledged. *)
HandleWish(s, size) == IF size = 0 THEN s ELSE [s EXCEPT !.window.m_desired_resolution = size]
HandleConfigure(s) == [s EXCEPT !.window.m_resolution = s.window.m_desired_resolution]

(* on_keyboard_keymap() begins a new state of the keyboard; the keys that  *)
(* are held when the focus comes are pressed.                              *)
HandleKeymap(s) == [s EXCEPT !.window.alt = FALSE, !.window.layout = 1]
HandleFocus(s, keys) == FoldLeft(LAMBDA acc, k : HandleKey(acc, k, TRUE, acc.window.alt), s, SetToSeq(keys))

HandlePointerEnter(s, serial) ==
  LET entered == [s EXCEPT !.window.m_pointer_enter_serial = serial, !.window.tracked = FALSE]
  IN  IF entered.window.m_cursor_grabbed THEN SetCursor(entered, "hidden") ELSE entered

Handle(s, e) ==
  CASE e.kind = "key" -> HandleKey(s, e.what, e.on, IF system = "x11" THEN e.alt ELSE s.window.alt)
    [] e.kind = "keymap" -> HandleKeymap(s)
    [] e.kind = "enter" -> HandleFocus(s, e.what)
    [] e.kind = "modifiers" -> [s EXCEPT !.window.alt = e.what[1], !.window.layout = e.what[2]]
    [] e.kind = "pointer enter" -> HandlePointerEnter(s, e.what)
    [] e.kind = "motion" -> HandleMotion(s, e.what, e.on)
    [] e.kind = "relative" -> HandleRelative(s, e.what)
    [] e.kind = "button" -> HandleButton(s, e.what, e.on)
    [] e.kind = "wish" -> HandleWish(s, e.what)
    [] e.kind = "configure" -> HandleConfigure(s)
    [] e.kind = "size" -> [s EXCEPT !.window.m_resolution = e.what]
    [] e.kind = "close" -> s

Become(s) == window' = s.window /\ desktop' = s.desktop /\ events' = s.events /\ told' = s.told

(* poll_events(), one event of it. *)
Poll ==
  /\ IsOpen /\ events # <<>>
  /\ Become(Handle([window |-> window, desktop |-> desktop, events |-> Tail(events), told |-> told], Head(events)))
  /\ system' = IF Head(events).kind = "close" THEN "closed" ELSE system
  /\ UNCHANGED steps

-----------------------------------------------------------------------------
(* Window::create(): Wayland if it has what is needed, or else X11.  More  *)
(* than the protocols may be missing: a display, a cursor, a surface, the  *)
(* keyboard extension.  A listener is added to the keyboard and the        *)
(* pointer, of which nobody knows that they are there.  The application    *)
(* grabs the cursor.                                                       *)
Required == {"compositor", "seat", "shm", "wm_base", "relative_pointer_manager"}
CreateWayland(protocols, devices) ==
  LET locks == "constraints" \in protocols
  IN  /\ Required \subseteq protocols
      /\ system' = IF devices = {"keyboard", "pointer"} THEN "wayland" ELSE "crashed"
      /\ window' = [window EXCEPT !.m_locked_pointer = locks]
      /\ desktop' = [desktop EXCEPT !.protocols = protocols, !.lock = IF locks THEN "pending" ELSE "none"]
      /\ events' = <<Event("keymap", 0), Event("wish", 0), Event("configure", 0)>>

CreateX11 ==
  /\ system' = "x11"
  /\ events' = <<Event("size", 1)>>
  /\ UNCHANGED <<window, desktop>>

CreateNone ==
  /\ system' = "failed"
  /\ UNCHANGED <<window, desktop, events>>

Create(protocols, devices) ==
  /\ system = "none"
  /\ CreateWayland(protocols, devices) \/ CreateX11 \/ CreateNone
  /\ UNCHANGED <<told, steps>>

-----------------------------------------------------------------------------
(* The user, and the display server. *)
Acts == IsOpen /\ steps < UserLimit /\ steps' = steps + 1
Sends(new) == events' = events \o new /\ UNCHANGED <<system, window, told>>
FromKeyboard(new) == IF desktop.focus /\ "keyboard" \in desktop.heard THEN new ELSE <<>>
FromPointer(new) == IF "pointer" \in desktop.heard THEN new ELSE <<>>
Modifiers(d) == Event("modifiers", <<d.alt, d.layout>>)
OnWayland(new) == IF system = "wayland" THEN new ELSE <<>>
Key(k, on) == [Event("key", k) EXCEPT !.on = on, !.alt = desktop.alt]

PressKey(k) ==
  /\ Acts /\ k \notin desktop.keys
  /\ desktop' = [desktop EXCEPT !.keys = @ \cup {k}, !.since = IF desktop.focus THEN @ \cup {k} ELSE @]
  /\ Sends(FromKeyboard(<<Key(k, TRUE)>>))
ReleaseKey(k) ==
  /\ Acts /\ k \in desktop.keys
  /\ desktop' = [desktop EXCEPT !.keys = @ \ {k}, !.since = @ \ {k}]
  /\ Sends(FromKeyboard(<<Key(k, FALSE)>>))

(* X11 repeats a key that is held as if it were released and pressed. *)
RepeatKey(k) ==
  /\ Acts /\ system = "x11" /\ desktop.focus /\ k \in desktop.keys
  /\ desktop' = [desktop EXCEPT !.since = @ \cup {k}]
  /\ Sends(<<Key(k, FALSE), Key(k, TRUE)>>)

ChangeModifiers(alt, layout) ==
  LET isLate == layout # desktop.layout /\ (desktop.keys # {} \/ ~desktop.focus)
      changed == [desktop EXCEPT !.alt = alt, !.layout = layout, !.relaid = @ \/ isLate]
  IN  /\ Acts /\ <<alt, layout>> # <<desktop.alt, desktop.layout>>
      /\ desktop' = changed
      /\ Sends(FromKeyboard(OnWayland(<<Modifiers(changed)>>)))
ChangeKeymap ==
  /\ Acts /\ system = "wayland" /\ "keyboard" \in desktop.heard
  /\ desktop' = [desktop EXCEPT !.relaid = @ \/ (~desktop.focus /\ desktop.layout # 1)]
  /\ Sends(<<Event("keymap", 0)>> \o FromKeyboard(<<Modifiers(desktop)>>))

(* The keys that are held are listed by Wayland, and X11 is not asked. *)
GetFocus ==
  /\ Acts /\ ~desktop.focus
  /\ desktop' = [desktop EXCEPT !.focus = TRUE, !.since = IF system = "wayland" THEN desktop.keys ELSE {}]
  /\ Sends(IF "keyboard" \in desktop.heard THEN OnWayland(<<Event("enter", desktop.keys), Modifiers(desktop)>>) ELSE <<>>)
LoseFocus ==
  /\ Acts /\ desktop.focus
  /\ desktop' = [desktop EXCEPT !.focus = FALSE, !.since = {}]
  /\ Sends(<<>>)

(* A movement is sent as such, by X11 wherever the pointer is, and as the  *)
(* place it leads to, unless the pointer is locked or elsewhere.           *)
Movement(isSeen, p) ==
  <<Event("relative", steps + 1)>> \o IF isSeen THEN <<[Event("motion", steps + 1) EXCEPT !.on = p]>> ELSE <<>>

(* A button that is held keeps the pointer. *)
EnterPointer(p) ==
  /\ Acts /\ ~desktop.over
  /\ desktop' = [desktop EXCEPT !.over = TRUE, !.at = p, !.serial = @ + 1, !.cursor = "undefined"]
  /\ Sends(FromPointer(IF system = "x11" THEN Movement(TRUE, p) ELSE <<Event("pointer enter", desktop.serial + 1)>>))
LeavePointer ==
  /\ Acts /\ desktop.over /\ desktop.buttons = {}
  /\ desktop' = [desktop EXCEPT !.over = FALSE, !.lock = IF @ = "active" THEN "defunct" ELSE @]
  /\ Sends(<<>>)
Activate ==
  /\ IsOpen /\ desktop.over /\ desktop.lock = "pending"
  /\ desktop' = [desktop EXCEPT !.lock = "active"]
  /\ Sends(<<>>) /\ UNCHANGED steps

Move(p) ==
  LET isSeen == desktop.over /\ desktop.lock # "active"
  IN  /\ Acts /\ p # desktop.at /\ (desktop.over \/ system = "x11")
      /\ desktop' = IF isSeen THEN [desktop EXCEPT !.at = p] ELSE desktop
      /\ Sends(FromPointer(Movement(isSeen, p)))

PressButton(b) ==
  /\ Acts /\ desktop.over /\ b \notin desktop.buttons
  /\ desktop' = [desktop EXCEPT !.buttons = @ \cup {b}]
  /\ Sends(FromPointer(<<Event("button", b)>>))
ReleaseButton(b) ==
  /\ Acts /\ b \in desktop.buttons
  /\ desktop' = [desktop EXCEPT !.buttons = @ \ {b}]
  /\ Sends(FromPointer(<<[Event("button", b) EXCEPT !.on = FALSE]>>))

Resize(size) ==
  /\ Acts /\ (system = "x11" => size # 0)
  /\ desktop' = [desktop EXCEPT !.size = IF size = 0 THEN @ ELSE size]
  /\ Sends(IF system = "x11" THEN <<Event("size", size)>> ELSE <<Event("wish", size), Event("configure", 0)>>)

Close == Acts /\ UNCHANGED desktop /\ Sends(<<Event("close", 0)>>)

(* on_seat_capabilities() works on the globals of create_wayland(), which  *)
(* have been moved and are gone.  A device that comes back has no listener. *)
ChangeSeat ==
  /\ Acts /\ system = "wayland"
  /\ system' \in {"wayland", "crashed"}
  /\ \E heard \in SUBSET desktop.heard : desktop' = [desktop EXCEPT !.heard = heard]
  /\ UNCHANGED <<window, events, told>>

User ==
  \/ \E k \in Keys : PressKey(k) \/ ReleaseKey(k) \/ RepeatKey(k)
  \/ \E alt \in BOOLEAN, layout \in DOMAIN Translate : ChangeModifiers(alt, layout)
  \/ ChangeKeymap
  \/ GetFocus \/ LoseFocus
  \/ \E p \in Places : EnterPointer(p) \/ Move(p)
  \/ LeavePointer \/ Activate
  \/ \E b \in Buttons : PressButton(b) \/ ReleaseButton(b)
  \/ \E size \in Sizes : Resize(size)
  \/ Close \/ ChangeSeat

Optional == {"constraints", "decoration_manager"}
Next ==
  \/ \E protocols \in {Required, Required \cup Optional, Optional}, devices \in SUBSET {"keyboard", "pointer"} : Create(protocols, devices)
  \/ Poll
  \/ User

-----------------------------------------------------------------------------
IsQuiet == IsOpen /\ events = <<>>

(* A movement comes as two events, of which each handler leaves one to the *)
(* other: by what the application has asked for, not by whether the lock   *)
(* is active.  (A warp has no number.)                                     *)
MovementsToldOnce == \A i, j \in DOMAIN told : told[i] = told[j] /\ told[i] # 0 => i = j

(* wayland.cc, x11.cc: when all events are handled, the window knows the   *)
(* keys that are held and that it could know of, the buttons that it has   *)
(* been told of, where the pointer is that it follows, and its size, and   *)
(* it has asked for what it believes to have; a cursor that is grabbed is  *)
(* hidden, and no movement was told twice.                                 *)
InputKnown ==
  /\ MovementsToldOnce
  /\ IsQuiet =>
       /\ "keyboard" \in desktop.heard /\ ~desktop.relaid =>
            {Meaning(window, k) : k \in desktop.since} \ {"Unknown"} \subseteq window.m_keys
       /\ "pointer" \in desktop.heard =>
            /\ window.m_buttons \cap window.touched = desktop.buttons \cap window.touched \cap Masked
            /\ window.tracked /\ desktop.over /\ ~window.m_cursor_grabbed => window.m_mouse = desktop.at
            /\ system = "wayland" /\ desktop.over /\ window.m_cursor_grabbed => desktop.cursor = "hidden"
       /\ window.m_resolution = desktop.size
       /\ window.m_is_fullscreen = desktop.fullscreen
       /\ system = "wayland" => (window.m_locked_pointer <=> desktop.lock # "none")

===============================================================================
