----------------------------- MODULE MCSequential -----------------------------
(***************************************************************************)
(* Components that call nobody back, in one run: every behaviour is that   *)
(* of one of them, chosen at the start.                                    *)
(*   pack      a mesh, an image and a scene, added in any number of        *)
(*             sittings, blocks of two units compressed to one or two      *)
(*   memory    a device with two memory types, of which the host sees both *)
(*             and one is local, pools of 17 or 4 bytes with blocks of two *)
(*             bytes and more, and three resources, small or large, that   *)
(*             leave gaps in a pool                                        *)
(*   entities  three entities with two kinds of components                 *)
(*   compiler  the sources of Workloads, those that are refused and        *)
(*             those that are malformed among them                         *)
(*   window    two keys in two layouts, a button with a bit and one        *)
(*             without, two places, and four steps of the user             *)
(*   interface the windows of UiFrame, four glyphs of which one is empty,  *)
(*             and two acts of the program or the user                     *)
(***************************************************************************)
EXTENDS DeviceMemory, PackFile, Entities, TLC

CONSTANTS r1, r2, r3

MCResources == {r1, r2, r3}
MCChunks == 1 .. 3
MCTypeFlags == <<{"DeviceLocal", "HostVisible", "HostCoherent"}, {"HostVisible", "HostCoherent"}>>
MCRequests ==
  {[size |-> 5, alignment |-> 4, flags |-> {}, types |-> {1}],
   [size |-> 12, alignment |-> 8, flags |-> {"HostSequentialWrite"}, types |-> {1, 2}]}
MCPoolAttempts == {0, 2}
MCSize == [mesh |-> 3, image |-> 2, scene |-> 1]
ResourceSymmetry == Permutations(MCResources)

(* The pool of 17 bytes ends with a block of an odd size. *)
ASSUME PoolsSuit == PoolsFit

VARIABLES
  component,
  source, parser, ast, legaliser, backend, visited,
  system, window, desktop, events, told, steps,
  elements, atlas, texels, frame, isDrawn, acts

Loads == INSTANCE Workloads
Compiler == INSTANCE VslCompiler WITH
              FloatLiterals <- Loads!FloatLiterals, IntLiterals <- Loads!IntLiterals,
              Sources <- Loads!Compiled \cup Loads!OldMalformed \cup Loads!Refused,
              Malformed <- Loads!OldMalformed \cup Loads!Refused

Platform == INSTANCE Windows WITH
              Keys <- {"h", "return"},
              Translate <- <<[h |-> "H", return |-> "Return"], [h |-> "Unknown", return |-> "Return"]>>,
              Buttons <- {"Middle", "side"}, Masked <- {"Middle"}, Places <- 0 .. 1, Corner <- 0, Centre <- 1, Sizes <- {2}, UserLimit <- 4

(* An empty glyph and three of different shapes, and one that the font does *)
(* not have.                                                               *)
Pixels(x, y) == [x |-> x, y |-> y]
Glyph(font, index) ==
  CASE index = 0 -> [extent |-> Pixels(0, 0), bitmap |-> Pixels(0, 0), advance |-> 200]
    [] index = 1 -> [extent |-> Pixels(2, 2), bitmap |-> Pixels(0, -2), advance |-> 150]
    [] index = 2 -> [extent |-> Pixels(1, 3), bitmap |-> Pixels(1, -3), advance |-> 130]
    [] index = 3 -> [extent |-> Pixels(3, 1), bitmap |-> Pixels(0, -1), advance |-> 210]
    [] index = 4 -> [extent |-> Pixels(0, 0), bitmap |-> Pixels(0, 0), advance |-> 100]
Title(longest) == IF longest = 0 THEN <<1>> ELSE <<1, 2>>
Tenths(text) == IF text = <<3>> THEN 10 ELSE 3
Labels == {"main label", "graphs label", "settings label", "help", "quit label", "clear label", "count", "exposure label"}
Interface == INSTANCE UiFrame WITH
               Ppcm <- 7, MinimumBars <- 2, BarCount <- 3, BarWidth <- 100, Legend <- [graph |-> <<"legend 1", "legend 2">>],
               Title <- Title, Tenths <- Tenths,
               GlyphCount <- 4, AtlasExtent <- Pixels(4, 3), ImageExtent <- Pixels(7, 4), Target <- Pixels(60, 60),
               Words <- [l \in Labels |-> IF l = "help" THEN <<1, 2>> ELSE IF l = "count" THEN <<>> ELSE <<0>>],
               Texts <- ("help" :> {<<1>>, <<2, 1, 4>>} @@ "exposure" :> {<<3>>} @@ "quit" :> {<<2>>} @@ "count" :> {<<2>>}),
               WindowSizes <- {Pixels(1000, 2000)}, Drags <- {Pixels(-1000, 640)},
               Bars <- {<<[name |-> 2, duration |-> 3], [name |-> 1, duration |-> 2]>>, <<[name |-> 3, duration |-> 5]>>},
               ActLimit <- 2

compilerVars == <<source, parser, ast, legaliser, backend, visited>>
windowVars == <<system, window, desktop, events, told, steps>>
interfaceVars == <<elements, atlas, texels, frame, isDrawn, acts>>
MCVars == <<component, memoryVars, packVars, entityVars, compilerVars, windowVars, interfaceVars>>

MCInit ==
  /\ component \in {"memory", "pack", "entities", "compiler", "window", "interface"}
  /\ MemoryInit /\ PackInit /\ EntitiesInit
  /\ Compiler!Init /\ (component # "compiler" => source = Loads!Subtraction)
  /\ Platform!Init /\ (component # "window" => window.m_buttons = {})
  /\ IF component = "interface" THEN Interface!Init
     ELSE elements = <<>> /\ atlas = <<>> /\ texels = <<>> /\ frame = <<>> /\ isDrawn = FALSE /\ acts = 0

(* A step of one component; the others keep their state. *)
Others(c) ==
  /\ component = c /\ UNCHANGED component
  /\ c # "memory" => UNCHANGED memoryVars
  /\ c # "pack" => UNCHANGED packVars
  /\ c # "entities" => UNCHANGED entityVars
  /\ c # "compiler" => UNCHANGED compilerVars
  /\ c # "window" => UNCHANGED windowVars
  /\ c # "interface" => UNCHANGED interfaceVars

MCNext ==
  \/ Others("memory") /\ MemoryNext
  \/ Others("pack") /\ PackNext
  \/ Others("entities") /\ EntitiesNext
  \/ Others("compiler") /\ Compiler!Next
  \/ Others("window") /\ Platform!Next
  \/ Others("interface") /\ Interface!Next

MCSpec == MCInit /\ [][MCNext]_MCVars

(* One component alone. *)
PackageSpec == component = "pack" /\ MCInit /\ [][MCNext]_MCVars

(* tools/vslc: a source is compiled to a valid module that computes it, or *)
(* refused; see VslCompiler.                                               *)
OldCompilerFaithful == component = "compiler" => Compiler!OldCompilerFaithful

(* ui: what is painted is drawn, and the elements fit their window; see    *)
(* UiFrame.                                                                *)
InterfaceSound == component = "interface" => Interface!DrawnAsPainted /\ Interface!EverythingInItsWindow

(* platform/wayland.cc, x11.cc: a window knows its keys, buttons, pointer  *)
(* and size when it has handled its events; see Windows.                   *)
InputKnown == Platform!InputKnown

===============================================================================
