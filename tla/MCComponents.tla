----------------------------- MODULE MCComponents -----------------------------
(***************************************************************************)
(* Twelve components that share no state with the others, in one run:      *)
(* every behaviour is that of one of them, chosen at the start.            *)
(*   graph     the frame of the program, and every graph of three passes   *)
(*             over an image and a buffer that is presented                *)
(*   log       two threads with three messages, rings of one message       *)
(*   handles   three indices with three versions each                      *)
(*   queue     three threads, two slots, and words that wrap after four    *)
(*             laps, of which two and a half are run                       *)
(*   stealing  an owner and two thieves, two slots                         *)
(*   semaphore three threads, any member function at any time, two permits *)
(*   latch     two tasklets arrive, two count down, one holds the latch    *)
(*   tree      two windows, one with a slider and a button, one with a     *)
(*             legend that is made anew in every frame                     *)
(*   set       five elements, two of which collide in most capacities      *)
(*   script    the programs of Workloads                                   *)
(*   gltf      two materials, two meshes, three primitives, two scenes     *)
(*   shader    the sources of Workloads                                    *)
(***************************************************************************)
EXTENDS EntityHandles, MpmcQueue, WorkStealingQueue, Semaphore, Latch, Log, HashSet, UiTree, GltfConverter

VARIABLES
  component,
  plan, m_resources, id, m_passes, m_pass_order, transitions, recorded, m_events, content, layout,
  text, heap, next_place, m_marked, stale, stack, returned, careful,
  source, parser, ast, legaliser, legalised, hir, backend

Loads == INSTANCE Workloads

MCLogLimit == [main |-> 2, worker |-> 1]

PictureOps == {<<>>, <<Loads!Read("picture")>>, <<Loads!Write("picture")>>, <<Loads!WriteOver("picture")>>}
DataOps == {<<>>, <<Loads!Read("data")>>, <<Loads!Write("data")>>, <<Loads!WriteOver("data")>>}
AnyPass == {Loads!Pass(kind, p \o d) : kind \in {"Compute", "Graphics"}, p \in PictureOps, d \in DataOps}
Present == {Loads!Pass("None", <<Loads!ReadAs("picture", "Present")>>)}
MCPlans ==
  [frame |-> [resources |-> Loads!FrameResources, passes |-> [i \in DOMAIN Loads!Frame |-> {Loads!Frame[i]}]],
   small |-> [resources |-> <<"picture", "data">>, passes |-> <<AnyPass, AnyPass, AnyPass, Present>>]]

Graph == INSTANCE RenderGraph WITH Plans <- MCPlans, Images <- Loads!FrameImages \cup {"picture"}

MCKind == [e \in {"fov", "quit", "legend 1", "legend 2"} |->
             CASE e = "fov" -> "slider" [] e = "quit" -> "button" [] OTHER -> "label"]
MCUnderMouse == {{}, {"camera", "fov"}, {"camera", "graphs"}, {"graphs", "legend 1", "legend 2"},
             {"camera", "quit", "graphs", "legend 1", "legend 2"}}
MCWidgets == [camera |-> <<"fov", "quit">>, graphs |-> <<"legend 1", "legend 2">>]
MCHashOf == [e \in 1 .. 5 |-> e * 7]

Vm == INSTANCE ScriptVm WITH Programs <- Loads!Programs, PlaceLimit <- 60, next <- next_place

MCDocument ==
  [materials |-> <<[name |-> "brick", albedo |-> TRUE, normal |-> TRUE], [name |-> "plain", albedo |-> TRUE, normal |-> FALSE]>>,
   meshes |-> <<[name |-> "wall", primitives |-> <<1, 2>>], [name |-> "stone", primitives |-> <<2>>]>>,
   nodes |-> <<[mesh |-> 1, children |-> <<2, 3>>], [mesh |-> 2, children |-> <<>>], [mesh |-> 0, children |-> <<>>]>>,
   scenes |-> <<[name |-> "main", roots |-> <<1>>], [name |-> "stones", roots |-> <<2, 3>>]>>]

Compiler == INSTANCE ShaderCompiler WITH
              Sources <- Loads!Sources, Malformed <- Loads!Malformed, Unsupported <- Loads!Unsupported,
              LiteralTypes <- Loads!LiteralTypes, Word <- Loads!Word

graphVars == <<plan, m_resources, id, m_passes, m_pass_order, transitions, recorded, m_events, content, layout>>
scriptVars == <<text, heap, next_place, m_marked, stale, stack, returned, careful>>
shaderVars == <<source, parser, ast, legaliser, legalised, hir, backend>>

MCVars == <<component, graphVars, logVars, vars,
          queueVars, stealingVars, semaphoreVars, latchVars, treeVars, setVars, scriptVars, gltfVars, shaderVars>>

MCInit ==
  /\ component \in {"graph", "log", "handles", "queue", "stealing", "semaphore", "latch", "tree",
                   "set", "script", "gltf", "shader"}
  /\ Graph!Init /\ (component # "graph" => plan = "frame")
  /\ Init
  /\ LogInit /\ QueueInit /\ StealingInit /\ SemaphoreInit /\ LatchInit /\ SetInit
  /\ TreeInit /\ (component # "tree" => m_children[1] = "camera" /\ label = "legend 1")
  /\ Vm!Init /\ (component # "script" => text = <<<<"ListEnd">>>>)
  /\ GltfInit
  /\ Compiler!Init /\ (component # "shader" => source = <<Loads!Max2>>)

(* A step of one component; the others keep their state. *)
Others(c) ==
  /\ component = c /\ UNCHANGED component
  /\ c # "graph" => UNCHANGED graphVars
  /\ c # "log" => UNCHANGED logVars
  /\ c # "handles" => UNCHANGED vars
  /\ c # "queue" => UNCHANGED queueVars
  /\ c # "stealing" => UNCHANGED stealingVars
  /\ c # "semaphore" => UNCHANGED semaphoreVars
  /\ c # "latch" => UNCHANGED latchVars
  /\ c # "tree" => UNCHANGED treeVars
  /\ c # "set" => UNCHANGED setVars
  /\ c # "script" => UNCHANGED scriptVars
  /\ c # "gltf" => UNCHANGED gltfVars
  /\ c # "shader" => UNCHANGED shaderVars

MCNext ==
  \/ Others("graph") /\ Graph!Next
  \/ Others("log") /\ LogNext
  \/ Others("handles") /\ Next
  \/ Others("queue") /\ QueueNext
  \/ Others("stealing") /\ StealingNext
  \/ Others("semaphore") /\ SemaphoreNext
  \/ Others("latch") /\ LatchNext
  \/ Others("tree") /\ TreeNext
  \/ Others("set") /\ SetNext
  \/ Others("script") /\ Vm!Next
  \/ Others("gltf") /\ GltfNext
  \/ Others("shader") /\ Compiler!Next

(* The fairness of the semaphore and of the log: threads that can run do,  *)
(* and the sink does.                                                      *)
MCFairness ==
  /\ \A t \in Users : WF_MCVars(Others("semaphore") /\ ContinueCall(t))
  /\ \A t \in LogThreads : WF_MCVars(Others("log") /\ Logging(t))
  /\ WF_MCVars(Others("log") /\ Sink)
  /\ WF_MCVars(Others("log") /\ WakeSink)

MCSpec == MCInit /\ [][MCNext]_MCVars /\ MCFairness

(* One component alone. *)
ScriptSpec == component = "script" /\ MCInit /\ [][MCNext]_MCVars

(* render_graph.cc: a pass finds what it asked for, and the order has what *)
(* the target needs; see RenderGraph.                                      *)
GraphExecutes == Graph!PassFindsItsInputs /\ Graph!OrderIsWhatTheTargetNeeds

(* script/vm.cc: nothing that was freed is used; see ScriptVm. *)
TouchesOnlyLive == Vm!TouchesOnlyLive

(* script/vm.cc: a collection frees nothing that its roots lead to; see    *)
(* ScriptVm.                                                               *)
RootsKept == Vm!RootsKept

(* shaderc: a source is compiled to a valid module that computes it, or    *)
(* refused; see ShaderCompiler.                                            *)
CompilesFaithfully == Compiler!CompilesFaithfully

===============================================================================
