------------------------------ MODULE FramePacer ------------------------------
(***************************************************************************)
(* FramePacer (graphics/frame_pacer.cc) hands frames between its WSI       *)
(* thread, which acquires and presents the images of the swapchain, and    *)
(* the render tasklet (the loop of an application, sandbox/main.cc), which *)
(* records and submits the commands of a frame.  The hand-over goes one    *)
(* way through a promise and the other way through an event; the fields of *)
(* the pacer that both sides use have no lock of their own.                *)
(*                                                                         *)
(* The presentation engine and the GPU are external: an acquisition gives  *)
(* any image that is not held, possibly with a complaint, or fails; work   *)
(* that was submitted ends at some time.  An extent is a pair of words, as *)
(* the window's size is written and read word by word.                     *)
(***************************************************************************)
EXTENDS Integers

CONSTANTS
  QueueLength,  (* how many frames are queued (2 in the sandbox)           *)
  Images,       (* of the swapchain                                        *)
  MaxSize,      (* a window measures 1..MaxSize each way                   *)
  None

ASSUME PacerAssumption ==
  /\ QueueLength \in Nat \ {0}
  /\ MaxSize \in Nat \ {0}
  /\ None \notin Images

Frames == 0 .. QueueLength - 1
Sizes == 1 .. MaxSize
Extents == (0 .. MaxSize) \X (0 .. MaxSize)

(* An Optional<FrameInfo>: the pair of m_frame_index and image index.      *)
FrameInfo == (Frames \X Images) \cup {None}

VARIABLES
  pc,           (* where the WSI thread is                                 *)
  image,        (* image_index, its local                                  *)
  frame,        (* m_frame_index                                           *)
  promise,      (* m_promise: the FrameInfo it holds                       *)
  event,        (* whether m_recorded_event is set                         *)
  running,      (* m_running                                               *)
  futures,      (* m_frame_futures: the frame whose work is waited for     *)
  windowExtent, (* m_window_extent                                         *)
  extent,       (* Swapchain::m_extent                                     *)
  recreate,     (* Swapchain::m_recreate_required                          *)
  renderer,     (* where the render tasklet is                             *)
  info,         (* the FrameInfo it has taken                              *)
  resolution,   (* of the window                                           *)
  closing,      (* m_should_close                                          *)
  work,         (* of each frame: on the GPU, finishing, or none           *)
  acquiring,    (* frames whose acquire semaphore is in use                *)
  rendered,     (* images whose present semaphore will be signalled        *)
  held          (* images acquired and not presented                       *)

handover == <<promise, event, running>>
swapchain == <<extent, recreate, held>>
window == <<windowExtent, resolution, closing>>
gpu == <<work, acquiring, rendered>>
tasklet == <<renderer, info>>
vars == <<pc, image, frame, handover, futures, swapchain, window, gpu, tasklet>>

Goto(l) == pc' = l
RendererGoto(l) == renderer' = l

(* The futures of the constructor are those of empty tasklets.             *)
Init ==
  /\ pc = "top"
  /\ image = None
  /\ frame = 0
  /\ promise = None
  /\ event = FALSE
  /\ running = TRUE
  /\ futures = [f \in Frames |-> f]
  /\ windowExtent = <<0, 0>>
  /\ extent = <<0, 0>>
  /\ recreate = TRUE
  /\ renderer = "loop"
  /\ info = None
  /\ resolution \in Sizes \X Sizes
  /\ closing = FALSE
  /\ work = [f \in Frames |-> "finishing"]
  /\ acquiring = {}
  /\ rendered = {}
  /\ held = {}

FutureComplete(f) == work[futures[f]] = "none"
GpuIdle == \A f \in Frames : work[f] # "gpu"

-----------------------------------------------------------------------------
(* The WSI thread.  While the render tasklet writes the window's extent    *)
(* each word is read as it was or as it will be.                           *)

ReadableExtents ==
  IF renderer = "writing"
    THEN {windowExtent[1], resolution[1]} \X {windowExtent[2], resolution[2]}
    ELSE {windowExtent}

RecreateRequired(e) == e # extent \/ recreate

Leave ==
  /\ pc = "top"
  /\ ~running
  /\ Goto("exited")
  /\ UNCHANGED <<image, frame, handover, futures, swapchain, window, gpu, tasklet>>

(* An image that was acquired with a complaint is not presented.           *)
CheckSwapchain ==
  /\ pc = "top"
  /\ running
  /\ \E e \in ReadableExtents :
       Goto(IF RecreateRequired(e) THEN "idle" ELSE IF image # None THEN "present" ELSE "advance")
  /\ UNCHANGED <<image, frame, handover, futures, swapchain, window, gpu, tasklet>>

WaitIdle ==
  /\ pc = "idle"
  /\ GpuIdle
  /\ Goto("recreate")
  /\ UNCHANGED <<image, frame, handover, futures, swapchain, window, gpu, tasklet>>

AtLeastOne(n) == IF n = 0 THEN 1 ELSE n

(* The surface takes extents of at least one by one.  The present          *)
(* semaphores go with the swapchain.                                       *)
Recreate ==
  /\ pc = "recreate"
  /\ \E e \in ReadableExtents : extent' = <<AtLeastOne(e[1]), AtLeastOne(e[2])>>
  /\ recreate' = FALSE
  /\ held' = {}
  /\ rendered' = {}
  /\ image' = None
  /\ Goto("advance")
  /\ UNCHANGED <<frame, handover, futures, window, work, acquiring, tasklet>>

(* The queue may be suboptimal or out of date for the surface.             *)
Present ==
  /\ pc = "present"
  /\ held' = held \ {image}
  /\ rendered' = rendered \ {image}
  /\ recreate' \in {recreate, TRUE}
  /\ Goto("advance")
  /\ UNCHANGED <<image, frame, handover, futures, extent, window, work, acquiring, tasklet>>

Advance ==
  /\ pc = "advance"
  /\ frame' = (frame + 1) % QueueLength
  /\ Goto("await")
  /\ UNCHANGED <<image, handover, futures, swapchain, window, gpu, tasklet>>

AwaitFrame ==
  /\ pc = "await"
  /\ FutureComplete(frame)
  /\ Goto("graph")
  /\ UNCHANGED <<image, frame, handover, futures, swapchain, window, gpu, tasklet>>

(* Read the timestamps of the frame's old render graph and replace it.     *)
ReplaceGraph ==
  /\ pc = "graph"
  /\ Goto("acquire")
  /\ UNCHANGED <<image, frame, handover, futures, swapchain, window, gpu, tasklet>>

AcquireImage(complaint) ==
  /\ pc = "acquire"
  /\ \E i \in Images \ held :
       /\ image' = i
       /\ held' = held \cup {i}
  /\ acquiring' = acquiring \cup {frame}
  /\ recreate' = (recreate \/ complaint)
  /\ Goto("fulfil")
  /\ UNCHANGED <<frame, handover, futures, extent, window, work, rendered, tasklet>>

AcquireOutOfDate ==
  /\ pc = "acquire"
  /\ recreate' = TRUE
  /\ image' = None
  /\ Goto("top")
  /\ UNCHANGED <<frame, handover, futures, extent, held, window, gpu, tasklet>>

PassFrame ==
  /\ pc = "fulfil"
  /\ promise' = <<frame, image>>
  /\ Goto("poll")
  /\ UNCHANGED <<image, frame, event, running, futures, swapchain, window, gpu, tasklet>>

(* Event::wait(): poll for the event,                                      *)
PollEvent ==
  /\ pc = "poll"
  /\ event
  /\ Goto("reset")
  /\ UNCHANGED <<image, frame, handover, futures, swapchain, window, gpu, tasklet>>

(* Mutant of ResetEvent: leaves the event set. *)
KeepEvent ==
  /\ pc = "reset"
  /\ Goto("top")
  /\ UNCHANGED <<image, frame, handover, futures, swapchain, window, gpu, tasklet>>

(* and then reset it, however often it was set.                            *)
ResetEvent ==
  /\ pc = "reset"
  /\ event' = FALSE
  /\ Goto("top")
  /\ UNCHANGED <<image, frame, promise, running, futures, swapchain, window, gpu, tasklet>>

-----------------------------------------------------------------------------
(* The render tasklet, and the destructor it runs at the end. *)

StartFrame ==
  /\ renderer = "loop"
  /\ RendererGoto(IF closing THEN "stop" ELSE "writing")
  /\ UNCHANGED <<pc, image, frame, handover, futures, swapchain, window, gpu, info>>

WriteExtent ==
  /\ renderer = "writing"
  /\ windowExtent' = resolution
  /\ RendererGoto("wait")
  /\ UNCHANGED <<pc, image, frame, handover, futures, swapchain, resolution, closing, gpu, info>>

TakeFrame ==
  /\ renderer = "wait"
  /\ promise # None
  /\ info' = promise
  /\ RendererGoto("taken")
  /\ UNCHANGED <<pc, image, frame, handover, futures, swapchain, window, gpu>>

ResetPromise ==
  /\ renderer = "taken"
  /\ promise' = None
  /\ RendererGoto("render")
  /\ UNCHANGED <<pc, image, frame, event, running, futures, swapchain, window, gpu, info>>

(* Poll the window's events, one of which may be a new size; record.       *)
Render ==
  /\ renderer = "render"
  /\ resolution' \in Sizes \X Sizes
  /\ RendererGoto("submit")
  /\ UNCHANGED <<pc, image, frame, handover, futures, swapchain, windowExtent, closing, gpu, info>>

(* Queue::submit() *)
SubmitWork ==
  /\ renderer = "submit"
  /\ work' = [work EXCEPT ![info[1]] = "gpu"]
  /\ rendered' = rendered \cup {info[2]}
  /\ RendererGoto("store")
  /\ UNCHANGED <<pc, image, frame, handover, futures, swapchain, window, acquiring, info>>

(* submit_frame() stores the future where m_frame_index says,              *)
StoreFuture ==
  /\ renderer = "store"
  /\ futures' = [futures EXCEPT ![frame] = info[1]]
  /\ info' = None
  /\ RendererGoto("set")
  /\ UNCHANGED <<pc, image, frame, handover, swapchain, window, gpu>>

(* and tells the WSI thread.                                               *)
SetRecorded ==
  /\ renderer = "set"
  /\ event' = TRUE
  /\ RendererGoto("loop")
  /\ UNCHANGED <<pc, image, frame, promise, running, futures, swapchain, window, gpu, info>>

StopRunning ==
  /\ renderer = "stop"
  /\ running' = FALSE
  /\ RendererGoto("wake")
  /\ UNCHANGED <<pc, image, frame, promise, event, futures, swapchain, window, gpu, info>>

(* Mutant of WakeThread: the destructor does not set the event. *)
WakeNobody ==
  /\ renderer = "wake"
  /\ RendererGoto("drain")
  /\ UNCHANGED <<pc, image, frame, handover, futures, swapchain, window, gpu, info>>

WakeThread ==
  /\ renderer = "wake"
  /\ event' = TRUE
  /\ RendererGoto("drain")
  /\ UNCHANGED <<pc, image, frame, promise, running, futures, swapchain, window, gpu, info>>

AwaitFutures ==
  /\ renderer = "drain"
  /\ \A f \in Frames : FutureComplete(f)
  /\ RendererGoto("join")
  /\ UNCHANGED <<pc, image, frame, handover, futures, swapchain, window, gpu, info>>

JoinThread ==
  /\ renderer = "join"
  /\ pc = "exited"
  /\ GpuIdle
  /\ RendererGoto("destroyed")
  /\ UNCHANGED <<pc, image, frame, handover, futures, swapchain, window, gpu, info>>

-----------------------------------------------------------------------------
(* The user closes the application; the GPU ends the work of a frame, and  *)
(* the IO thread and a tasklet then fulfil the frame's future.             *)

Close ==
  /\ ~closing
  /\ closing' = TRUE
  /\ UNCHANGED <<pc, image, frame, handover, futures, swapchain, windowExtent, resolution, gpu,
                 tasklet>>

EndWork(f) ==
  /\ work[f] = "gpu"
  /\ work' = [work EXCEPT ![f] = "finishing"]
  /\ acquiring' = acquiring \ {f}
  /\ UNCHANGED <<pc, image, frame, handover, futures, swapchain, window, rendered, tasklet>>

FulfilFuture(f) ==
  /\ work[f] = "finishing"
  /\ work' = [work EXCEPT ![f] = "none"]
  /\ UNCHANGED <<pc, image, frame, handover, futures, swapchain, window, acquiring, rendered,
                 tasklet>>

WsiThread ==
  \/ Leave \/ CheckSwapchain \/ WaitIdle \/ Recreate \/ Present \/ Advance
  \/ AwaitFrame \/ ReplaceGraph
  \/ \E complaint \in BOOLEAN : AcquireImage(complaint)
  \/ AcquireOutOfDate
  \/ PassFrame \/ PollEvent \/ ResetEvent

RenderTasklet ==
  \/ StartFrame \/ WriteExtent \/ TakeFrame \/ ResetPromise \/ Render
  \/ SubmitWork \/ StoreFuture \/ SetRecorded
  \/ StopRunning \/ WakeThread \/ AwaitFutures \/ JoinThread

Next ==
  \/ WsiThread
  \/ RenderTasklet
  \/ Close
  \/ \E f \in Frames : EndWork(f) \/ FulfilFuture(f)

Spec == Init /\ [][Next]_vars

(* Threads run, work on the GPU ends, and an acquisition that is repeated  *)
(* for ever succeeds without complaint again and again.                    *)
FairSpec ==
  /\ Spec
  /\ WF_vars(WsiThread) /\ WF_vars(RenderTasklet)
  /\ SF_vars(AcquireImage(FALSE))
  /\ \A f \in Frames : WF_vars(EndWork(f)) /\ WF_vars(FulfilFuture(f))

-----------------------------------------------------------------------------

TypeOK ==
  /\ pc \in {"top", "idle", "recreate", "present", "advance", "await", "graph", "acquire",
             "fulfil", "poll", "reset", "exited"}
  /\ renderer \in {"loop", "writing", "wait", "taken", "render", "submit", "store", "set",
                   "stop", "wake", "drain", "join", "destroyed"}
  /\ image \in Images \cup {None}
  /\ frame \in Frames
  /\ promise \in FrameInfo /\ info \in FrameInfo
  /\ event \in BOOLEAN /\ running \in BOOLEAN /\ closing \in BOOLEAN /\ recreate \in BOOLEAN
  /\ futures \in [Frames -> Frames]
  /\ windowExtent \in Extents /\ extent \in Extents /\ resolution \in Sizes \X Sizes
  /\ work \in [Frames -> {"gpu", "finishing", "none"}]
  /\ acquiring \subseteq Frames
  /\ rendered \subseteq Images /\ held \subseteq Images

(* While a frame is on its way to or with the render tasklet, the WSI      *)
(* thread waits with that very frame and image: nothing the tasklet uses   *)
(* is replaced under it, and its future is stored in its own place.        *)
HeldFrameIsCurrent ==
  \A i \in {promise, info} \ {None} :
    pc \in {"poll", "reset", "top", "exited"} /\ i = <<frame, image>>
    /\ (pc # "poll" => ~running)

(* What is presented has been rendered: its present semaphore is going to  *)
(* be signalled.                                                           *)
PresentsRendered == pc = "present" => image \in rendered \cap held

(* The GPU has done with a frame's render graph, its acquire semaphore,    *)
(* the images and the pacer itself before they are used again or           *)
(* destroyed; an acquisition never waits for an image nobody gives back.   *)
GpuDoneBeforeReuse ==
  /\ pc = "graph" => work[frame] # "gpu"
  /\ pc = "acquire" => frame \notin acquiring /\ held = {}
  /\ pc = "recreate" => GpuIdle /\ renderer \notin {"taken", "render", "submit"}
  /\ renderer = "destroyed" => GpuIdle /\ pc = "exited"

(* The hand-over is right in both directions, the event that ends the      *)
(* thread included, and between the processor and the GPU.                 *)
HandOver == TypeOK /\ HeldFrameIsCurrent /\ PresentsRendered /\ GpuDoneBeforeReuse

(* If the window keeps its size then frames go on being presented, in its  *)
(* size from some time on, as long as the application runs: no torn read   *)
(* of the size makes the thread recreate the swapchain for ever.           *)
FramesPresented ==
  <>[][FALSE]_resolution =>
    \/ <>~running
    \/ []<><<Present>>_vars /\ <>[](extent = resolution)

(* An application that is told to close gets through the destructor.       *)
ShutdownEnds == closing ~> renderer = "destroyed"

(* Frames go on being presented until the application closes, and then the *)
(* destructor ends.                                                        *)
PacerGoesOn == FramesPresented /\ ShutdownEnds

=============================================================================
