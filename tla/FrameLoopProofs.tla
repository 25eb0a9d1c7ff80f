----------------------------- MODULE FrameLoopProofs -----------------------------
(***************************************************************************)
(* What the frame loop stands on: the frames it is handed, what its user   *)
(* points at, and the entities it walks over.                              *)
(*                                                                         *)
(* HandOver for any number of queued frames, any set of images and any     *)
(* size of window.  It is not inductive: that the WSI thread may go on     *)
(* depends on where the render tasklet is and on which of them owns the    *)
(* frame.  Inv adds who has it (Handshake), which image is held and        *)
(* rendered (ImageKnown), that a frame's future is stored in its own place *)
(* although submit_frame() reads m_frame_index again (OwnFuture), and what *)
(* still uses an acquire semaphore (SemaphoreUse).                         *)
(*                                                                         *)
(* PointersSound for any windows, widgets and labels.  What hit_test()     *)
(* finds is restated without its loops (IsHit), which shows that hiding    *)
(* another window, raising the window that is hit and making anew a label  *)
(* that is not hit leave it as it is.  That makes the property inductive   *)
(* but for the order of the windows and what may be active (TreeInv).      *)
(*                                                                         *)
(* EntitiesImplementTable for any number of entities and any kinds of      *)
(* components, two or more.  A dense list and its sparse one lead to each  *)
(* other, with the data beside (SetSound), nothing but free slots is in    *)
(* the free list (FreeListSound), and what a view still has before it is   *)
(* the dense list as it is now, then only what was destroyed (ViewSound).  *)
(***************************************************************************)
EXTENDS FramePacer, UiTree, Entities, FiniteSetTheorems, WellFoundedInduction, TLAPS

Recording == {"taken", "render", "submit", "store", "set"}
Stopping == {"wake", "drain", "join", "destroyed"}

(* The frame is with the WSI thread, in the promise, with the render       *)
(* tasklet, or on its way back in the event.                               *)
Handshake ==
  /\ running <=> renderer \notin Stopping
  /\ promise # None =>
       /\ promise = <<frame, image>>
       /\ pc = "poll" \/ (pc \in {"reset", "top", "exited"} /\ ~running)
       /\ renderer \notin Recording \ {"taken"}
  /\ renderer \in Recording => pc = "poll" /\ ~event
  /\ renderer \in Recording \ {"set"} => info = <<frame, image>>
  /\ renderer \notin Recording \ {"set"} => info = None
  /\ event /\ running => pc \in {"poll", "reset"} /\ promise = None
  /\ pc = "reset" /\ running => event
  /\ pc = "exited" => ~running

(* Whether the GPU has got the work on the frame the WSI thread waits for. *)
Submitted == renderer \in {"store", "set"} \/ (event /\ running)

ImageKnown ==
  /\ held = IF pc \in {"advance", "await", "graph", "acquire"} THEN {} ELSE {image} \ {None}
  /\ pc \in {"fulfil", "poll", "reset", "present"} => image # None
  /\ pc = "present" => image \in rendered
  /\ pc = "top" /\ running /\ image # None => image \in rendered
  /\ pc \in {"poll", "reset"} /\ Submitted => image \in rendered

OwnFuture == \A f \in Frames : futures[f] = f

SemaphoreUse ==
  \A f \in acquiring :
    \/ work[f] = "gpu"
    \/ /\ f = frame
       /\ \/ pc = "fulfil"
          \/ pc = "poll" /\ ~Submitted
          \/ pc \in {"poll", "reset", "top", "exited"} /\ ~running

Quiet ==
  /\ pc \in {"graph", "acquire"} => work[frame] = "none"
  /\ pc = "recreate" => GpuIdle
  /\ renderer = "destroyed" => GpuIdle /\ pc = "exited"

Inv == TypeOK /\ Handshake /\ ImageKnown /\ OwnFuture /\ SemaphoreUse /\ Quiet

-----------------------------------------------------------------------------

LEMMA InitInv == Init => Inv
<1> SUFFICES ASSUME Init PROVE Inv
  OBVIOUS
<1> USE PacerAssumption DEF Init
<1>1. TypeOK
  <2>1. 0 \in Frames /\ <<0, 0>> \in Extents
    BY DEF Frames, Extents
  <2>2. None \in FrameInfo /\ None \in Images \cup {None}
    BY DEF FrameInfo
  <2>3. futures \in [Frames -> Frames] /\ work \in [Frames -> {"gpu", "finishing", "none"}]
    OBVIOUS
  <2> QED
    BY <2>1, <2>2, <2>3 DEF TypeOK
<1>2. Handshake
  BY DEF Handshake, Recording, Stopping
<1>3. ImageKnown /\ OwnFuture
  BY DEF ImageKnown, OwnFuture, Submitted
<1>4. SemaphoreUse /\ Quiet
  BY DEF SemaphoreUse, Quiet, Submitted
<1> QED
  BY <1>1, <1>2, <1>3, <1>4 DEF Inv
(* Types: the steps of the WSI thread. *)
LEMMA WsiTypes ==
  ASSUME TypeOK, ImageKnown, WsiThread
  PROVE  TypeOK'
<1> USE DEF TypeOK, Goto, handover, swapchain, window, gpu, tasklet
<1>1. CASE Leave \/ CheckSwapchain \/ WaitIdle \/ AwaitFrame \/ ReplaceGraph \/ PollEvent
  BY <1>1 DEF Leave, CheckSwapchain, WaitIdle, AwaitFrame, ReplaceGraph, PollEvent
<1>2. CASE Recreate
  <2>1. PICK e \in ReadableExtents : extent' = <<AtLeastOne(e[1]), AtLeastOne(e[2])>>
    BY <1>2 DEF Recreate
  <2>2. Sizes \subseteq 0 .. MaxSize /\ 1 \in 0 .. MaxSize
    BY PacerAssumption DEF Sizes
  <2>3. /\ windowExtent[1] \in 0 .. MaxSize /\ windowExtent[2] \in 0 .. MaxSize
        /\ resolution[1] \in 0 .. MaxSize /\ resolution[2] \in 0 .. MaxSize
    BY <2>2 DEF Extents
  <2>4. e[1] \in 0 .. MaxSize /\ e[2] \in 0 .. MaxSize
    BY <2>1, <2>3 DEF ReadableExtents
  <2>5. AtLeastOne(e[1]) \in 0 .. MaxSize /\ AtLeastOne(e[2]) \in 0 .. MaxSize
    BY <2>2, <2>4 DEF AtLeastOne
  <2>6. extent' \in Extents
    BY <2>1, <2>5 DEF Extents
  <2> QED
    BY <1>2, <2>6 DEF Recreate
<1>3. CASE Present
  BY <1>3 DEF Present
<1>4. CASE Advance
  <2>1. (frame + 1) % QueueLength \in Frames
    BY PacerAssumption DEF Frames
  <2> QED
    BY <1>4, <2>1 DEF Advance
<1>5. ASSUME NEW complaint \in BOOLEAN, AcquireImage(complaint)
      PROVE  TypeOK'
  BY <1>5 DEF AcquireImage
<1>6. CASE AcquireOutOfDate
  BY <1>6 DEF AcquireOutOfDate
<1>7. CASE PassFrame
  <2>1. image \in Images
    BY <1>7 DEF PassFrame, ImageKnown
  <2>2. <<frame, image>> \in FrameInfo
    BY <2>1 DEF FrameInfo
  <2> QED
    BY <1>7, <2>2 DEF PassFrame
<1>8. CASE ResetEvent
  BY <1>8 DEF ResetEvent
<1> QED
  BY <1>1, <1>2, <1>3, <1>4, <1>5, <1>6, <1>7, <1>8 DEF WsiThread

(* Types: the steps of the render tasklet, the user and the GPU. *)
LEMMA OtherTypes ==
  ASSUME TypeOK, Handshake, ImageKnown,
         RenderTasklet \/ Close \/ \E f \in Frames : EndWork(f) \/ FulfilFuture(f)
  PROVE  TypeOK'
<1> USE DEF TypeOK, RendererGoto, handover, swapchain, window, gpu, tasklet
<1>1. CASE StartFrame \/ SetRecorded \/ StopRunning \/ WakeThread \/ AwaitFutures \/ JoinThread
  BY <1>1 DEF StartFrame, SetRecorded, StopRunning, WakeThread, AwaitFutures, JoinThread
<1>2. CASE WriteExtent
  <2>1. Sizes \X Sizes \subseteq Extents
    BY DEF Sizes, Extents
  <2> QED
    BY <1>2, <2>1 DEF WriteExtent
<1>3. CASE TakeFrame \/ ResetPromise \/ Render
  BY <1>3 DEF TakeFrame, ResetPromise, Render, FrameInfo
<1>4. CASE SubmitWork
  <2>1. info = <<frame, image>> /\ image \in Images
    BY <1>4 DEF SubmitWork, Handshake, ImageKnown, Recording
  <2> QED
    BY <1>4, <2>1 DEF SubmitWork
<1>5. CASE StoreFuture
  <2>1. info[1] = frame
    BY <1>5 DEF StoreFuture, Handshake, Recording
  <2> QED
    BY <1>5, <2>1 DEF StoreFuture, FrameInfo
<1>6. CASE Close
  BY <1>6 DEF Close
<1>7. ASSUME NEW f \in Frames, EndWork(f) \/ FulfilFuture(f)
      PROVE  TypeOK'
  BY <1>7 DEF EndWork, FulfilFuture
<1> QED
  BY <1>1, <1>2, <1>3, <1>4, <1>5, <1>6, <1>7 DEF RenderTasklet

(* Who has the frame: the two sides take turns.                            *)
LEMMA NextHandshake ==
  ASSUME Inv, [Next]_vars
  PROVE  Handshake'
<1> USE DEF Inv, TypeOK, Handshake, Recording, Stopping, Goto, RendererGoto, handover, swapchain, window, gpu, tasklet
<1>1. CASE Leave
  BY <1>1 DEF Leave
<1>2. CASE CheckSwapchain
  BY <1>2 DEF CheckSwapchain
<1>3. CASE WaitIdle
  BY <1>3 DEF WaitIdle
<1>4. CASE Recreate
  BY <1>4 DEF Recreate
<1>5. CASE Present
  BY <1>5 DEF Present
<1>6. CASE Advance
  BY <1>6 DEF Advance
<1>7. CASE AwaitFrame
  BY <1>7 DEF AwaitFrame
<1>8. CASE ReplaceGraph
  BY <1>8 DEF ReplaceGraph
<1>9. ASSUME NEW complaint \in BOOLEAN, AcquireImage(complaint)
      PROVE  Handshake'
  BY <1>9 DEF AcquireImage
<1>10. CASE AcquireOutOfDate
  BY <1>10 DEF AcquireOutOfDate
<1>11. CASE PassFrame
  BY <1>11 DEF PassFrame
<1>12. CASE PollEvent
  BY <1>12 DEF PollEvent
<1>13. CASE ResetEvent
  BY <1>13 DEF ResetEvent
<1>14. CASE StartFrame
  BY <1>14 DEF StartFrame
<1>15. CASE WriteExtent
  BY <1>15 DEF WriteExtent
<1>16. CASE TakeFrame
  BY <1>16 DEF TakeFrame
<1>17. CASE ResetPromise
  BY <1>17 DEF ResetPromise
<1>18. CASE Render
  BY <1>18 DEF Render
<1>19. CASE SubmitWork
  BY <1>19 DEF SubmitWork
<1>20. CASE StoreFuture
  BY <1>20 DEF StoreFuture
<1>21. CASE SetRecorded
  BY <1>21 DEF SetRecorded
<1>22. CASE StopRunning
  BY <1>22 DEF StopRunning
<1>23. CASE WakeThread
  BY <1>23 DEF WakeThread
<1>24. CASE AwaitFutures
  BY <1>24 DEF AwaitFutures
<1>25. CASE JoinThread
  BY <1>25 DEF JoinThread
<1>26. CASE Close
  BY <1>26 DEF Close
<1>27. ASSUME NEW f \in Frames, EndWork(f)
      PROVE  Handshake'
  BY <1>27 DEF EndWork
<1>28. ASSUME NEW f \in Frames, FulfilFuture(f)
      PROVE  Handshake'
  BY <1>28 DEF FulfilFuture
<1>29. CASE UNCHANGED vars
  BY <1>29 DEF vars
<1> QED
  BY <1>1, <1>2, <1>3, <1>4, <1>5, <1>6, <1>7, <1>8, <1>9, <1>10, <1>11, <1>12, <1>13,
     <1>14, <1>15, <1>16, <1>17, <1>18, <1>19, <1>20, <1>21, <1>22, <1>23, <1>24, <1>25,
     <1>26, <1>27, <1>28, <1>29
     DEF Next, WsiThread, RenderTasklet

(* Which image is held, and whether it is rendered.                        *)
LEMMA NextImageKnown ==
  ASSUME Inv, [Next]_vars
  PROVE  ImageKnown'
<1> USE DEF Inv, TypeOK, Handshake, ImageKnown, Submitted, Recording, Stopping, Goto, RendererGoto, handover, swapchain, window, gpu, tasklet
<1>1. CASE Leave
  BY <1>1 DEF Leave
<1>2. CASE CheckSwapchain
  BY <1>2 DEF CheckSwapchain
<1>3. CASE WaitIdle
  BY <1>3 DEF WaitIdle
<1>4. CASE Recreate
  BY <1>4 DEF Recreate
<1>5. CASE Present
  BY <1>5 DEF Present
<1>6. CASE Advance
  BY <1>6 DEF Advance
<1>7. CASE AwaitFrame
  BY <1>7 DEF AwaitFrame
<1>8. CASE ReplaceGraph
  BY <1>8 DEF ReplaceGraph
<1>9. ASSUME NEW complaint \in BOOLEAN, AcquireImage(complaint)
      PROVE  ImageKnown'
  BY <1>9, PacerAssumption DEF AcquireImage
<1>10. CASE AcquireOutOfDate
  BY <1>10 DEF AcquireOutOfDate
<1>11. CASE PassFrame
  BY <1>11 DEF PassFrame
<1>12. CASE PollEvent
  BY <1>12 DEF PollEvent
<1>13. CASE ResetEvent
  BY <1>13 DEF ResetEvent
<1>14. CASE StartFrame
  BY <1>14 DEF StartFrame
<1>15. CASE WriteExtent
  BY <1>15 DEF WriteExtent
<1>16. CASE TakeFrame
  BY <1>16 DEF TakeFrame
<1>17. CASE ResetPromise
  BY <1>17 DEF ResetPromise
<1>18. CASE Render
  BY <1>18 DEF Render
<1>19. CASE SubmitWork
  BY <1>19 DEF SubmitWork
<1>20. CASE StoreFuture
  BY <1>20 DEF StoreFuture
<1>21. CASE SetRecorded
  BY <1>21 DEF SetRecorded
<1>22. CASE StopRunning
  BY <1>22 DEF StopRunning
<1>23. CASE WakeThread
  BY <1>23 DEF WakeThread
<1>24. CASE AwaitFutures
  BY <1>24 DEF AwaitFutures
<1>25. CASE JoinThread
  BY <1>25 DEF JoinThread
<1>26. CASE Close
  BY <1>26 DEF Close
<1>27. ASSUME NEW f \in Frames, EndWork(f)
      PROVE  ImageKnown'
  BY <1>27 DEF EndWork
<1>28. ASSUME NEW f \in Frames, FulfilFuture(f)
      PROVE  ImageKnown'
  BY <1>28 DEF FulfilFuture
<1>29. CASE UNCHANGED vars
  BY <1>29 DEF vars
<1> QED
  BY <1>1, <1>2, <1>3, <1>4, <1>5, <1>6, <1>7, <1>8, <1>9, <1>10, <1>11, <1>12, <1>13,
     <1>14, <1>15, <1>16, <1>17, <1>18, <1>19, <1>20, <1>21, <1>22, <1>23, <1>24, <1>25,
     <1>26, <1>27, <1>28, <1>29
     DEF Next, WsiThread, RenderTasklet

(* m_frame_index is still that of the frame when submit_frame() reads it.  *)
LEMMA NextOwnFuture ==
  ASSUME Inv, [Next]_vars
  PROVE  OwnFuture'
<1> USE DEF Inv, TypeOK, Handshake, OwnFuture, Recording, Goto, RendererGoto, handover, swapchain, window, gpu, tasklet
<1>1. CASE Leave
  BY <1>1 DEF Leave
<1>2. CASE CheckSwapchain
  BY <1>2 DEF CheckSwapchain
<1>3. CASE WaitIdle
  BY <1>3 DEF WaitIdle
<1>4. CASE Recreate
  BY <1>4 DEF Recreate
<1>5. CASE Present
  BY <1>5 DEF Present
<1>6. CASE Advance
  BY <1>6 DEF Advance
<1>7. CASE AwaitFrame
  BY <1>7 DEF AwaitFrame
<1>8. CASE ReplaceGraph
  BY <1>8 DEF ReplaceGraph
<1>9. ASSUME NEW complaint \in BOOLEAN, AcquireImage(complaint)
      PROVE  OwnFuture'
  BY <1>9 DEF AcquireImage
<1>10. CASE AcquireOutOfDate
  BY <1>10 DEF AcquireOutOfDate
<1>11. CASE PassFrame
  BY <1>11 DEF PassFrame
<1>12. CASE PollEvent
  BY <1>12 DEF PollEvent
<1>13. CASE ResetEvent
  BY <1>13 DEF ResetEvent
<1>14. CASE StartFrame
  BY <1>14 DEF StartFrame
<1>15. CASE WriteExtent
  BY <1>15 DEF WriteExtent
<1>16. CASE TakeFrame
  BY <1>16 DEF TakeFrame
<1>17. CASE ResetPromise
  BY <1>17 DEF ResetPromise
<1>18. CASE Render
  BY <1>18 DEF Render
<1>19. CASE SubmitWork
  BY <1>19 DEF SubmitWork
<1>20. CASE StoreFuture
  BY <1>20 DEF StoreFuture
<1>21. CASE SetRecorded
  BY <1>21 DEF SetRecorded
<1>22. CASE StopRunning
  BY <1>22 DEF StopRunning
<1>23. CASE WakeThread
  BY <1>23 DEF WakeThread
<1>24. CASE AwaitFutures
  BY <1>24 DEF AwaitFutures
<1>25. CASE JoinThread
  BY <1>25 DEF JoinThread
<1>26. CASE Close
  BY <1>26 DEF Close
<1>27. ASSUME NEW f \in Frames, EndWork(f)
      PROVE  OwnFuture'
  BY <1>27 DEF EndWork
<1>28. ASSUME NEW f \in Frames, FulfilFuture(f)
      PROVE  OwnFuture'
  BY <1>28 DEF FulfilFuture
<1>29. CASE UNCHANGED vars
  BY <1>29 DEF vars
<1> QED
  BY <1>1, <1>2, <1>3, <1>4, <1>5, <1>6, <1>7, <1>8, <1>9, <1>10, <1>11, <1>12, <1>13,
     <1>14, <1>15, <1>16, <1>17, <1>18, <1>19, <1>20, <1>21, <1>22, <1>23, <1>24, <1>25,
     <1>26, <1>27, <1>28, <1>29
     DEF Next, WsiThread, RenderTasklet

(* What an acquire semaphore is in use for.                                *)
LEMMA NextSemaphoreUse ==
  ASSUME Inv, [Next]_vars
  PROVE  SemaphoreUse'
<1> USE DEF Inv, TypeOK, Handshake, SemaphoreUse, Submitted, Recording, Stopping, Goto, RendererGoto, handover, swapchain, window, gpu, tasklet
<1>1. CASE Leave
  BY <1>1 DEF Leave
<1>2. CASE CheckSwapchain
  BY <1>2 DEF CheckSwapchain
<1>3. CASE WaitIdle
  BY <1>3 DEF WaitIdle
<1>4. CASE Recreate
  BY <1>4 DEF Recreate
<1>5. CASE Present
  BY <1>5 DEF Present
<1>6. CASE Advance
  BY <1>6 DEF Advance
<1>7. CASE AwaitFrame
  BY <1>7 DEF AwaitFrame
<1>8. CASE ReplaceGraph
  BY <1>8 DEF ReplaceGraph
<1>9. ASSUME NEW complaint \in BOOLEAN, AcquireImage(complaint)
      PROVE  SemaphoreUse'
  BY <1>9 DEF AcquireImage
<1>10. CASE AcquireOutOfDate
  BY <1>10 DEF AcquireOutOfDate
<1>11. CASE PassFrame
  BY <1>11 DEF PassFrame
<1>12. CASE PollEvent
  BY <1>12 DEF PollEvent
<1>13. CASE ResetEvent
  BY <1>13 DEF ResetEvent
<1>14. CASE StartFrame
  BY <1>14 DEF StartFrame
<1>15. CASE WriteExtent
  BY <1>15 DEF WriteExtent
<1>16. CASE TakeFrame
  BY <1>16 DEF TakeFrame
<1>17. CASE ResetPromise
  BY <1>17 DEF ResetPromise
<1>18. CASE Render
  BY <1>18 DEF Render
<1>19. CASE SubmitWork
  BY <1>19 DEF SubmitWork
<1>20. CASE StoreFuture
  BY <1>20 DEF StoreFuture
<1>21. CASE SetRecorded
  BY <1>21 DEF SetRecorded
<1>22. CASE StopRunning
  BY <1>22 DEF StopRunning
<1>23. CASE WakeThread
  BY <1>23 DEF WakeThread
<1>24. CASE AwaitFutures
  BY <1>24 DEF AwaitFutures
<1>25. CASE JoinThread
  BY <1>25 DEF JoinThread
<1>26. CASE Close
  BY <1>26 DEF Close
<1>27. ASSUME NEW f \in Frames, EndWork(f)
      PROVE  SemaphoreUse'
  BY <1>27 DEF EndWork
<1>28. ASSUME NEW f \in Frames, FulfilFuture(f)
      PROVE  SemaphoreUse'
  BY <1>28 DEF FulfilFuture
<1>29. CASE UNCHANGED vars
  BY <1>29 DEF vars
<1> QED
  BY <1>1, <1>2, <1>3, <1>4, <1>5, <1>6, <1>7, <1>8, <1>9, <1>10, <1>11, <1>12, <1>13,
     <1>14, <1>15, <1>16, <1>17, <1>18, <1>19, <1>20, <1>21, <1>22, <1>23, <1>24, <1>25,
     <1>26, <1>27, <1>28, <1>29
     DEF Next, WsiThread, RenderTasklet

(* The GPU has nothing left where it was waited for.                       *)
LEMMA NextQuiet ==
  ASSUME Inv, [Next]_vars
  PROVE  Quiet'
<1> USE DEF Inv, TypeOK, Handshake, OwnFuture, Quiet, FutureComplete, GpuIdle, Recording, Stopping, Goto, RendererGoto, handover, swapchain, window, gpu, tasklet
<1>1. CASE Leave
  BY <1>1 DEF Leave
<1>2. CASE CheckSwapchain
  BY <1>2 DEF CheckSwapchain
<1>3. CASE WaitIdle
  BY <1>3 DEF WaitIdle
<1>4. CASE Recreate
  BY <1>4 DEF Recreate
<1>5. CASE Present
  BY <1>5 DEF Present
<1>6. CASE Advance
  BY <1>6 DEF Advance
<1>7. CASE AwaitFrame
  BY <1>7 DEF AwaitFrame
<1>8. CASE ReplaceGraph
  BY <1>8 DEF ReplaceGraph
<1>9. ASSUME NEW complaint \in BOOLEAN, AcquireImage(complaint)
      PROVE  Quiet'
  BY <1>9 DEF AcquireImage
<1>10. CASE AcquireOutOfDate
  BY <1>10 DEF AcquireOutOfDate
<1>11. CASE PassFrame
  BY <1>11 DEF PassFrame
<1>12. CASE PollEvent
  BY <1>12 DEF PollEvent
<1>13. CASE ResetEvent
  BY <1>13 DEF ResetEvent
<1>14. CASE StartFrame
  BY <1>14 DEF StartFrame
<1>15. CASE WriteExtent
  BY <1>15 DEF WriteExtent
<1>16. CASE TakeFrame
  BY <1>16 DEF TakeFrame
<1>17. CASE ResetPromise
  BY <1>17 DEF ResetPromise
<1>18. CASE Render
  BY <1>18 DEF Render
<1>19. CASE SubmitWork
  BY <1>19 DEF SubmitWork
<1>20. CASE StoreFuture
  BY <1>20 DEF StoreFuture
<1>21. CASE SetRecorded
  BY <1>21 DEF SetRecorded
<1>22. CASE StopRunning
  BY <1>22 DEF StopRunning
<1>23. CASE WakeThread
  BY <1>23 DEF WakeThread
<1>24. CASE AwaitFutures
  BY <1>24 DEF AwaitFutures
<1>25. CASE JoinThread
  BY <1>25 DEF JoinThread
<1>26. CASE Close
  BY <1>26 DEF Close
<1>27. ASSUME NEW f \in Frames, EndWork(f)
      PROVE  Quiet'
  BY <1>27 DEF EndWork
<1>28. ASSUME NEW f \in Frames, FulfilFuture(f)
      PROVE  Quiet'
  BY <1>28 DEF FulfilFuture
<1>29. CASE UNCHANGED vars
  BY <1>29 DEF vars
<1> QED
  BY <1>1, <1>2, <1>3, <1>4, <1>5, <1>6, <1>7, <1>8, <1>9, <1>10, <1>11, <1>12, <1>13,
     <1>14, <1>15, <1>16, <1>17, <1>18, <1>19, <1>20, <1>21, <1>22, <1>23, <1>24, <1>25,
     <1>26, <1>27, <1>28, <1>29
     DEF Next, WsiThread, RenderTasklet

(* The strengthening is inductive. *)
LEMMA NextInv == Inv /\ [Next]_vars => Inv'
<1> SUFFICES ASSUME Inv, [Next]_vars PROVE Inv'
  OBVIOUS
<1>1. TypeOK'
  <2>1. CASE UNCHANGED vars
    BY <2>1 DEF Inv, TypeOK, vars, handover, swapchain, window, gpu, tasklet
  <2> QED
    BY <2>1, WsiTypes, OtherTypes DEF Inv, Next
<1> QED
  BY <1>1, NextHandshake, NextImageKnown, NextOwnFuture, NextSemaphoreUse, NextQuiet DEF Inv

(* What Inv says of the hand-over. *)
LEMMA InvHandOver == Inv => HandOver
<1> SUFFICES ASSUME Inv PROVE HandOver
  OBVIOUS
<1>1. HeldFrameIsCurrent
  BY DEF Inv, Handshake, Recording, Stopping, HeldFrameIsCurrent
<1>2. PresentsRendered
  BY DEF Inv, ImageKnown, PresentsRendered
<1>3. GpuDoneBeforeReuse
  BY DEF Inv, Handshake, ImageKnown, SemaphoreUse, Quiet, Recording, GpuDoneBeforeReuse
<1> QED
  BY <1>1, <1>2, <1>3 DEF Inv, HandOver

(* A frame has one owner at every moment, what is presented was rendered,  *)
(* and nothing the GPU still works with is used again or destroyed, for    *)
(* any number of queued frames and any swapchain.                          *)
THEOREM PacerHandOver == Spec => []HandOver
<1>1. Spec => []Inv
  BY InitInv, NextInv, PTL DEF Spec
<1> QED
  BY <1>1, InvHandOver, PTL

-----------------------------------------------------------------------------
(* Numbers. *)

(* A set of numbers that is not empty has a least element, and a greatest  *)
(* if it is bounded.                                                       *)
LEMMA LeastElement ==
  ASSUME NEW S \in SUBSET Nat, S # {}
  PROVE  \E n \in S : \A m \in S : n <= m
<1> DEFINE R == {ss \in Nat \X Nat : ss[1] < ss[2]}
<1>1. R = OpToRel(<, Nat)
  BY DEF OpToRel
<1>2. IsWellFoundedOn(R, Nat)
  BY NatLessThanWellFounded, <1>1
<1>3. \A m, n \in Nat : <<m, n>> \in R <=> m < n
  OBVIOUS
<1> HIDE DEF R
<1>4. PICK n \in S : \A m \in S : ~(<<m, n>> \in R)
  BY <1>2, WFMin
<1>5. ASSUME NEW m \in S PROVE n <= m
  <2>1. m \in Nat /\ n \in Nat
    OBVIOUS
  <2>2. ~(m < n)
    BY <1>3, <1>4, <2>1
  <2>. QED BY <2>1, <2>2
<1>. QED BY <1>5

LEMMA GreatestElement ==
  ASSUME NEW b \in Nat, NEW S \in SUBSET (0 .. b), S # {}
  PROVE  \E n \in S : \A m \in S : m <= n
<1> DEFINE T == {b - i : i \in S}
<1>1. T \in SUBSET Nat /\ T # {}
  <2>1. \A i \in S : i \in 0 .. b
    OBVIOUS
  <2>2. \A i \in S : b - i \in Nat
    BY <2>1
  <2>. QED BY <2>2
<1>2. PICK t \in T : \A u \in T : t <= u
  BY <1>1, LeastElement
<1>3. PICK n \in S : t = b - n
  BY <1>2
<1>4. ASSUME NEW m \in S PROVE m <= n
  <2>1. b - m \in T
    OBVIOUS
  <2>2. b - n <= b - m
    BY <2>1, <1>2, <1>3
  <2>. QED BY <2>2
<1>. QED BY <1>4

LEMMA MinIsLeast ==
  ASSUME NEW S \in SUBSET Nat, S # {}
  PROVE  Min(S) \in S /\ \A m \in S : Min(S) <= m
BY LeastElement DEF Min

LEMMA MaxIsGreatest ==
  ASSUME NEW b \in Nat, NEW S \in SUBSET (0 .. b), S # {}
  PROVE  Max(S) \in S /\ \A m \in S : m <= Max(S)
<1>1. PICK n \in S : \A m \in S : n >= m
  <2>1. PICK n \in S : \A m \in S : m <= n
    BY GreatestElement
  <2>. QED BY <2>1
<1>. QED BY <1>1 DEF Max

-----------------------------------------------------------------------------
(* The tree of elements. *)

Orders == Bijection(1 .. Cardinality(Windows), Windows)
Elements == Windows \cup UNION {WidgetsOf(w) : w \in Windows}

LEMMA OrderFacts ==
  ASSUME NEW children \in Orders
  PROVE  /\ DOMAIN children = 1 .. Cardinality(Windows)
         /\ \A i \in 1 .. Cardinality(Windows) : children[i] \in Windows
         /\ \A i, k \in 1 .. Cardinality(Windows) : children[i] = children[k] => i = k
         /\ \A w \in Windows : \E i \in 1 .. Cardinality(Windows) : children[i] = w
BY DEF Orders, Bijection, Injection, Surjection, IsInjective

LEMMA OrderIntro ==
  ASSUME NEW children \in [1 .. Cardinality(Windows) -> Windows],
         \A i, k \in 1 .. Cardinality(Windows) : children[i] = children[k] => i = k,
         \A w \in Windows : \E i \in 1 .. Cardinality(Windows) : children[i] = w
  PROVE  children \in Orders
BY DEF Orders, Bijection, Injection, Surjection, IsInjective

LEMMA WindowsCounted == Cardinality(Windows) \in Nat /\ Cardinality(Windows) >= 1
BY TreeAssumption, FS_CardinalityType, FS_EmptySet

LEMMA WidgetFacts ==
  ASSUME NEW w \in Windows
  PROVE  /\ Len(Widgets[w]) \in Nat /\ DOMAIN Widgets[w] = 1 .. Len(Widgets[w])
         /\ \A j \in DOMAIN Widgets[w] :
              /\ Widgets[w][j] \in WidgetsOf(w) /\ Widgets[w][j] \notin Windows
              /\ Widgets[w][j] # NoElement /\ WindowOf(Widgets[w][j]) = w
         /\ \A i, j \in DOMAIN Widgets[w] : Widgets[w][i] = Widgets[w][j] => i = j
         /\ WindowOf(w) = w
<1>1. Widgets[w] \in Seq(WidgetsOf(w)) /\ IsInjective(Widgets[w])
  BY TreeAssumption
<1>2. /\ Len(Widgets[w]) \in Nat /\ DOMAIN Widgets[w] = 1 .. Len(Widgets[w])
      /\ \A i, j \in DOMAIN Widgets[w] : Widgets[w][i] = Widgets[w][j] => i = j
  BY <1>1 DEF IsInjective
<1>3. ASSUME NEW j \in DOMAIN Widgets[w]
      PROVE  /\ Widgets[w][j] \in WidgetsOf(w) /\ Widgets[w][j] \notin Windows
             /\ Widgets[w][j] # NoElement /\ WindowOf(Widgets[w][j]) = w
  <2>1. Widgets[w][j] \in WidgetsOf(w)
    BY DEF WidgetsOf, Range
  <2>2. Widgets[w][j] \notin Windows /\ Widgets[w][j] # NoElement
    BY <2>1, TreeAssumption
  <2>3. \A v \in Windows : Widgets[w][j] \in WidgetsOf(v) => v = w
    BY <2>1, TreeAssumption
  <2>. QED BY <2>1, <2>2, <2>3 DEF WindowOf
<1>. QED BY <1>2, <1>3 DEF WindowOf

(* The labels that are made anew lie side by side in one window. *)
LEMMA LabelFacts ==
  /\ \A l \in Labels : l \notin Windows /\ l # NoElement /\ WindowOf(l) \in Windows /\ Kind[l] = "label"
  /\ \E w \in Windows : \E first, last \in DOMAIN Widgets[w] :
       /\ Labels = {Widgets[w][j] : j \in first .. last}
       /\ \A v \in Windows : \A k \in DOMAIN Widgets[v] :
            Widgets[v][k] \in Labels <=> v = w /\ k \in first .. last
<1>1. PICK w \in Windows : \E first, last \in DOMAIN Widgets[w] :
        Labels = {Widgets[w][j] : j \in first .. last}
  BY TreeAssumption
<1>2. PICK first \in DOMAIN Widgets[w] : \E last \in DOMAIN Widgets[w] :
        Labels = {Widgets[w][j] : j \in first .. last}
  BY <1>1
<1>3. PICK last \in DOMAIN Widgets[w] : Labels = {Widgets[w][j] : j \in first .. last}
  BY <1>2
<1>4. first .. last \subseteq DOMAIN Widgets[w]
  BY WidgetFacts
<1>5. ASSUME NEW l \in Labels
      PROVE  l \notin Windows /\ l # NoElement /\ WindowOf(l) = w
  <2>1. PICK j \in first .. last : l = Widgets[w][j]
    BY <1>3
  <2>. QED BY <2>1, <1>4, WidgetFacts
<1>6. ASSUME NEW v \in Windows, NEW k \in DOMAIN Widgets[v]
      PROVE  Widgets[v][k] \in Labels <=> v = w /\ k \in first .. last
  <2>1. WindowOf(Widgets[v][k]) = v
    BY WidgetFacts
  <2>2. CASE Widgets[v][k] \in Labels
    <3>1. v = w
      BY <2>1, <2>2, <1>5
    <3>2. PICK j \in first .. last : Widgets[v][k] = Widgets[w][j]
      BY <2>2, <1>3
    <3>3. k = j
      BY <3>1, <3>2, <1>4, WidgetFacts
    <3>. QED BY <2>2, <3>1, <3>3
  <2>3. CASE v = w /\ k \in first .. last
    BY <2>3, <1>3
  <2>. QED BY <2>2, <2>3
<1>. QED BY <1>3, <1>5, <1>6, TreeAssumption

(* What hit_test() finds, in terms of what the elements are. *)
IsHit(children, visible, here, current, e) ==
  \/ e = NoElement /\ \A i \in DOMAIN children : ~HitBy(children[i], visible, here, current)
  \/ \E i \in DOMAIN children :
       LET widgets == Widgets[children[i]] IN
       /\ HitBy(children[i], visible, here, current)
       /\ \A k \in DOMAIN children : HitBy(children[k], visible, here, current) => k <= i
       /\ \/ e = children[i] /\ \A j \in DOMAIN widgets : ~HitBy(widgets[j], visible, here, current)
          \/ \E j \in DOMAIN widgets :
               /\ e = widgets[j] /\ HitBy(e, visible, here, current)
               /\ \A k \in DOMAIN widgets : HitBy(widgets[k], visible, here, current) => j <= k

LEMMA HitIs ==
  ASSUME NEW children \in Orders, NEW visible, NEW here, NEW current
  PROVE  IsHit(children, visible, here, current, Hit(children, visible, here, current))
<1> DEFINE N == Cardinality(Windows)
           windows == {i \in DOMAIN children : HitBy(children[i], visible, here, current)}
           w == children[Max(windows)]
           widgets == {j \in DOMAIN Widgets[w] : HitBy(Widgets[w][j], visible, here, current)}
           e == Hit(children, visible, here, current)
<1>1. N \in Nat /\ DOMAIN children = 1 .. N
  BY WindowsCounted, OrderFacts
<1>2. CASE windows = {}
  <2>1. e = NoElement
    BY <1>2 DEF Hit
  <2>. QED BY <2>1, <1>2 DEF IsHit
<1>3. CASE windows # {}
  <2>1. windows \in SUBSET (0 .. N)
    BY <1>1
  <2>2. Max(windows) \in windows /\ \A k \in windows : k <= Max(windows)
    <3> HIDE DEF windows
    <3>. QED BY <2>1, <1>1, <1>3, MaxIsGreatest
  <2>3. w \in Windows
    BY <2>2, <1>1, OrderFacts
  <2>4. Len(Widgets[w]) \in Nat /\ DOMAIN Widgets[w] = 1 .. Len(Widgets[w])
    BY <2>3, WidgetFacts
  <2>5. CASE widgets = {}
    <3>1. e = w
      BY <1>3, <2>5 DEF Hit
    <3>2. \A j \in DOMAIN Widgets[w] : ~HitBy(Widgets[w][j], visible, here, current)
      BY <2>5
    <3>. QED BY <3>1, <3>2, <2>2 DEF IsHit
  <2>6. CASE widgets # {}
    <3>1. widgets \in SUBSET Nat
      BY <2>4
    <3>2. Min(widgets) \in widgets /\ \A k \in widgets : Min(widgets) <= k
      <4> HIDE DEF widgets
      <4>. QED BY <3>1, <2>6, MinIsLeast
    <3>3. e = Widgets[w][Min(widgets)]
      BY <1>3, <2>6 DEF Hit
    <3>4. \A k \in DOMAIN Widgets[w] : HitBy(Widgets[w][k], visible, here, current) => Min(widgets) <= k
      BY <3>2
    <3>5. HitBy(e, visible, here, current)
      BY <3>2, <3>3
    <3>6. \A k \in DOMAIN children : HitBy(children[k], visible, here, current) => k <= Max(windows)
      BY <2>2
    <3>7. Max(windows) \in DOMAIN children /\ HitBy(children[Max(windows)], visible, here, current)
      BY <2>2
    <3>8. Min(widgets) \in DOMAIN Widgets[w]
      BY <3>2
    <3> HIDE DEF windows, widgets, e
    <3>. QED BY <3>3, <3>4, <3>5, <3>6, <3>7, <3>8 DEF IsHit, w, e
  <2>. QED BY <2>5, <2>6
<1>. QED BY <1>2, <1>3

(* Only one element is hit. *)
LEMMA HitIsUnique ==
  ASSUME NEW children \in Orders, NEW visible, NEW here, NEW current,
         NEW d, IsHit(children, visible, here, current, d),
         NEW e, IsHit(children, visible, here, current, e)
  PROVE  d = e
<1>1. DOMAIN children = 1 .. Cardinality(Windows) /\ Cardinality(Windows) \in Nat
  BY WindowsCounted, OrderFacts
<1>2. CASE \A i \in DOMAIN children : ~HitBy(children[i], visible, here, current)
  BY <1>2 DEF IsHit
<1>3. CASE ~\A i \in DOMAIN children : ~HitBy(children[i], visible, here, current)
  <2>1. PICK i \in DOMAIN children :
          /\ HitBy(children[i], visible, here, current)
          /\ \A k \in DOMAIN children : HitBy(children[k], visible, here, current) => k <= i
          /\ \/ d = children[i] /\ \A j \in DOMAIN Widgets[children[i]] : ~HitBy(Widgets[children[i]][j], visible, here, current)
             \/ \E j \in DOMAIN Widgets[children[i]] :
                  /\ d = Widgets[children[i]][j] /\ HitBy(d, visible, here, current)
                  /\ \A k \in DOMAIN Widgets[children[i]] : HitBy(Widgets[children[i]][k], visible, here, current) => j <= k
    BY <1>3 DEF IsHit
  <2>2. PICK n \in DOMAIN children :
          /\ HitBy(children[n], visible, here, current)
          /\ \A k \in DOMAIN children : HitBy(children[k], visible, here, current) => k <= n
          /\ \/ e = children[n] /\ \A j \in DOMAIN Widgets[children[n]] : ~HitBy(Widgets[children[n]][j], visible, here, current)
             \/ \E j \in DOMAIN Widgets[children[n]] :
                  /\ e = Widgets[children[n]][j] /\ HitBy(e, visible, here, current)
                  /\ \A k \in DOMAIN Widgets[children[n]] : HitBy(Widgets[children[n]][k], visible, here, current) => j <= k
    BY <1>3 DEF IsHit
  <2>3. i = n
    <3>1. i <= n /\ n <= i
      BY <2>1, <2>2
    <3>. QED BY <3>1, <1>1
  <2>4. children[i] \in Windows
    BY <1>1, OrderFacts
  <2>5. DOMAIN Widgets[children[i]] \subseteq Nat
    BY <2>4, WidgetFacts
  <2>. QED BY <2>1, <2>2, <2>3, <2>5
<1>. QED BY <1>2, <1>3

(* The element that is hit is shown. *)
LEMMA HitIsShown ==
  ASSUME NEW children \in Orders, NEW visible \in SUBSET Windows, NEW here, NEW current,
         NEW e, IsHit(children, visible, here, current, e), e # NoElement
  PROVE  /\ e \in Elements /\ WindowOf(e) \in visible /\ (e \in Labels => e = current)
         /\ \E i \in DOMAIN children : WindowOf(e) = children[i] /\ e \in {children[i]} \cup WidgetsOf(children[i])
<1>1. PICK i \in DOMAIN children :
        /\ HitBy(children[i], visible, here, current)
        /\ \/ e = children[i]
           \/ \E j \in DOMAIN Widgets[children[i]] : e = Widgets[children[i]][j] /\ HitBy(e, visible, here, current)
  BY DEF IsHit
<1>2. children[i] \in Windows
  BY OrderFacts
<1>3. children[i] \in visible
  BY <1>1, <1>2 DEF HitBy
<1>4. CASE e = children[i]
  <2>1. e \notin Labels
    BY <1>2, <1>4, LabelFacts
  <2>. QED BY <1>2, <1>3, <1>4, <2>1, WidgetFacts DEF Elements
<1>5. CASE e # children[i]
  <2>1. PICK j \in DOMAIN Widgets[children[i]] : e = Widgets[children[i]][j] /\ HitBy(e, visible, here, current)
    BY <1>1, <1>5
  <2>2. e \in WidgetsOf(children[i]) /\ WindowOf(e) = children[i]
    BY <1>2, <2>1, WidgetFacts
  <2>3. e \in Elements
    BY <1>2, <2>2 DEF Elements
  <2>. QED BY <1>3, <2>1, <2>2, <2>3 DEF HitBy
<1>. QED BY <1>4, <1>5

(* A window that was hidden had nothing to do with what was hit outside.   *)
LEMMA HideKeepsHit ==
  ASSUME NEW children \in Orders, NEW visible \in SUBSET Windows, NEW here, NEW current,
         NEW e, IsHit(children, visible, here, current, e),
         NEW w \in Windows, e = NoElement \/ WindowOf(e) # w
  PROVE  IsHit(children, visible \ {w}, here, current, e)
<1>1. \A i \in DOMAIN children : children[i] \in Windows
  BY OrderFacts
<1>2. \A v \in Windows : HitBy(v, visible \ {w}, here, current) <=> v # w /\ HitBy(v, visible, here, current)
  BY DEF HitBy
<1>3. \A v \in Windows : \A j \in DOMAIN Widgets[v] :
        HitBy(Widgets[v][j], visible \ {w}, here, current) <=> HitBy(Widgets[v][j], visible, here, current)
  BY WidgetFacts DEF HitBy
<1>4. CASE e = NoElement
  <2>1. \A i \in DOMAIN children : ~HitBy(children[i], visible, here, current)
    <3>1. ASSUME NEW i \in DOMAIN children PROVE e # children[i] /\ \A j \in DOMAIN Widgets[children[i]] : e # Widgets[children[i]][j]
      BY <1>1, <1>4, WidgetFacts, TreeAssumption
    <3>. QED BY <3>1 DEF IsHit
  <2>. QED BY <1>1, <1>2, <1>4, <2>1 DEF IsHit
<1>5. CASE e # NoElement
  <2>1. PICK i \in DOMAIN children :
          /\ HitBy(children[i], visible, here, current)
          /\ \A k \in DOMAIN children : HitBy(children[k], visible, here, current) => k <= i
          /\ \/ e = children[i] /\ \A j \in DOMAIN Widgets[children[i]] : ~HitBy(Widgets[children[i]][j], visible, here, current)
             \/ \E j \in DOMAIN Widgets[children[i]] :
                  /\ e = Widgets[children[i]][j] /\ HitBy(e, visible, here, current)
                  /\ \A k \in DOMAIN Widgets[children[i]] : HitBy(Widgets[children[i]][k], visible, here, current) => j <= k
    BY <1>5 DEF IsHit
  <2>2. WindowOf(e) = children[i]
    BY <1>1, <2>1, WidgetFacts
  <2>3. HitBy(children[i], visible \ {w}, here, current)
    BY <1>1, <1>2, <1>5, <2>1, <2>2
  <2>4. \A k \in DOMAIN children : HitBy(children[k], visible \ {w}, here, current) => k <= i
    BY <1>1, <1>2, <2>1
  <2>5. \/ e = children[i] /\ \A j \in DOMAIN Widgets[children[i]] : ~HitBy(Widgets[children[i]][j], visible \ {w}, here, current)
        \/ \E j \in DOMAIN Widgets[children[i]] :
             /\ e = Widgets[children[i]][j] /\ HitBy(e, visible \ {w}, here, current)
             /\ \A k \in DOMAIN Widgets[children[i]] : HitBy(Widgets[children[i]][k], visible \ {w}, here, current) => j <= k
    BY <1>1, <1>3, <2>1
  <2>. QED BY <2>3, <2>4, <2>5 DEF IsHit
<1>. QED BY <1>4, <1>5

(* The window that is hit stays in front when it comes to the front.       *)
LEMMA RaiseKeepsHit ==
  ASSUME NEW children \in Orders, NEW raised \in Orders, NEW visible \in SUBSET Windows, NEW here, NEW current,
         NEW e, IsHit(children, visible, here, current, e), e # NoElement,
         raised[Cardinality(Windows)] = WindowOf(e)
  PROVE  IsHit(raised, visible, here, current, e)
<1> DEFINE N == Cardinality(Windows)
<1>1. /\ \A i \in DOMAIN children : children[i] \in Windows
      /\ N \in Nat /\ N >= 1 /\ DOMAIN raised = 1 .. N
  BY OrderFacts, WindowsCounted
<1>2. PICK i \in DOMAIN children :
        /\ HitBy(children[i], visible, here, current)
        /\ \/ e = children[i] /\ \A j \in DOMAIN Widgets[children[i]] : ~HitBy(Widgets[children[i]][j], visible, here, current)
           \/ \E j \in DOMAIN Widgets[children[i]] :
                /\ e = Widgets[children[i]][j] /\ HitBy(e, visible, here, current)
                /\ \A k \in DOMAIN Widgets[children[i]] : HitBy(Widgets[children[i]][k], visible, here, current) => j <= k
  BY DEF IsHit
<1>3. raised[N] = children[i]
  BY <1>1, <1>2, WidgetFacts
<1>4. N \in DOMAIN raised /\ \A k \in DOMAIN raised : k <= N
  BY <1>1
<1>. QED BY <1>2, <1>3, <1>4 DEF IsHit

(* A label that was made anew and was not hit lies where another element   *)
(* is hit before it.                                                       *)
LEMMA RemakeKeepsHit ==
  ASSUME NEW children \in Orders, NEW visible \in SUBSET Windows, NEW here \in UnderMouse,
         NEW current \in Labels, NEW new \in Labels,
         NEW e, IsHit(children, visible, here, current, e), e # current
  PROVE  IsHit(children, visible, here, new, e)
<1> DEFINE Was(d) == HitBy(d, visible, here, current)
           Is(d) == HitBy(d, visible, here, new)
<1>1. \A i \in DOMAIN children : children[i] \in Windows
  BY OrderFacts
<1>2. \A v \in Windows : Was(v) <=> Is(v)
  BY LabelFacts DEF HitBy
<1>3. \A d : d \notin Labels => (Was(d) <=> Is(d))
  BY DEF HitBy
<1>4. Labels \subseteq here \/ Labels \cap here = {}
  BY TreeAssumption
<1>5. PICK w \in Windows : \E first, last \in DOMAIN Widgets[w] :
        /\ Labels = {Widgets[w][j] : j \in first .. last}
        /\ \A v \in Windows : \A k \in DOMAIN Widgets[v] : Widgets[v][k] \in Labels <=> v = w /\ k \in first .. last
  BY LabelFacts
<1>6. PICK first \in DOMAIN Widgets[w], last \in DOMAIN Widgets[w] :
        /\ Labels = {Widgets[w][j] : j \in first .. last}
        /\ \A v \in Windows : \A k \in DOMAIN Widgets[v] : Widgets[v][k] \in Labels <=> v = w /\ k \in first .. last
  BY <1>5
<1>7. /\ \A v \in Windows : DOMAIN Widgets[v] \subseteq Nat
      /\ first .. last \subseteq DOMAIN Widgets[w]
  BY WidgetFacts
<1>8. PICK c \in first .. last : current = Widgets[w][c]
  BY <1>6
<1>9. CASE e = NoElement /\ \A i \in DOMAIN children : ~Was(children[i])
  BY <1>1, <1>2, <1>9 DEF IsHit
<1>10. ASSUME NEW i \in DOMAIN children, Was(children[i]),
              \A k \in DOMAIN children : Was(children[k]) => k <= i,
              e = children[i], \A j \in DOMAIN Widgets[children[i]] : ~Was(Widgets[children[i]][j])
       PROVE  IsHit(children, visible, here, new, e)
  <2>1. ASSUME NEW j \in DOMAIN Widgets[children[i]], Is(Widgets[children[i]][j]) PROVE FALSE
    <3>1. Widgets[children[i]][j] \in Labels
      BY <1>3, <1>10, <2>1
    <3>2. children[i] = w
      BY <1>1, <1>6, <3>1
    <3>3. current \in here
      BY <1>4, <2>1, <3>1 DEF HitBy
    <3>4. Was(current)
      BY <3>3, LabelFacts DEF HitBy
    <3>. QED BY <1>7, <1>8, <1>10, <3>2, <3>4
  <2>2. Is(children[i]) /\ \A k \in DOMAIN children : Is(children[k]) => k <= i
    BY <1>1, <1>2, <1>10
  <2>. QED BY <1>10, <2>1, <2>2 DEF IsHit
<1>11. ASSUME NEW i \in DOMAIN children, Was(children[i]),
              \A k \in DOMAIN children : Was(children[k]) => k <= i,
              NEW j \in DOMAIN Widgets[children[i]], e = Widgets[children[i]][j], Was(e),
              \A k \in DOMAIN Widgets[children[i]] : Was(Widgets[children[i]][k]) => j <= k
       PROVE  IsHit(children, visible, here, new, e)
  <2>1. e \notin Labels
    BY <1>11 DEF HitBy
  <2>2. Is(e)
    BY <1>3, <1>11, <2>1
  <2>3. ASSUME NEW k \in DOMAIN Widgets[children[i]], Is(Widgets[children[i]][k]) PROVE j <= k
    <3>1. CASE Widgets[children[i]][k] \notin Labels
      BY <1>3, <1>11, <2>3, <3>1
    <3>2. CASE Widgets[children[i]][k] \in Labels
      <4>1. children[i] = w /\ k \in first .. last
        BY <1>1, <1>6, <3>2
      <4>2. j \notin first .. last
        BY <1>1, <1>6, <1>11, <2>1, <4>1
      <4>3. current \in here
        BY <1>4, <2>3, <3>2 DEF HitBy
      <4>4. Was(current)
        BY <4>3, LabelFacts DEF HitBy
      <4>5. j <= c
        BY <1>7, <1>8, <1>11, <4>1, <4>4
      <4>6. j \in Nat /\ k \in Nat /\ first \in Nat /\ last \in Nat /\ c \in Nat
        BY <1>1, <1>7, <4>1
      <4>. QED BY <1>8, <4>1, <4>2, <4>5, <4>6
    <3>. QED BY <3>1, <3>2
  <2>4. Is(children[i]) /\ \A k \in DOMAIN children : Is(children[k]) => k <= i
    BY <1>1, <1>2, <1>11
  <2>. QED BY <1>11, <2>2, <2>3, <2>4 DEF IsHit
<1>. QED BY <1>9, <1>10, <1>11 DEF IsHit

LEMMA RaisedOrder ==
  ASSUME NEW w \in Windows, m_children \in Orders
  PROVE  BroughtToFront(w) \in Orders /\ BroughtToFront(w)[Cardinality(Windows)] = w
<1> DEFINE N == Cardinality(Windows)
           p == CHOOSE k \in DOMAIN m_children : m_children[k] = w
           raised == BroughtToFront(w)
<1>1. /\ N \in Nat /\ N >= 1 /\ DOMAIN m_children = 1 .. N
      /\ \A i \in 1 .. N : m_children[i] \in Windows
      /\ \A i, k \in 1 .. N : m_children[i] = m_children[k] => i = k
      /\ \A v \in Windows : \E i \in 1 .. N : m_children[i] = v
  BY OrderFacts, WindowsCounted
<1>2. p \in 1 .. N /\ m_children[p] = w
  BY <1>1
<1>3. raised = [k \in 1 .. N |-> IF k < p THEN m_children[k] ELSE IF k < N THEN m_children[k + 1] ELSE w]
  BY DEF BroughtToFront
<1> HIDE DEF N, p, raised
<1>4. raised \in [1 .. N -> Windows] /\ raised[N] = w
  BY <1>1, <1>2, <1>3
<1>5. ASSUME NEW i \in 1 .. N, NEW k \in 1 .. N, raised[i] = raised[k] PROVE i = k
  BY <1>1, <1>2, <1>3, <1>5
<1>6. ASSUME NEW v \in Windows PROVE \E i \in 1 .. N : raised[i] = v
  <2>1. PICK i \in 1 .. N : m_children[i] = v
    BY <1>1
  <2>2. CASE i < p
    BY <1>3, <2>1, <2>2
  <2>3. CASE i = p
    BY <1>2, <1>4, <1>1, <2>1, <2>3
  <2>4. CASE i > p
    <3>1. i - 1 \in 1 .. N /\ ~(i - 1 < p) /\ i - 1 < N /\ (i - 1) + 1 = i
      BY <1>1, <1>2, <2>4
    <3>. QED BY <1>3, <2>1, <3>1
  <2>. QED BY <1>1, <1>2, <2>2, <2>3, <2>4
<1>. QED BY <1>4, <1>5, <1>6, OrderIntro DEF N, raised

(* What the pointers rest on: the children of the screen pane are all the  *)
(* windows, and what is active handles buttons, so it is not made anew.    *)
TreeInv ==
  /\ m_children \in Orders /\ m_visible \subseteq Windows /\ label \in Labels
  /\ {m_active_element, m_hovered_element} \subseteq Elements \cup {NoElement}
  /\ m_active_element \notin Labels
  /\ m_need_hover_update \in BOOLEAN /\ moved \in BOOLEAN /\ pressed \in BOOLEAN /\ dropped \in BOOLEAN
  /\ PointersSound

(* The pointers and the mouse of one state, and what lies under it. *)
LEMMA HitFacts ==
  ASSUME NEW children \in Orders, NEW visible \in SUBSET Windows, NEW here, NEW current
  PROVE  LET e == Hit(children, visible, here, current) IN
         /\ IsHit(children, visible, here, current, e)
         /\ e \in Elements \cup {NoElement}
         /\ e # NoElement => WindowOf(e) \in visible /\ (e \in Labels => e = current)
<1>1. IsHit(children, visible, here, current, Hit(children, visible, here, current))
  BY HitIs
<1>. QED BY <1>1, HitIsShown

LEMMA NoElementFacts ==
  NoElement \notin Elements /\ NoElement \notin Labels /\ NoElement \notin Windows
BY TreeAssumption, LabelFacts DEF Elements

LEMMA ElementFacts ==
  ASSUME NEW e \in Elements
  PROVE  WindowOf(e) \in Windows /\ WindowOf(WindowOf(e)) = WindowOf(e)
<1>1. CASE e \in Windows
  BY <1>1, WidgetFacts
<1>2. CASE e \notin Windows
  <2>1. PICK w \in Windows : e \in WidgetsOf(w)
    BY <1>2 DEF Elements
  <2>2. PICK j \in DOMAIN Widgets[w] : e = Widgets[w][j]
    BY <2>1 DEF WidgetsOf, Range
  <2>. QED BY <2>2, WidgetFacts
<1>. QED BY <1>1, <1>2

(* The element that handles a button is in the window of the one that is   *)
(* under the mouse, and is never a label that is made anew.                *)
LEMMA HandlerFacts ==
  ASSUME TreeInv, Handler # NoElement
  PROVE  LET e == IF m_active_element # NoElement THEN m_active_element ELSE m_hovered_element IN
         /\ Handler \in Elements /\ Handler \notin Labels
         /\ WindowOf(Handler) = WindowOf(e) /\ WindowOf(e) \in m_visible /\ e # NoElement
<1> DEFINE e == IF m_active_element # NoElement THEN m_active_element ELSE m_hovered_element
<1>1. e \in Elements /\ WindowOf(e) \in m_visible /\ e # NoElement
  BY DEF TreeInv, PointersSound, IsShown, Handler
<1>2. CASE e \in Windows
  BY <1>1, <1>2, LabelFacts DEF Handler
<1>3. CASE e \notin Windows /\ Kind[e] = "label"
  <2>1. Handler = WindowOf(e)
    BY <1>1, <1>3 DEF Handler
  <2>. QED BY <1>1, <2>1, ElementFacts, LabelFacts DEF Elements
<1>4. CASE e \notin Windows /\ Kind[e] # "label"
  <2>1. Handler = e
    BY <1>1, <1>4 DEF Handler
  <2>. QED BY <1>1, <1>4, <2>1, LabelFacts
<1>. QED BY <1>2, <1>3, <1>4

LEMMA TreeInitInv == TreeInit => TreeInv
<1> SUFFICES ASSUME TreeInit PROVE TreeInv
  OBVIOUS
<1>1. m_children \in Orders
  BY DEF TreeInit, Orders
<1>2. m_children[1] \in Windows
  BY <1>1, OrderFacts, WindowsCounted
<1>3. ~\E i \in DOMAIN m_children : HitBy(m_children[i], m_visible, under, label)
  BY DEF TreeInit, HitBy
<1>4. Hit(m_children, m_visible, under, label) = NoElement
  <2>1. {i \in DOMAIN m_children : HitBy(m_children[i], m_visible, under, label)} = {}
    BY <1>3
  <2>. QED BY <2>1 DEF Hit
<1>. QED BY <1>1, <1>2, <1>4, NoElementFacts DEF TreeInit, TreeInv, PointersSound, IsShown

LEMMA TreeNextInv == TreeInv /\ [TreeNext]_treeVars => TreeInv'
<1> SUFFICES ASSUME TreeInv, [TreeNext]_treeVars PROVE TreeInv'
  OBVIOUS
<1>0. /\ m_children \in Orders /\ m_visible \in SUBSET Windows /\ label \in Labels
      /\ m_active_element \in Elements \cup {NoElement} /\ m_hovered_element \in Elements \cup {NoElement}
      /\ m_active_element \notin Labels
      /\ m_need_hover_update \in BOOLEAN /\ moved \in BOOLEAN /\ pressed \in BOOLEAN /\ dropped \in BOOLEAN
      /\ m_active_element # NoElement => WindowOf(m_active_element) \in m_visible
      /\ m_hovered_element # NoElement => WindowOf(m_hovered_element) \in m_visible /\ (m_hovered_element \in Labels => m_hovered_element = label)
      /\ ~m_need_hover_update /\ ~moved => m_hovered_element = Hit(m_children, m_visible, under, label)
      /\ m_active_element # NoElement => pressed \/ dropped
  BY DEF TreeInv, PointersSound, IsShown
<1>1. ASSUME NEW here \in UnderMouse, MouseMove(here) PROVE TreeInv'
  <2>1. /\ m_hovered_element' = Hit(m_children, m_visible, here, label) /\ under' = here
        /\ moved' \in BOOLEAN
        /\ UNCHANGED <<m_children, m_visible, label, m_active_element, m_need_hover_update, pressed, dropped>>
    BY <1>1 DEF MouseMove, treeElements
  <2>2. /\ m_hovered_element' \in Elements \cup {NoElement}
        /\ m_hovered_element' # NoElement => WindowOf(m_hovered_element') \in m_visible /\ (m_hovered_element' \in Labels => m_hovered_element' = label)
    BY <1>0, <2>1, HitFacts
  <2>. QED BY <1>0, <2>1, <2>2 DEF TreeInv, PointersSound, IsShown
<1>2. ASSUME NEW here \in UnderMouse, RenderTree(here) PROVE TreeInv'
  <2> DEFINE remade == WindowOf(label) \in m_visible
             due == m_need_hover_update \/ (remade /\ m_hovered_element = label)
  <2>1. /\ label' \in Labels /\ (~remade => label' = label)
        /\ under' = here /\ moved' = (~due /\ (moved \/ here # under))
        /\ m_hovered_element' = IF due THEN Hit(m_children, m_visible, here, label') ELSE m_hovered_element
        /\ m_need_hover_update' = FALSE
        /\ UNCHANGED <<m_children, m_visible, m_active_element, pressed, dropped>>
    BY <1>0, <1>2 DEF RenderTree
  <2>2. CASE due
    <3>1. /\ m_hovered_element' \in Elements \cup {NoElement}
          /\ m_hovered_element' # NoElement => WindowOf(m_hovered_element') \in m_visible /\ (m_hovered_element' \in Labels => m_hovered_element' = label')
          /\ m_hovered_element' = Hit(m_children, m_visible, here, label')
      BY <1>0, <2>1, <2>2, HitFacts
    <3>. QED BY <1>0, <2>1, <2>2, <3>1 DEF TreeInv, PointersSound, IsShown
  <2>3. CASE ~due
    <3>1. m_hovered_element' = m_hovered_element /\ moved' = (moved \/ here # under)
      BY <2>1, <2>3
    <3>2. m_hovered_element' \in Labels => m_hovered_element' = label'
      <4>1. ASSUME m_hovered_element \in Labels, remade PROVE FALSE
        BY <1>0, <2>3, <4>1, NoElementFacts
      <4>. QED BY <1>0, <2>1, <3>1, <4>1, NoElementFacts
    <3>3. ASSUME ~moved' PROVE m_hovered_element' = Hit(m_children, m_visible, under', label')
      <4>1. ~moved /\ here = under /\ ~m_need_hover_update
        BY <2>3, <3>1, <3>3
      <4>2. m_hovered_element = Hit(m_children, m_visible, here, label)
        BY <1>0, <4>1
      <4>3. CASE ~remade
        BY <2>1, <3>1, <4>2, <4>3
      <4>4. CASE remade
        <5>1. IsHit(m_children, m_visible, here, label, m_hovered_element)
          BY <1>0, <4>2, HitFacts
        <5>2. m_hovered_element # label
          BY <2>3, <4>4
        <5>3. IsHit(m_children, m_visible, here, label', m_hovered_element)
          BY <1>0, <2>1, <5>1, <5>2, RemakeKeepsHit
        <5>4. IsHit(m_children, m_visible, here, label', Hit(m_children, m_visible, here, label'))
          BY <1>0, HitIs
        <5>5. m_hovered_element = Hit(m_children, m_visible, here, label')
          BY <1>0, <5>3, <5>4, HitIsUnique
        <5>. QED BY <2>1, <3>1, <5>5
      <4>. QED BY <4>3, <4>4
    <3>. QED BY <1>0, <2>1, <3>1, <3>2, <3>3 DEF TreeInv, PointersSound, IsShown
  <2>. QED BY <2>2, <2>3
<1>3. CASE MousePress
  <2>1. /\ pressed' = TRUE
        /\ UNCHANGED <<m_visible, label, m_hovered_element, m_need_hover_update, under, moved, dropped>>
    BY <1>3 DEF MousePress
  <2>2. /\ m_active_element' \in Elements \cup {NoElement} /\ m_active_element' \notin Labels
        /\ m_active_element' # NoElement => WindowOf(m_active_element') \in m_visible
    <3>1. CASE UNCHANGED m_active_element
      BY <1>0, <3>1
    <3>2. CASE m_active_element' = Handler /\ Handler # NoElement
      BY <3>2, HandlerFacts, NoElementFacts
    <3>. QED BY <1>3, <3>1, <3>2 DEF MousePress, SetActiveElement
  <2>3. CASE UNCHANGED m_children
    BY <1>0, <2>1, <2>2, <2>3 DEF TreeInv, PointersSound, IsShown
  <2>4. CASE ~UNCHANGED m_children
    <3>1. Handler \in Windows /\ ~grabbed /\ ~failed' /\ m_children' = BroughtToFront(Handler)
      BY <1>3, <2>4 DEF MousePress
    <3>2. Handler # NoElement
      BY <3>1, NoElementFacts
    <3>3. m_active_element = NoElement
      BY <1>3, <3>1, <3>2 DEF MousePress, SetActiveElement
    <3>4. m_hovered_element # NoElement /\ WindowOf(m_hovered_element) = Handler
      BY <3>1, <3>2, <3>3, HandlerFacts, WidgetFacts
    <3>5. m_children' \in Orders /\ m_children'[Cardinality(Windows)] = Handler
      BY <1>0, <3>1, RaisedOrder
    <3>6. ASSUME ~m_need_hover_update, ~moved
          PROVE  m_hovered_element = Hit(m_children', m_visible, under, label)
      <4>1. IsHit(m_children, m_visible, under, label, m_hovered_element)
        BY <1>0, <3>6, HitFacts
      <4>2. IsHit(m_children', m_visible, under, label, m_hovered_element)
        BY <1>0, <3>4, <3>5, <4>1, RaiseKeepsHit
      <4>3. IsHit(m_children', m_visible, under, label, Hit(m_children', m_visible, under, label))
        BY <3>5, HitIs
      <4>. QED BY <3>5, <4>2, <4>3, HitIsUnique
    <3>. QED BY <1>0, <2>1, <2>2, <3>5, <3>6 DEF TreeInv, PointersSound, IsShown
  <2>. QED BY <2>3, <2>4
<1>4. CASE MouseRelease
  <2>1. UNCHANGED <<m_children, m_visible, label, m_hovered_element, under, moved>> /\ pressed' = FALSE
    BY <1>4 DEF MouseRelease, treeElements
  <2>2. CASE grabbed \/ Handler = NoElement
    <3>1. dropped' = (dropped \/ m_active_element # NoElement) /\ UNCHANGED <<m_active_element, m_need_hover_update>>
      BY <1>4, <2>2 DEF MouseRelease
    <3>. QED BY <1>0, <2>1, <3>1 DEF TreeInv, PointersSound, IsShown
  <2>3. CASE ~(grabbed \/ Handler = NoElement)
    <3>1. m_active_element' = NoElement /\ m_need_hover_update' = TRUE /\ dropped' = FALSE
      BY <1>4, <2>3 DEF MouseRelease
    <3>. QED BY <1>0, <2>1, <3>1, NoElementFacts DEF TreeInv, PointersSound, IsShown
  <2>. QED BY <2>2, <2>3
<1>5. CASE GrabCursor
  <2>1. UNCHANGED <<m_children, m_visible, label, m_active_element, m_hovered_element, m_need_hover_update, under, moved, pressed, dropped>>
    BY <1>5 DEF GrabCursor, treeElements, pointers
  <2>. QED BY <1>0, <2>1 DEF TreeInv, PointersSound, IsShown
<1>6. ASSUME NEW w \in Windows, Hide(w) PROVE TreeInv'
  <2>1. /\ m_visible' = m_visible \ {w}
        /\ m_active_element' = IF Hidden(w, m_active_element) THEN NoElement ELSE m_active_element
        /\ m_hovered_element' = IF Hidden(w, m_hovered_element) THEN NoElement ELSE m_hovered_element
        /\ m_need_hover_update' = (m_need_hover_update \/ Hidden(w, m_active_element) \/ Hidden(w, m_hovered_element))
        /\ dropped' = (dropped /\ m_active_element' # NoElement)
        /\ UNCHANGED <<m_children, label, under, moved, pressed>>
    BY <1>6 DEF Hide, mouse
  <2>2. \A e \in Elements : Hidden(w, e) <=> WindowOf(e) = w
    BY NoElementFacts DEF Hidden
  <2>3. /\ m_active_element' \in Elements \cup {NoElement} /\ m_active_element' \notin Labels
        /\ m_active_element' # NoElement => m_active_element' = m_active_element /\ WindowOf(m_active_element') \in m_visible'
    BY <1>0, <2>1, <2>2, NoElementFacts
  <2>4. /\ m_hovered_element' \in Elements \cup {NoElement}
        /\ m_hovered_element' # NoElement => WindowOf(m_hovered_element') \in m_visible' /\ (m_hovered_element' \in Labels => m_hovered_element' = label')
    BY <1>0, <2>1, <2>2, NoElementFacts
  <2>5. ASSUME ~m_need_hover_update', ~moved'
        PROVE  m_hovered_element' = Hit(m_children', m_visible', under', label')
    <3>1. ~m_need_hover_update /\ ~moved /\ ~Hidden(w, m_hovered_element)
      BY <2>1, <2>5
    <3>2. IsHit(m_children, m_visible, under, label, m_hovered_element)
      BY <1>0, <3>1, HitFacts
    <3>3. m_hovered_element = NoElement \/ WindowOf(m_hovered_element) # w
      BY <3>1 DEF Hidden
    <3>4. IsHit(m_children, m_visible \ {w}, under, label, m_hovered_element)
      BY <1>0, <3>2, <3>3, HideKeepsHit
    <3>5. IsHit(m_children, m_visible \ {w}, under, label, Hit(m_children, m_visible \ {w}, under, label))
      BY <1>0, HitIs
    <3>6. m_hovered_element = Hit(m_children, m_visible \ {w}, under, label)
      BY <1>0, <3>4, <3>5, HitIsUnique
    <3>. QED BY <2>1, <3>1, <3>6
  <2>6. m_need_hover_update' \in BOOLEAN /\ dropped' \in BOOLEAN
    BY <2>1
  <2>7. m_active_element' # NoElement => pressed' \/ dropped'
    BY <1>0, <2>1, <2>3
  <2>. QED BY <1>0, <2>1, <2>3, <2>4, <2>5, <2>6, <2>7 DEF TreeInv, PointersSound, IsShown
<1>7. ASSUME NEW w \in Windows, Show(w) PROVE TreeInv'
  <2>1. /\ m_visible' = m_visible \cup {w} /\ m_children' = BroughtToFront(w) /\ m_need_hover_update' = TRUE
        /\ UNCHANGED <<label, m_active_element, m_hovered_element, under, moved, pressed, dropped>>
    BY <1>7 DEF Show, mouse
  <2>2. m_children' \in Orders
    BY <1>0, <2>1, RaisedOrder
  <2>. QED BY <1>0, <2>1, <2>2 DEF TreeInv, PointersSound, IsShown
<1>8. CASE UNCHANGED treeVars
  <2>1. UNCHANGED <<m_children, m_visible, label, m_active_element, m_hovered_element, m_need_hover_update, under, moved, pressed, dropped>>
    BY <1>8 DEF treeVars
  <2>. QED BY <1>0, <2>1 DEF TreeInv, PointersSound, IsShown
<1>. QED BY <1>1, <1>2, <1>3, <1>4, <1>5, <1>6, <1>7, <1>8 DEF TreeNext

(* ui/tree.cc, for any windows, widgets and labels and whatever lies under *)
(* the mouse: the pointers of the tree lead to what exists and is shown,   *)
(* the hovered element is what lies under the mouse unless an update is    *)
(* due or things have moved, and nothing is active without a held button   *)
(* or a release that was dropped.                                          *)
THEOREM TreePointers == TreeSpec => []PointersSound
<1>1. TreeInv => PointersSound
  BY DEF TreeInv
<1>. QED BY TreeInitInv, TreeNextInv, <1>1, PTL DEF TreeSpec

-----------------------------------------------------------------------------
(* Sequences. *)

LEMMA SeqInto ==
  ASSUME NEW S, NEW T, NEW s \in Seq(S), \A p \in 1 .. Len(s) : s[p] \in T
  PROVE  s \in Seq(T)
OBVIOUS

LEMMA RangeOfSeq ==
  ASSUME NEW S, NEW s \in Seq(S)
  PROVE  Range(s) = {s[p] : p \in 1 .. Len(s)}
<1>1. DOMAIN s = 1 .. Len(s)
  OBVIOUS
<1>. QED BY <1>1 DEF Range

TwoPlaces(new, old, a, x, b, y) ==
  Len(new) = Len(old) /\ \A p \in 1 .. Len(old) : new[p] = (IF p = b THEN y ELSE IF p = a THEN x ELSE old[p])

LEMMA SeqTwoPlaces ==
  ASSUME NEW T, NEW s \in Seq(T), NEW a \in 1 .. Len(s), NEW b \in 1 .. Len(s), NEW x \in T, NEW y \in T
  PROVE  [s EXCEPT ![a] = x, ![b] = y] \in Seq(T) /\ TwoPlaces([s EXCEPT ![a] = x, ![b] = y], s, a, x, b, y)
BY DEF TwoPlaces

(* The sparse sets. *)

SetSound(set, living) ==
  /\ set = [dense |-> set.dense, sparse |-> set.sparse, data |-> set.dense]
  /\ set.dense \in Seq(living)
  /\ set.sparse \in Seq(Nat \ {0})
  /\ \A p \in 1 .. Len(set.dense) : set.dense[p] \in 1 .. Len(set.sparse) /\ set.sparse[set.dense[p]] = p

LEMMA SetFacts ==
  ASSUME NEW living \in SUBSET (Nat \ {0}), NEW set, SetSound(set, living)
  PROVE  /\ set.dense \in Seq(Nat \ {0}) /\ Len(set.dense) \in Nat /\ Len(set.sparse) \in Nat
         /\ Range(set.dense) \subseteq living
         /\ Range(set.dense) = {set.dense[p] : p \in 1 .. Len(set.dense)}
         /\ set.data = set.dense
         /\ \A i \in Nat \ {0} : Has(set, i) <=> i \in Range(set.dense)
         /\ \A i \in Range(set.dense) :
              i \in 1 .. Len(set.sparse) /\ set.sparse[i] \in 1 .. Len(set.dense) /\ set.dense[set.sparse[i]] = i
         /\ \A p, q \in 1 .. Len(set.dense) : set.dense[p] = set.dense[q] => p = q
<1>1. /\ set.dense \in Seq(living) /\ Len(set.dense) \in Nat /\ Len(set.sparse) \in Nat
      /\ DOMAIN set.dense = 1 .. Len(set.dense) /\ set.sparse \in Seq(Nat \ {0})
      /\ \A p \in 1 .. Len(set.dense) : set.dense[p] \in living
  BY DEF SetSound
<1>2. set.dense \in Seq(Nat \ {0})
  BY <1>1
<1>3. Range(set.dense) = {set.dense[p] : p \in 1 .. Len(set.dense)} /\ Range(set.dense) \subseteq living
  BY <1>1 DEF Range
<1>4. set.data = set.dense
  BY DEF SetSound
<1>5. ASSUME NEW i \in Range(set.dense)
      PROVE  i \in 1 .. Len(set.sparse) /\ set.sparse[i] \in 1 .. Len(set.dense) /\ set.dense[set.sparse[i]] = i
  <2>1. PICK p \in 1 .. Len(set.dense) : i = set.dense[p]
    BY <1>3
  <2>. QED BY <2>1 DEF SetSound
<1>6. ASSUME NEW i \in Nat \ {0} PROVE Has(set, i) <=> i \in Range(set.dense)
  <2>1. ASSUME Has(set, i) PROVE i \in Range(set.dense)
    <3>1. set.sparse[i] \in Nat \ {0} /\ set.sparse[i] <= Len(set.dense) /\ set.dense[set.sparse[i]] = i
      BY <2>1, <1>1 DEF Has
    <3>2. set.sparse[i] \in 1 .. Len(set.dense)
      BY <3>1, <1>1
    <3>. QED BY <3>1, <3>2, <1>3
  <2>2. ASSUME i \in Range(set.dense) PROVE Has(set, i)
    BY <2>2, <1>5, <1>1 DEF Has
  <2>. QED BY <2>1, <2>2
<1>7. \A p, q \in 1 .. Len(set.dense) : set.dense[p] = set.dense[q] => p = q
  BY DEF SetSound
<1>. QED BY <1>1, <1>2, <1>3, <1>4, <1>5, <1>6, <1>7

(* Nobody else's components change when an entity comes or goes. *)
LEMMA SetGrows ==
  ASSUME NEW living, NEW more, living \subseteq more, NEW set, SetSound(set, living)
  PROVE  SetSound(set, more)
<1>1. set.dense \in Seq(more)
  BY DEF SetSound
<1>. QED BY <1>1 DEF SetSound

LEMMA SetWithout ==
  ASSUME NEW living \in SUBSET (Nat \ {0}), NEW i \in living, NEW set, SetSound(set, living), ~ Has(set, i)
  PROVE  SetSound(set, living \ {i})
<1>1. i \notin Range(set.dense)
  BY SetFacts
<1>2. Range(set.dense) = {set.dense[p] : p \in 1 .. Len(set.dense)} /\ Range(set.dense) \subseteq living
  BY SetFacts
<1>3. \A p \in 1 .. Len(set.dense) : set.dense[p] \in living \ {i}
  BY <1>1, <1>2
<1>4. set.dense \in Seq(living \ {i})
  BY <1>3, SeqInto DEF SetSound
<1>. QED BY <1>4 DEF SetSound

(* add_component(). *)
LEMMA EmplacedSound ==
  ASSUME NEW living \in SUBSET (Nat \ {0}), NEW i \in living, NEW set, SetSound(set, living), ~ Has(set, i)
  PROVE  /\ SetSound(Emplaced(set, i, i), living)
         /\ Range(Emplaced(set, i, i).dense) = Range(set.dense) \cup {i}
<1> DEFINE n == Len(set.dense)
           dense == Append(set.dense, i)
           size == IF Len(set.sparse) < i THEN i ELSE Len(set.sparse)
           sparse == Leading(set.sparse, i, n + 1)
<1>1. /\ n \in Nat /\ Len(set.sparse) \in Nat /\ i \in Nat \ {0} /\ i \notin Range(set.dense)
      /\ set.dense \in Seq(living) /\ set.sparse \in Seq(Nat \ {0}) /\ set.data = set.dense
      /\ \A p \in 1 .. n : set.dense[p] # i
  <2>1. n \in Nat /\ Len(set.sparse) \in Nat /\ i \in Nat \ {0} /\ i \notin Range(set.dense) /\ set.data = set.dense
    BY SetFacts
  <2>2. Range(set.dense) = {set.dense[p] : p \in 1 .. n}
    BY SetFacts
  <2>. QED BY <2>1, <2>2 DEF SetSound
<1>2. /\ dense \in Seq(living) /\ Len(dense) = n + 1 /\ dense[n + 1] = i
      /\ \A p \in 1 .. n : dense[p] = set.dense[p]
  BY <1>1
<1>3. /\ size \in Nat /\ sparse \in Seq(Nat \ {0}) /\ Len(sparse) = size
      /\ \A j \in 1 .. size :
           sparse[j] = (IF j = i THEN n + 1 ELSE IF j <= Len(set.sparse) THEN set.sparse[j] ELSE 1)
  <2>1. size \in Nat
    BY <1>1
  <2>2. sparse = [j \in 1 .. size |-> IF j = i THEN n + 1 ELSE IF j <= Len(set.sparse) THEN set.sparse[j] ELSE 1]
    BY DEF Leading
  <2>3. \A j \in 1 .. size :
          (IF j = i THEN n + 1 ELSE IF j <= Len(set.sparse) THEN set.sparse[j] ELSE 1) \in Nat \ {0}
    BY <1>1
  <2>. HIDE DEF size, sparse, n
  <2>. QED BY <2>1, <2>2, <2>3
<1>4. ASSUME NEW p \in 1 .. n + 1 PROVE dense[p] \in 1 .. size /\ sparse[dense[p]] = p
  <2>1. CASE p = n + 1
    BY <2>1, <1>1, <1>2, <1>3
  <2>2. CASE p \in 1 .. n
    <3>1. set.dense[p] \in 1 .. Len(set.sparse) /\ set.sparse[set.dense[p]] = p
      BY <2>2 DEF SetSound
    <3>2. set.dense[p] # i
      BY <2>2, <1>1
    <3>3. dense[p] = set.dense[p] /\ set.dense[p] <= size /\ set.dense[p] \in 1 .. size
      BY <2>2, <3>1, <1>1, <1>2
    <3>4. sparse[set.dense[p]] = set.sparse[set.dense[p]]
      <4>. HIDE DEF sparse, size, dense
      <4>. QED BY <3>1, <3>2, <3>3, <1>3
    <3>. HIDE DEF sparse, size, dense
    <3>. QED BY <3>1, <3>3, <3>4
  <2>. QED BY <2>1, <2>2, <1>1
<1>5. Emplaced(set, i, i) = [dense |-> dense, sparse |-> sparse, data |-> dense]
  BY <1>1 DEF Emplaced
<1>6. Range(dense) = Range(set.dense) \cup {i}
  <2>1. Range(dense) = {dense[p] : p \in 1 .. n + 1} /\ Range(set.dense) = {set.dense[p] : p \in 1 .. n}
    <3>. HIDE DEF dense
    <3>. QED BY <1>1, <1>2, RangeOfSeq
  <2>2. 1 .. n + 1 = (1 .. n) \cup {n + 1}
    BY <1>1
  <2>. HIDE DEF dense, n
  <2>3. {dense[p] : p \in (1 .. n) \cup {n + 1}} = {dense[p] : p \in 1 .. n} \cup {dense[n + 1]}
    OBVIOUS
  <2>. QED BY <2>1, <2>2, <2>3, <1>2
<1>. HIDE DEF dense, sparse, size, n
<1>. QED BY <1>2, <1>3, <1>4, <1>5, <1>6 DEF SetSound

(* remove(): the last of the dense list takes the place that is given up, *)
Shrunk(new, old, place) ==
  /\ Len(new) = Len(old) - 1
  /\ \A p \in 1 .. Len(old) - 1 : new[p] = (IF p = place THEN old[Len(old)] ELSE old[p])

LEMMA RemovedPlaces ==
  ASSUME NEW living \in SUBSET (Nat \ {0}), NEW i \in living, NEW set, SetSound(set, living), Has(set, i)
  PROVE  /\ set.sparse[i] \in 1 .. Len(set.dense) /\ set.dense[set.sparse[i]] = i
         /\ Removed(set, i).dense \in Seq(living)
         /\ Shrunk(Removed(set, i).dense, set.dense, set.sparse[i])
<1> DEFINE n == Len(set.dense)
           place == set.sparse[i]
           moved_one == set.dense[n]
           swapped == [set.dense EXCEPT ![place] = moved_one]
           dense == SubSeq(swapped, 1, n - 1)
<1>1. /\ n \in Nat /\ set.dense \in Seq(living) /\ place \in 1 .. n /\ set.dense[place] = i
      /\ Len(set.dense) = n /\ DOMAIN set.dense = 1 .. n /\ moved_one \in living
  <2>1. i \in Range(set.dense)
    BY SetFacts
  <2>2. place \in 1 .. n /\ set.dense[place] = i
    BY <2>1, SetFacts
  <2>3. n \in Nat /\ set.dense \in Seq(living)
    BY SetFacts DEF SetSound
  <2>4. n \in 1 .. n
    BY <2>2, <2>3
  <2>. QED BY <2>2, <2>3, <2>4
<1>2. Removed(set, i).dense = dense
  BY DEF Removed
<1>. HIDE DEF n, place, moved_one
<1>3. /\ swapped \in Seq(living) /\ Len(swapped) = n
      /\ \A p \in 1 .. n : swapped[p] = (IF p = place THEN moved_one ELSE set.dense[p])
  BY <1>1
<1>. HIDE DEF swapped
<1>4. /\ dense \in Seq(living) /\ Len(dense) = n - 1
      /\ \A p \in 1 .. n - 1 : dense[p] = (IF p = place THEN moved_one ELSE set.dense[p])
  BY <1>1, <1>3
<1>. HIDE DEF dense
<1>. QED BY <1>1, <1>2, <1>4 DEF n, place, moved_one, Shrunk

(* and takes its data and its sparse slot along. *)
LEMMA RemovedSound ==
  ASSUME NEW living \in SUBSET (Nat \ {0}), NEW i \in living, NEW set, SetSound(set, living), Has(set, i)
  PROVE  /\ SetSound(Removed(set, i), living \ {i})
         /\ Range(Removed(set, i).dense) = Range(set.dense) \ {i}
<1> DEFINE n == Len(set.dense)
           place == set.sparse[i]
           moved_one == set.dense[n]
           dense == Removed(set, i).dense
           sparse == [set.sparse EXCEPT ![moved_one] = place]
<1>1. /\ n \in Nat /\ Len(set.sparse) \in Nat /\ i \in Range(set.dense)
      /\ set.dense \in Seq(living) /\ set.sparse \in Seq(Nat \ {0}) /\ set.data = set.dense
      /\ place \in 1 .. n /\ set.dense[place] = i /\ n >= 1
      /\ \A p, q \in 1 .. n : set.dense[p] = set.dense[q] => p = q
      /\ \A p \in 1 .. n : set.dense[p] \in living
      /\ Len(set.dense) = n /\ DOMAIN set.dense = 1 .. n /\ set.sparse[i] = place /\ moved_one = set.dense[n]
  <2>1. i \in Range(set.dense)
    BY SetFacts
  <2>2. place \in 1 .. n /\ set.dense[place] = i
    BY <2>1, SetFacts
  <2>3. n \in Nat /\ Len(set.sparse) \in Nat /\ set.data = set.dense
    BY SetFacts
  <2>4. \A p, q \in 1 .. n : set.dense[p] = set.dense[q] => p = q
    BY SetFacts
  <2>5. set.dense \in Seq(living) /\ set.sparse \in Seq(Nat \ {0})
    BY DEF SetSound
  <2>6. DOMAIN set.dense = 1 .. n /\ \A p \in 1 .. n : set.dense[p] \in living
    BY <2>5
  <2>7. n >= 1
    BY <2>2, <2>3
  <2>. QED BY <2>1, <2>2, <2>3, <2>4, <2>5, <2>6, <2>7
<1>2. moved_one \in living /\ moved_one \in 1 .. Len(set.sparse) /\ set.sparse[moved_one] = n
  BY <1>1 DEF SetSound, n, moved_one
<1>. HIDE DEF n, place, moved_one
<1>4. /\ dense \in Seq(living) /\ Len(dense) = n - 1
      /\ \A p \in 1 .. n - 1 : dense[p] = (IF p = place THEN moved_one ELSE set.dense[p])
  <2>1. dense \in Seq(living) /\ Shrunk(dense, set.dense, set.sparse[i])
    BY RemovedPlaces
  <2>. HIDE DEF dense, sparse
  <2>2. Len(dense) = n - 1
    BY <2>1 DEF n, Shrunk
  <2>3. \A p \in 1 .. n - 1 : dense[p] = (IF p = place THEN moved_one ELSE set.dense[p])
    BY <2>1 DEF n, place, moved_one, Shrunk
  <2>. QED BY <2>1, <2>2, <2>3
<1>5. ASSUME NEW p \in 1 .. n - 1 PROVE dense[p] \in living \ {i}
  <2>1. p \in 1 .. n /\ n \in 1 .. n /\ p # n
    BY <1>1
  <2>2. CASE p = place
    <3>1. set.dense[n] # set.dense[place]
      BY <2>1, <2>2, <1>1
    <3>. HIDE DEF dense
    <3>. QED BY <2>2, <3>1, <1>1, <1>2, <1>4
  <2>3. CASE p # place
    <3>1. set.dense[p] # i
      BY <2>1, <2>3, <1>1
    <3>. HIDE DEF dense
    <3>. QED BY <2>1, <2>3, <3>1, <1>1, <1>4
  <2>. QED BY <2>2, <2>3
<1>6. dense \in Seq(living \ {i})
  <2>. HIDE DEF dense
  <2>. QED BY <1>1, <1>4, <1>5
<1>7. /\ sparse \in Seq(Nat \ {0}) /\ Len(sparse) = Len(set.sparse)
      /\ \A j \in 1 .. Len(set.sparse) : sparse[j] = (IF j = moved_one THEN place ELSE set.sparse[j])
  <2>. QED BY <1>1, <1>2
<1>8. ASSUME NEW p \in 1 .. n - 1 PROVE dense[p] \in 1 .. Len(sparse) /\ sparse[dense[p]] = p
  <2>1. CASE p = place
    <3>. HIDE DEF dense, sparse
    <3>. QED BY <2>1, <1>1, <1>2, <1>4, <1>7
  <2>2. CASE p # place
    <3>1. dense[p] = set.dense[p] /\ p \in 1 .. n /\ p # n
      <4>. HIDE DEF dense
      <4>. QED BY <2>2, <1>1, <1>4
    <3>2. set.dense[p] \in 1 .. Len(set.sparse) /\ set.sparse[set.dense[p]] = p
      BY <3>1, <1>1 DEF SetSound
    <3>3. set.dense[p] # moved_one
      <4>1. n \in 1 .. n
        BY <1>1
      <4>. QED BY <4>1, <3>1, <1>1
    <3>. HIDE DEF dense, sparse
    <3>. QED BY <3>1, <3>2, <3>3, <1>7
  <2>. QED BY <2>1, <2>2
<1>9. Removed(set, i) = [dense |-> dense, sparse |-> sparse, data |-> dense]
  BY <1>1 DEF Removed, n, place, moved_one
<1>10. Range(dense) = Range(set.dense) \ {i}
  <2>. HIDE DEF dense
  <2>1. Range(dense) = {dense[p] : p \in 1 .. n - 1} /\ Range(set.dense) = {set.dense[p] : p \in 1 .. n}
    <3>1. Range(dense) = {dense[p] : p \in 1 .. Len(dense)}
      BY <1>4, RangeOfSeq
    <3>2. Range(set.dense) = {set.dense[p] : p \in 1 .. Len(set.dense)}
      BY <1>1, RangeOfSeq
    <3>. QED BY <3>1, <3>2, <1>1, <1>4
  <2>2. ASSUME NEW e \in Range(dense) PROVE e \in Range(set.dense) \ {i}
    <3>1. PICK p \in 1 .. n - 1 : e = dense[p]
      BY <2>1
    <3>2. e # i
      BY <3>1, <1>5
    <3>3. e \in Range(set.dense)
      <4>1. p \in 1 .. n /\ n \in 1 .. n
        BY <1>1
      <4>2. e = set.dense[p] \/ e = set.dense[n]
        BY <3>1, <1>1, <1>4
      <4>. QED BY <4>1, <4>2, <2>1
    <3>. QED BY <3>2, <3>3
  <2>3. ASSUME NEW e \in Range(set.dense) \ {i} PROVE e \in Range(dense)
    <3>1. PICK p \in 1 .. n : e = set.dense[p]
      BY <2>1
    <3>2. p # place
      BY <3>1, <1>1
    <3>3. CASE p = n
      <4>1. place \in 1 .. n - 1
        BY <3>2, <3>3, <1>1
      <4>2. dense[place] = e
        BY <4>1, <1>1, <1>4, <3>1, <3>3
      <4>. QED BY <4>1, <4>2, <2>1
    <3>4. CASE p # n
      <4>1. p \in 1 .. n - 1
        BY <3>4, <1>1
      <4>2. dense[p] = e
        BY <4>1, <1>4, <3>1, <3>2
      <4>. QED BY <4>1, <4>2, <2>1
    <3>. QED BY <3>3, <3>4
  <2>. QED BY <2>2, <2>3
<1>11. SetSound(Removed(set, i), living \ {i})
  <2>. HIDE DEF dense, sparse
  <2>. QED BY <1>4, <1>6, <1>7, <1>8, <1>9 DEF SetSound
<1>12. Removed(set, i).dense = dense
  BY <1>9
<1>. QED BY <1>10, <1>11, <1>12

(* deserialise(). *)
LEMMA RebuiltSound ==
  ASSUME NEW living \in SUBSET (Nat \ {0}), NEW limit \in Nat, living \subseteq 1 .. limit,
         NEW set, SetSound(set, living)
  PROVE  SetSound(Rebuilt(set), living) /\ Rebuilt(set).dense = set.dense
<1> DEFINE n == Len(set.dense)
           known == Range(set.dense)
           size == Max(known \cup {0})
           At(i) == IF i \in known THEN CHOOSE p \in DOMAIN set.dense : set.dense[p] = i ELSE 1
           sparse == [i \in 1 .. size |-> At(i)]
<1>1. /\ n \in Nat /\ set.dense \in Seq(living) /\ set.data = set.dense /\ DOMAIN set.dense = 1 .. n
      /\ known \subseteq 1 .. limit /\ known = {set.dense[p] : p \in 1 .. n}
      /\ \A p, q \in 1 .. n : set.dense[p] = set.dense[q] => p = q
  <2>1. n \in Nat /\ set.dense \in Seq(living) /\ DOMAIN set.dense = 1 .. n /\ set.data = set.dense
    BY SetFacts DEF SetSound
  <2>2. known \subseteq 1 .. limit /\ known = {set.dense[p] : p \in 1 .. n}
    BY SetFacts
  <2>3. \A p, q \in 1 .. n : set.dense[p] = set.dense[q] => p = q
    BY SetFacts
  <2>. QED BY <2>1, <2>2, <2>3
<1>2. size \in 0 .. limit /\ \A i \in known : i <= size
  <2>. HIDE DEF known
  <2>1. known \cup {0} \in SUBSET (0 .. limit) /\ known \cup {0} # {}
    <3>1. 1 .. limit \subseteq 0 .. limit /\ 0 \in 0 .. limit
      OBVIOUS
    <3>. QED BY <3>1, <1>1
  <2>. QED BY <2>1, MaxIsGreatest
<1>3. ASSUME NEW p \in 1 .. n PROVE set.dense[p] \in 1 .. size /\ At(set.dense[p]) = p
  <2>1. set.dense[p] \in known
    BY <1>1
  <2>2. set.dense[p] \in 1 .. size
    BY <2>1, <1>1, <1>2
  <2>3. (CHOOSE q \in DOMAIN set.dense : set.dense[q] = set.dense[p]) = p
    BY <1>1
  <2>. QED BY <2>1, <2>2, <2>3
<1>4. \A i \in 1 .. size : At(i) \in Nat \ {0}
  <2>. TAKE i \in 1 .. size
  <2>1. CASE i \in known
    <3>1. PICK p \in 1 .. n : i = set.dense[p]
      BY <2>1, <1>1
    <3>2. At(i) = p
      BY <3>1, <1>3
    <3>. HIDE DEF At
    <3>. QED BY <3>2
  <2>2. CASE i \notin known
    BY <2>2
  <2>. QED BY <2>1, <2>2
<1>5. Rebuilt(set) = [dense |-> set.dense, sparse |-> sparse, data |-> set.dense]
  BY <1>1 DEF Rebuilt
<1>. HIDE DEF At, size
<1>6. /\ sparse \in Seq(Nat \ {0}) /\ Len(sparse) = size
      /\ \A i \in 1 .. size : sparse[i] = At(i)
  BY <1>2, <1>4
<1>. HIDE DEF sparse
<1>. QED BY <1>1, <1>3, <1>5, <1>6 DEF SetSound

-----------------------------------------------------------------------------
(* The entities, the free list and a view. *)

(* Nothing links to an entity or to the head, and nothing is linked to     *)
(* twice: what create_entity() takes from the list is no entity.           *)
FreeListSound ==
  LET free == DOMAIN m_entities \ Live
  IN  /\ m_free_head \in free \cup {ReservedIndex}
      /\ \A i \in free : m_entities[i] = ReservedIndex \/ (m_entities[i] \in free /\ m_entities[i] # m_free_head)
      /\ \A i, j \in free : m_entities[i] = m_entities[j] /\ i # j => m_entities[i] = ReservedIndex

(* The memory a view walks over is the dense list of its kind, and behind  *)
(* the end of that what was destroyed since the view began.                *)
ViewSound ==
  LET dense == m_component_sets[FirstKind].dense
  IN  view # NoView =>
        /\ view = [at |-> view.at, end |-> view.end, slots |-> view.slots, shown |-> view.shown]
        /\ view.end \in Nat /\ view.at \in 1 .. view.end
        /\ view.slots \in Seq(1 .. Len(m_entities)) /\ Len(view.slots) + 1 = view.end
        /\ Len(dense) < view.end
        /\ \A p \in 1 .. Len(dense) : view.slots[p] = dense[p]
        /\ \A p \in Len(dense) + 1 .. view.end - 1 : view.slots[p] \notin Live
        /\ view.shown \in BOOLEAN
        /\ view.shown /\ view.at # view.end =>
             /\ view.at \in 1 .. Len(dense)
             /\ \A k \in Kinds : view.slots[view.at] \in Range(m_component_sets[k].dense)

EntitiesInv ==
  /\ m_entities \in Seq(Nat) /\ Len(m_entities) <= EntityLimit
  /\ FreeListSound
  /\ m_component_sets = [k \in Kinds |-> m_component_sets[k]]
  /\ \A k \in Kinds : SetSound(m_component_sets[k], Live)
  /\ ViewSound

LEMMA EntityFacts ==
  ASSUME EntitiesInv
  PROVE  /\ Len(m_entities) \in Nat /\ DOMAIN m_entities = 1 .. Len(m_entities)
         /\ Live \in SUBSET (Nat \ {0}) /\ Live \subseteq 1 .. Len(m_entities) /\ Live \subseteq 1 .. EntityLimit
BY EntitiesAssumption DEF EntitiesInv, Live

LEMMA EntitiesInitInv == EntitiesInit => EntitiesInv
<1> SUFFICES ASSUME EntitiesInit PROVE EntitiesInv
  OBVIOUS
<1>1. m_entities \in Seq(Nat) /\ Len(m_entities) = 0 /\ DOMAIN m_entities = {} /\ Live = {}
  BY DEF EntitiesInit, Live
<1>2. FreeListSound
  BY <1>1 DEF EntitiesInit, FreeListSound
<1>3. \A k \in Kinds : SetSound(m_component_sets[k], {})
  <2>. TAKE k \in Kinds
  <2> DEFINE set == [dense |-> <<>>, sparse |-> <<>>, data |-> <<>>]
  <2>1. m_component_sets[k] = set
    BY DEF EntitiesInit
  <2>2. SetSound(set, {})
    BY DEF SetSound
  <2>. HIDE DEF set
  <2>. QED BY <2>1, <2>2
<1>4. ViewSound
  BY DEF EntitiesInit, ViewSound
<1>. QED BY <1>1, <1>2, <1>3, <1>4, EntitiesAssumption DEF EntitiesInit, EntitiesInv

(* What the table sees. *)
Owners == [k \in Kinds |-> [i \in Range(m_component_sets[k].dense) |-> i]]

LEMMA WhatTheTableSees ==
  EntitiesInv =>
    /\ Components = Owners
    /\ Shown = IF view.shown /\ view.at # view.end
               THEN [entity |-> view.slots[view.at], shown |-> [k \in Kinds |-> view.slots[view.at]]]
               ELSE Table!Nothing
<1> SUFFICES ASSUME EntitiesInv
             PROVE  /\ Components = Owners
                    /\ Shown = IF view.shown /\ view.at # view.end
                               THEN [entity |-> view.slots[view.at], shown |-> [k \in Kinds |-> view.slots[view.at]]]
                               ELSE Table!Nothing
  OBVIOUS
<1>1. ASSUME NEW k \in Kinds
      PROVE  ComponentsOf(m_component_sets[k]) = [i \in Range(m_component_sets[k].dense) |-> i]
  <2> DEFINE set == m_component_sets[k]
  <2>1. SetSound(set, Live)
    BY DEF EntitiesInv
  <2>2. \A i \in Nat \ {0} : Has(set, i) <=> i \in Range(set.dense)
    BY <2>1, EntityFacts, SetFacts
  <2>3. Range(set.dense) \subseteq Live
    BY <2>1, EntityFacts, SetFacts
  <2>4. \A i \in Range(set.dense) : set.data[set.sparse[i]] = i
    <3>1. \A i \in Range(set.dense) : set.dense[set.sparse[i]] = i
      BY <2>1, EntityFacts, SetFacts
    <3>. QED BY <2>1, <3>1 DEF SetSound
  <2>. HIDE DEF set
  <2>5. {j \in DOMAIN m_entities : Has(set, j)} = Range(set.dense)
    BY <2>2, <2>3, EntityFacts
  <2>. QED BY <2>4, <2>5 DEF ComponentsOf, set
<1>2. CASE view.shown /\ view.at # view.end
  <2>1. view # NoView
    BY <1>2 DEF NoView
  <2> DEFINE index == view.slots[view.at]
             dense == m_component_sets[FirstKind].dense
  <2>2. view.at \in 1 .. Len(dense) /\ index = dense[view.at] /\ \A k \in Kinds : index \in Range(m_component_sets[k].dense)
    BY <1>2, <2>1 DEF EntitiesInv, ViewSound
  <2>. HIDE DEF index
  <2>3. ASSUME NEW k \in Kinds
        PROVE  m_component_sets[k].data[IF k = FirstKind THEN view.at ELSE m_component_sets[k].sparse[index]] = index
    <3>1. SetSound(m_component_sets[k], Live)
      BY DEF EntitiesInv
    <3>2. m_component_sets[k].data = m_component_sets[k].dense
      BY <3>1 DEF SetSound
    <3>3. m_component_sets[k].dense[m_component_sets[k].sparse[index]] = index
      <4>1. \A i \in Range(m_component_sets[k].dense) : m_component_sets[k].dense[m_component_sets[k].sparse[i]] = i
        BY <3>1, EntityFacts, SetFacts
      <4>. QED BY <4>1, <2>2
    <3>. QED BY <3>2, <3>3, <2>2
  <2>. QED BY <1>1, <1>2, <2>3 DEF Shown, Components, Owners, index
<1>3. CASE ~ (view.shown /\ view.at # view.end)
  BY <1>1, <1>3 DEF Shown, Table!Nothing, Components, Owners
<1>. QED BY <1>2, <1>3

(* The free list and the entities alone. *)
LEMMA CreateKeepsList ==
  ASSUME EntitiesInv, CreateEntity
  PROVE  /\ m_entities' \in Seq(Nat) /\ Len(m_entities') <= EntityLimit /\ Len(m_entities) <= Len(m_entities')
         /\ FreeListSound'
         /\ \E i \in (1 .. EntityLimit) \ Live : Live' = Live \cup {i}
<1>1. /\ m_entities \in Seq(Nat) /\ Len(m_entities) \in Nat /\ Len(m_entities) <= EntityLimit
      /\ DOMAIN m_entities = 1 .. Len(m_entities) /\ EntityLimit \in Nat
      /\ Live = {i \in 1 .. Len(m_entities) : m_entities[i] = i}
  BY EntitiesAssumption DEF EntitiesInv, Live
<1>2. CASE m_free_head # ReservedIndex
  <2>1. m_free_head \in (1 .. Len(m_entities)) \ Live
    BY <1>1, <1>2 DEF EntitiesInv, FreeListSound
  <2>2. /\ m_free_head' = m_entities[m_free_head]
        /\ m_entities' = [m_entities EXCEPT ![m_free_head] = m_free_head]
    BY <1>2 DEF CreateEntity
  <2>3. /\ m_entities' \in Seq(Nat) /\ Len(m_entities') = Len(m_entities) /\ DOMAIN m_entities' = 1 .. Len(m_entities)
        /\ \A i \in 1 .. Len(m_entities) : m_entities'[i] = (IF i = m_free_head THEN m_free_head ELSE m_entities[i])
    BY <1>1, <2>1, <2>2
  <2>4. Live' = Live \cup {m_free_head}
    BY <1>1, <2>1, <2>3 DEF Live
  <2>5. FreeListSound'
    <3> DEFINE free == (1 .. Len(m_entities)) \ Live
    <3>1. /\ \A i \in free : m_entities[i] = ReservedIndex \/ (m_entities[i] \in free /\ m_entities[i] # m_free_head)
          /\ \A i, j \in free : m_entities[i] = m_entities[j] /\ i # j => m_entities[i] = ReservedIndex
      BY <1>1 DEF EntitiesInv, FreeListSound
    <3>2. (DOMAIN m_entities \ Live)' = free \ {m_free_head}
      BY <2>3, <2>4
    <3>3. m_free_head' \in (free \ {m_free_head}) \cup {ReservedIndex}
      BY <2>1, <2>2, <3>1
    <3>4. ASSUME NEW i \in free \ {m_free_head}
          PROVE  \/ m_entities'[i] = ReservedIndex
                 \/ m_entities'[i] \in free \ {m_free_head} /\ m_entities'[i] # m_free_head'
      <4>1. m_entities'[i] = m_entities[i]
        BY <2>3
      <4>2. m_entities[i] = m_entities[m_free_head] => m_entities[i] = ReservedIndex
        BY <2>1, <3>1
      <4>. HIDE DEF free
      <4>. QED BY <4>1, <4>2, <3>1, <2>2
    <3>5. \A i, j \in free \ {m_free_head} : m_entities'[i] = m_entities'[j] /\ i # j => m_entities'[i] = ReservedIndex
      BY <2>3, <3>1
    <3>. HIDE DEF free
    <3>. QED BY <3>2, <3>3, <3>4, <3>5 DEF FreeListSound
  <2>. QED BY <1>1, <2>1, <2>3, <2>4, <2>5
<1>3. CASE m_free_head = ReservedIndex
  <2>1. /\ Len(m_entities) < EntityLimit /\ m_free_head' = m_free_head
        /\ m_entities' = Append(m_entities, Len(m_entities) + 1)
    BY <1>3 DEF CreateEntity
  <2> DEFINE new == Len(m_entities) + 1
  <2>2. /\ m_entities' \in Seq(Nat) /\ Len(m_entities') = new /\ DOMAIN m_entities' = 1 .. new
        /\ \A i \in 1 .. Len(m_entities) : m_entities'[i] = m_entities[i]
        /\ m_entities'[new] = new
    BY <1>1, <2>1
  <2>3. new \in (1 .. EntityLimit) \ Live /\ 1 .. new = (1 .. Len(m_entities)) \cup {new}
    BY <1>1, <2>1
  <2>4. Live' = Live \cup {new}
    <3>1. Live' = {i \in 1 .. new : m_entities'[i] = i}
      BY <2>2 DEF Live
    <3>. HIDE DEF new
    <3>. QED BY <1>1, <2>2, <2>3, <3>1
  <2>5. (DOMAIN m_entities \ Live)' = DOMAIN m_entities \ Live
    <3>. HIDE DEF new
    <3>. QED BY <1>1, <2>2, <2>3, <2>4
  <2>6. \A i \in DOMAIN m_entities \ Live : m_entities'[i] = m_entities[i]
    BY <1>1, <2>2
  <2>7. FreeListSound'
    BY <2>1, <2>5, <2>6 DEF EntitiesInv, FreeListSound
  <2>. QED BY <1>1, <2>1, <2>2, <2>3, <2>4, <2>7
<1>. QED BY <1>2, <1>3

LEMMA DestroyKeepsList ==
  ASSUME EntitiesInv, NEW index \in Live, DestroyEntity(index)
  PROVE  /\ m_entities' \in Seq(Nat) /\ Len(m_entities') = Len(m_entities)
         /\ FreeListSound'
         /\ Live' = Live \ {index}
<1>1. /\ m_entities \in Seq(Nat) /\ Len(m_entities) \in Nat /\ DOMAIN m_entities = 1 .. Len(m_entities)
      /\ Live = {i \in 1 .. Len(m_entities) : m_entities[i] = i}
      /\ index \in 1 .. Len(m_entities)
  BY DEF EntitiesInv, Live
<1> DEFINE free == (1 .. Len(m_entities)) \ Live
<1>2. /\ m_free_head \in free \cup {ReservedIndex} /\ m_free_head \in Nat
      /\ \A i \in free : m_entities[i] = ReservedIndex \/ (m_entities[i] \in free /\ m_entities[i] # m_free_head)
      /\ \A i, j \in free : m_entities[i] = m_entities[j] /\ i # j => m_entities[i] = ReservedIndex
  BY <1>1 DEF EntitiesInv, FreeListSound, ReservedIndex
<1>3. m_entities' = [m_entities EXCEPT ![index] = m_free_head] /\ m_free_head' = index
  BY DEF DestroyEntity
<1>4. /\ m_entities' \in Seq(Nat) /\ Len(m_entities') = Len(m_entities) /\ DOMAIN m_entities' = 1 .. Len(m_entities)
      /\ \A i \in 1 .. Len(m_entities) : m_entities'[i] = (IF i = index THEN m_free_head ELSE m_entities[i])
  <2>. HIDE DEF free
  <2>. QED BY <1>1, <1>2, <1>3
<1>5. m_free_head # index
  BY <1>1, <1>2 DEF ReservedIndex
<1>6. Live' = Live \ {index}
  <2>1. Live' = {i \in 1 .. Len(m_entities) : m_entities'[i] = i}
    BY <1>4 DEF Live
  <2>. HIDE DEF free
  <2>. QED BY <1>1, <1>4, <1>5, <2>1
<1>7. (DOMAIN m_entities \ Live)' = free \cup {index} /\ index \notin free
  BY <1>1, <1>4, <1>6
<1>8. FreeListSound'
  <2>1. ASSUME NEW i \in free \cup {index}
        PROVE  \/ m_entities'[i] = ReservedIndex
               \/ m_entities'[i] \in free \cup {index} /\ m_entities'[i] # m_free_head'
    BY <1>1, <1>2, <1>3, <1>4, <1>5, <1>7
  <2>2. ASSUME NEW i \in free \cup {index}, NEW j \in free \cup {index}, m_entities'[i] = m_entities'[j], i # j
        PROVE  m_entities'[i] = ReservedIndex
    BY <2>2, <1>1, <1>2, <1>4, <1>7
  <2>. HIDE DEF free
  <2>. QED BY <2>1, <2>2, <1>3, <1>7 DEF FreeListSound
<1>. QED BY <1>4, <1>6, <1>8

(* What a destroyed entity has goes from every set. *)
LEMMA DestroyRemoves ==
  ASSUME EntitiesInv, NEW index \in Live, DestroyEntity(index)
  PROVE  /\ m_component_sets' = [k \in Kinds |-> m_component_sets'[k]]
         /\ \A k \in Kinds : /\ SetSound(m_component_sets'[k], Live \ {index})
                             /\ Range(m_component_sets'[k].dense) = Range(m_component_sets[k].dense) \ {index}
<1>1. \A k \in Kinds : m_component_sets'[k] = (IF Has(m_component_sets[k], index)
                                               THEN Removed(m_component_sets[k], index) ELSE m_component_sets[k])
  BY DEF DestroyEntity
<1>2. m_component_sets' = [k \in Kinds |-> m_component_sets'[k]]
  BY DEF DestroyEntity
<1>3. ASSUME NEW k \in Kinds
      PROVE  /\ SetSound(m_component_sets'[k], Live \ {index})
             /\ Range(m_component_sets'[k].dense) = Range(m_component_sets[k].dense) \ {index}
  <2>1. SetSound(m_component_sets[k], Live) /\ Live \in SUBSET (Nat \ {0})
    BY EntityFacts DEF EntitiesInv
  <2>2. CASE Has(m_component_sets[k], index)
    <3>1. /\ SetSound(Removed(m_component_sets[k], index), Live \ {index})
          /\ Range(Removed(m_component_sets[k], index).dense) = Range(m_component_sets[k].dense) \ {index}
      BY <2>1, <2>2, RemovedSound
    <3>. QED BY <2>2, <3>1, <1>1
  <2>3. CASE ~ Has(m_component_sets[k], index)
    <3>1. index \notin Range(m_component_sets[k].dense)
      BY <2>1, <2>3, SetFacts
    <3>. QED BY <2>1, <2>3, <3>1, <1>1, SetWithout
  <2>. QED BY <2>2, <2>3
<1>. QED BY <1>2, <1>3

-----------------------------------------------------------------------------
(* Each action keeps the invariant, *)

LEMMA CreateInv == EntitiesInv /\ CreateEntity => EntitiesInv'
<1> SUFFICES ASSUME EntitiesInv, CreateEntity PROVE EntitiesInv'
  OBVIOUS
<1>1. /\ m_entities' \in Seq(Nat) /\ Len(m_entities') <= EntityLimit /\ FreeListSound' /\ Live \subseteq Live'
  BY CreateKeepsList
<1>2. m_component_sets' = m_component_sets /\ view' = view /\ view = NoView
  BY DEF CreateEntity
<1>3. \A k \in Kinds : SetSound(m_component_sets[k], Live')
  BY <1>1, SetGrows DEF EntitiesInv
<1>4. ViewSound'
  BY <1>2 DEF ViewSound
<1>. QED BY <1>1, <1>2, <1>3, <1>4 DEF EntitiesInv

LEMMA DestroyInv == \A index \in DOMAIN m_entities : EntitiesInv /\ Destroy(index) => EntitiesInv'
<1> SUFFICES ASSUME NEW index \in DOMAIN m_entities, EntitiesInv, Destroy(index) PROVE EntitiesInv'
  OBVIOUS
<1>0. index \in Live /\ DestroyEntity(index) /\ view' = view /\ view = NoView
  BY DEF Destroy
<1>1. /\ m_entities' \in Seq(Nat) /\ Len(m_entities') <= EntityLimit /\ FreeListSound' /\ Live' = Live \ {index}
  BY <1>0, DestroyKeepsList DEF EntitiesInv
<1>2. /\ m_component_sets' = [k \in Kinds |-> m_component_sets'[k]]
      /\ \A k \in Kinds : SetSound(m_component_sets'[k], Live \ {index})
  BY <1>0, DestroyRemoves
<1>3. ViewSound'
  BY <1>0 DEF ViewSound
<1>. QED BY <1>1, <1>2, <1>3 DEF EntitiesInv

LEMMA AddInv ==
  \A index \in DOMAIN m_entities : \A k \in Kinds :
    EntitiesInv /\ AddComponent(k, index) =>
      /\ EntitiesInv'
      /\ \A j \in Kinds : Range(m_component_sets'[j].dense) =
           IF j = k THEN Range(m_component_sets[j].dense) \cup {index} ELSE Range(m_component_sets[j].dense)
<1> SUFFICES ASSUME NEW index \in DOMAIN m_entities, NEW k \in Kinds, EntitiesInv, AddComponent(k, index)
             PROVE  /\ EntitiesInv'
                    /\ \A j \in Kinds : Range(m_component_sets'[j].dense) =
                         IF j = k THEN Range(m_component_sets[j].dense) \cup {index} ELSE Range(m_component_sets[j].dense)
  OBVIOUS
<1>0. /\ index \in Live /\ ~ Has(m_component_sets[k], index) /\ view = NoView
      /\ view' = view /\ m_entities' = m_entities /\ m_free_head' = m_free_head
      /\ m_component_sets' = [m_component_sets EXCEPT ![k] = Emplaced(@, index, index)]
  BY DEF AddComponent
<1>1. Live' = Live /\ FreeListSound'
  BY <1>0 DEF EntitiesInv, Live, FreeListSound
<1>2. /\ m_component_sets' = [j \in Kinds |-> m_component_sets'[j]]
      /\ \A j \in Kinds : m_component_sets'[j] = (IF j = k THEN Emplaced(m_component_sets[k], index, index) ELSE m_component_sets[j])
  BY <1>0 DEF EntitiesInv
<1>3. /\ SetSound(Emplaced(m_component_sets[k], index, index), Live)
      /\ Range(Emplaced(m_component_sets[k], index, index).dense) = Range(m_component_sets[k].dense) \cup {index}
  BY <1>0, EntityFacts, EmplacedSound DEF EntitiesInv
<1>4. \A j \in Kinds : SetSound(m_component_sets'[j], Live)
  BY <1>2, <1>3 DEF EntitiesInv
<1>5. ViewSound'
  BY <1>0 DEF ViewSound
<1>. QED BY <1>0, <1>1, <1>2, <1>3, <1>4, <1>5 DEF EntitiesInv

LEMMA RemoveInv ==
  \A index \in DOMAIN m_entities : \A k \in Kinds :
    EntitiesInv /\ RemoveComponent(k, index) =>
      /\ EntitiesInv'
      /\ index \in Range(m_component_sets[k].dense)
      /\ \A j \in Kinds : Range(m_component_sets'[j].dense) =
           IF j = k THEN Range(m_component_sets[j].dense) \ {index} ELSE Range(m_component_sets[j].dense)
<1> SUFFICES ASSUME NEW index \in DOMAIN m_entities, NEW k \in Kinds, EntitiesInv, RemoveComponent(k, index)
             PROVE  /\ EntitiesInv'
                    /\ index \in Range(m_component_sets[k].dense)
                    /\ \A j \in Kinds : Range(m_component_sets'[j].dense) =
                         IF j = k THEN Range(m_component_sets[j].dense) \ {index} ELSE Range(m_component_sets[j].dense)
  OBVIOUS
<1>0. /\ Has(m_component_sets[k], index) /\ view = NoView
      /\ view' = view /\ m_entities' = m_entities /\ m_free_head' = m_free_head
      /\ m_component_sets' = [m_component_sets EXCEPT ![k] = Removed(@, index)]
  BY DEF RemoveComponent
<1>1. Live' = Live /\ FreeListSound'
  BY <1>0 DEF EntitiesInv, Live, FreeListSound
<1>2. /\ m_component_sets' = [j \in Kinds |-> m_component_sets'[j]]
      /\ \A j \in Kinds : m_component_sets'[j] = (IF j = k THEN Removed(m_component_sets[k], index) ELSE m_component_sets[j])
  BY <1>0 DEF EntitiesInv
<1>3. SetSound(m_component_sets[k], Live) /\ Live \in SUBSET (Nat \ {0})
  BY EntityFacts DEF EntitiesInv
<1>4. index \in Nat \ {0} /\ index \in Range(m_component_sets[k].dense) /\ index \in Live
  <2>1. index \in Nat \ {0}
    BY EntityFacts
  <2>2. index \in Range(m_component_sets[k].dense)
    BY <2>1, <1>0, <1>3, SetFacts
  <2>3. Range(m_component_sets[k].dense) \subseteq Live
    BY <1>3, SetFacts
  <2>. QED BY <2>1, <2>2, <2>3
<1>5. /\ SetSound(Removed(m_component_sets[k], index), Live \ {index})
      /\ Range(Removed(m_component_sets[k], index).dense) = Range(m_component_sets[k].dense) \ {index}
  BY <1>0, <1>3, <1>4, RemovedSound
<1>6. SetSound(Removed(m_component_sets[k], index), Live)
  BY <1>5, SetGrows
<1>7. \A j \in Kinds : SetSound(m_component_sets'[j], Live)
  BY <1>2, <1>6 DEF EntitiesInv
<1>8. ViewSound'
  BY <1>0 DEF ViewSound
<1>. QED BY <1>0, <1>1, <1>2, <1>4, <1>5, <1>7, <1>8 DEF EntitiesInv

LEMMA ReloadInv ==
  EntitiesInv /\ Reload =>
    /\ EntitiesInv' /\ Live \subseteq Live' /\ Live' \subseteq 1 .. EntityLimit
    /\ \A k \in Kinds : m_component_sets'[k].dense = m_component_sets[k].dense
<1> SUFFICES ASSUME EntitiesInv, Reload
             PROVE  /\ EntitiesInv' /\ Live \subseteq Live' /\ Live' \subseteq 1 .. EntityLimit
                    /\ \A k \in Kinds : m_component_sets'[k].dense = m_component_sets[k].dense
  OBVIOUS
<1>0. /\ view = NoView /\ view' = view /\ m_free_head' = ReservedIndex
      /\ m_entities' = [i \in 1 .. Len(m_entities) |-> i]
      /\ m_component_sets' = [k \in Kinds |-> Rebuilt(m_component_sets[k])]
  BY EntityFacts DEF Reload
<1>1. Len(m_entities) \in Nat /\ Len(m_entities) <= EntityLimit /\ EntityLimit \in Nat
  BY EntityFacts, EntitiesAssumption DEF EntitiesInv
<1>2. m_entities' \in Seq(Nat) /\ Len(m_entities') = Len(m_entities) /\ DOMAIN m_entities' = 1 .. Len(m_entities)
  BY <1>0, <1>1
<1>3. Live' = 1 .. Len(m_entities)
  BY <1>0, <1>2 DEF Live
<1>4. FreeListSound'
  BY <1>0, <1>2, <1>3 DEF FreeListSound
<1>5. Live \subseteq Live' /\ Live' \subseteq 1 .. EntityLimit
  BY <1>1, <1>3, EntityFacts
<1>6. ASSUME NEW k \in Kinds
      PROVE  SetSound(m_component_sets'[k], Live') /\ m_component_sets'[k].dense = m_component_sets[k].dense
  <2>1. SetSound(m_component_sets[k], Live) /\ Live \in SUBSET (Nat \ {0}) /\ Live \subseteq 1 .. Len(m_entities)
    BY EntityFacts DEF EntitiesInv
  <2>2. SetSound(Rebuilt(m_component_sets[k]), Live) /\ Rebuilt(m_component_sets[k]).dense = m_component_sets[k].dense
    BY <2>1, <1>1, RebuiltSound
  <2>3. SetSound(Rebuilt(m_component_sets[k]), Live')
    BY <2>2, <1>5, SetGrows
  <2>. QED BY <2>2, <2>3, <1>0
<1>7. ViewSound'
  BY <1>0 DEF ViewSound
<1>8. m_component_sets' = [k \in Kinds |-> m_component_sets'[k]]
  BY <1>0
<1>. QED BY <1>1, <1>2, <1>4, <1>5, <1>6, <1>7, <1>8 DEF EntitiesInv

(* The next entity of a view is in the dense list as it is now. *)
LEMMA SkipFound ==
  ASSUME EntitiesInv, NEW end \in Nat, NEW slots \in Seq(1 .. Len(m_entities)), Len(slots) + 1 = end,
         NEW place \in 1 .. end,
         Len(m_component_sets[FirstKind].dense) < end,
         \A p \in 1 .. Len(m_component_sets[FirstKind].dense) : slots[p] = m_component_sets[FirstKind].dense[p],
         \A p \in Len(m_component_sets[FirstKind].dense) + 1 .. end - 1 : slots[p] \notin Live
  PROVE  /\ SkipFrom(slots, place, end) \in 1 .. end
         /\ SkipFrom(slots, place, end) # end =>
              /\ SkipFrom(slots, place, end) \in 1 .. Len(m_component_sets[FirstKind].dense)
              /\ \A k \in Kinds : slots[SkipFrom(slots, place, end)] \in Range(m_component_sets[k].dense)
<1> DEFINE good == {p \in place .. end : p = end \/ \A k \in Kinds \ {FirstKind} : Has(m_component_sets[k], slots[p])}
           next == SkipFrom(slots, place, end)
           dense == m_component_sets[FirstKind].dense
<1>1. next \in good
  <2>1. good \in SUBSET Nat /\ end \in good
    OBVIOUS
  <2>. HIDE DEF good
  <2>2. Min(good) \in good
    BY <2>1, MinIsLeast
  <2>3. next = Min(good)
    BY DEF SkipFrom, good
  <2>. HIDE DEF next
  <2>. QED BY <2>2, <2>3
<1>2. next \in 1 .. end /\ (next # end => \A k \in Kinds \ {FirstKind} : Has(m_component_sets[k], slots[next]))
  <2>. HIDE DEF next
  <2>. QED BY <1>1
<1>. HIDE DEF next, good
<1>3. ASSUME next # end
      PROVE  next \in 1 .. Len(dense) /\ \A k \in Kinds : slots[next] \in Range(m_component_sets[k].dense)
  <2>1. next \in 1 .. end - 1 /\ next \in 1 .. Len(slots) /\ slots[next] \in Nat \ {0}
    BY <1>2, <1>3, EntityFacts
  <2>2. \A k \in Kinds \ {FirstKind} :
          slots[next] \in Range(m_component_sets[k].dense) /\ slots[next] \in Live
    <3>. TAKE k \in Kinds \ {FirstKind}
    <3>1. SetSound(m_component_sets[k], Live) /\ Live \in SUBSET (Nat \ {0})
      BY EntityFacts DEF EntitiesInv
    <3>2. slots[next] \in Range(m_component_sets[k].dense)
      BY <3>1, <2>1, <1>2, <1>3, SetFacts
    <3>3. Range(m_component_sets[k].dense) \subseteq Live
      BY <3>1, SetFacts
    <3>. QED BY <3>2, <3>3
  <2>3. slots[next] \in Live
    BY <2>2, EntitiesAssumption
  <2>4. SetSound(m_component_sets[FirstKind], Live) /\ Live \in SUBSET (Nat \ {0})
    BY EntityFacts, EntitiesAssumption DEF EntitiesInv
  <2>5. Len(dense) \in Nat /\ Range(dense) = {dense[p] : p \in 1 .. Len(dense)}
    BY <2>4, SetFacts
  <2>6. next \in 1 .. Len(dense)
    BY <2>1, <2>3, <2>5
  <2>7. slots[next] \in Range(dense)
    BY <2>5, <2>6
  <2>. QED BY <2>2, <2>6, <2>7
<1>. QED BY <1>2, <1>3 DEF next

LEMMA BeginInv == EntitiesInv /\ BeginView => EntitiesInv'
<1> SUFFICES ASSUME EntitiesInv, BeginView PROVE EntitiesInv'
  OBVIOUS
<1> DEFINE dense == m_component_sets[FirstKind].dense
           end == Len(dense) + 1
           next == SkipFrom(dense, 1, end)
<1>1. /\ view' = [at |-> next, end |-> end, slots |-> dense, shown |-> TRUE]
      /\ m_entities' = m_entities /\ m_free_head' = m_free_head /\ m_component_sets' = m_component_sets
  BY DEF BeginView
<1>2. Live' = Live /\ FreeListSound'
  BY <1>1 DEF EntitiesInv, Live, FreeListSound
<1>3. SetSound(m_component_sets[FirstKind], Live) /\ Live \in SUBSET (Nat \ {0}) /\ Live \subseteq 1 .. Len(m_entities)
  BY EntityFacts, EntitiesAssumption DEF EntitiesInv
<1>4. Len(dense) \in Nat /\ end \in Nat /\ dense \in Seq(1 .. Len(m_entities))
  <2>1. dense \in Seq(Live)
    BY <1>3 DEF SetSound
  <2>. HIDE DEF dense
  <2>2. \A p \in 1 .. Len(dense) : dense[p] \in 1 .. Len(m_entities)
    <3>1. \A p \in 1 .. Len(dense) : dense[p] \in Live
      BY <2>1
    <3>. QED BY <3>1, <1>3
  <2>. QED BY <2>1, <2>2, SeqInto
<1>5. /\ next \in 1 .. end
      /\ next # end => next \in 1 .. Len(dense) /\ \A k \in Kinds : dense[next] \in Range(m_component_sets[k].dense)
  <2>1. 1 \in 1 .. end /\ Len(dense) < end /\ Len(dense) + 1 = end
    BY <1>4
  <2>2. \A p \in Len(dense) + 1 .. end - 1 : dense[p] \notin Live
    BY <1>4
  <2>. QED BY <1>4, <2>1, <2>2, SkipFound
<1>. HIDE DEF next
<1>6. ViewSound'
  <2>. HIDE DEF end
  <2>1. Len(dense) + 1 = end
    BY DEF end
  <2>. HIDE DEF dense
  <2>2. m_component_sets'[FirstKind].dense = dense
    BY <1>1 DEF dense
  <2>3. \A p \in Len(dense) + 1 .. end - 1 : dense[p] \notin Live
    BY <1>4, <2>1
  <2>. QED BY <1>1, <1>2, <1>4, <1>5, <2>1, <2>2, <2>3 DEF ViewSound
<1>. QED BY <1>1, <1>2, <1>6 DEF EntitiesInv

LEMMA StepInv == EntitiesInv /\ StepView => EntitiesInv'
<1> SUFFICES ASSUME EntitiesInv, StepView PROVE EntitiesInv'
  OBVIOUS
<1>1. m_entities' = m_entities /\ m_free_head' = m_free_head /\ m_component_sets' = m_component_sets /\ view # NoView
  BY DEF StepView
<1>2. Live' = Live /\ FreeListSound'
  BY <1>1 DEF EntitiesInv, Live, FreeListSound
<1>3. ViewSound'
  <2>1. CASE view.at = view.end
    BY <2>1 DEF StepView, ViewSound
  <2>2. CASE view.at # view.end
    <3> DEFINE dense == m_component_sets[FirstKind].dense
               next == SkipFrom(view.slots, view.at + 1, view.end)
    <3>1. /\ view = [at |-> view.at, end |-> view.end, slots |-> view.slots, shown |-> view.shown]
          /\ view.end \in Nat /\ view.at \in 1 .. view.end
          /\ view.slots \in Seq(1 .. Len(m_entities)) /\ Len(view.slots) + 1 = view.end
          /\ Len(dense) < view.end
          /\ \A p \in 1 .. Len(dense) : view.slots[p] = dense[p]
          /\ \A p \in Len(dense) + 1 .. view.end - 1 : view.slots[p] \notin Live
      BY <1>1 DEF EntitiesInv, ViewSound
    <3>2. view.at + 1 \in 1 .. view.end
      BY <2>2, <3>1
    <3>3. /\ next \in 1 .. view.end
          /\ next # view.end =>
               next \in 1 .. Len(dense) /\ \A k \in Kinds : view.slots[next] \in Range(m_component_sets[k].dense)
      BY <3>1, <3>2, SkipFound
    <3>4. view' = [view EXCEPT !.at = next, !.shown = TRUE]
      BY <2>2 DEF StepView
    <3>. HIDE DEF next
    <3>5. view' = [at |-> next, end |-> view.end, slots |-> view.slots, shown |-> TRUE]
      BY <3>1, <3>4
    <3>6. m_component_sets'[FirstKind].dense = dense
      BY <1>1
    <3>. HIDE DEF dense
    <3>. QED BY <1>1, <1>2, <3>1, <3>3, <3>5, <3>6 DEF ViewSound
  <2>. QED BY <2>1, <2>2
<1>. QED BY <1>1, <1>2, <1>3 DEF EntitiesInv

(* The entity a view is at is destroyed: the last of the dense list comes  *)
(* to where the view is, and behind the end there is only what was         *)
(* destroyed.                                                              *)
LEMMA DestroyVisitedInv ==
  EntitiesInv /\ DestroyVisited =>
    /\ EntitiesInv' /\ ~ view'.shown
    /\ view.slots[view.at] \in Live /\ DestroyEntity(view.slots[view.at])
<1> SUFFICES ASSUME EntitiesInv, DestroyVisited
             PROVE  /\ EntitiesInv' /\ ~ view'.shown
                    /\ view.slots[view.at] \in Live /\ DestroyEntity(view.slots[view.at])
  OBVIOUS
<1> DEFINE index == view.slots[view.at]
           dense == m_component_sets[FirstKind].dense
           last == Len(dense)
           slots == [view.slots EXCEPT ![view.at] = view.slots[last], ![last] = index]
<1>1. /\ view.shown /\ view.at # view.end /\ DestroyEntity(index)
      /\ view' = [view EXCEPT !.shown = FALSE, !.slots = slots]
  BY DEF DestroyVisited
<1>2. /\ view = [at |-> view.at, end |-> view.end, slots |-> view.slots, shown |-> view.shown]
      /\ view.end \in Nat /\ view.at \in 1 .. view.end
      /\ view.slots \in Seq(1 .. Len(m_entities)) /\ Len(view.slots) + 1 = view.end
      /\ last < view.end
      /\ \A p \in 1 .. last : view.slots[p] = dense[p]
      /\ \A p \in last + 1 .. view.end - 1 : view.slots[p] \notin Live
      /\ view.at \in 1 .. last
      /\ \A k \in Kinds : index \in Range(m_component_sets[k].dense)
  <2>1. view # NoView
    BY <1>1 DEF NoView
  <2>. QED BY <1>1, <2>1 DEF EntitiesInv, ViewSound
<1>3. SetSound(m_component_sets[FirstKind], Live) /\ Live \in SUBSET (Nat \ {0}) /\ FirstKind \in Kinds
  BY EntityFacts, EntitiesAssumption DEF EntitiesInv
<1>4. last \in Nat /\ index \in Live /\ index \in Range(dense) /\ index \in Nat \ {0}
  <2>1. last \in Nat /\ Range(dense) \subseteq Live
    BY <1>3, SetFacts
  <2>2. index \in Range(dense)
    BY <1>2, <1>3
  <2>. QED BY <2>1, <2>2, <1>3
<1>. HIDE DEF index
<1>5. /\ m_entities' \in Seq(Nat) /\ Len(m_entities') = Len(m_entities) /\ FreeListSound' /\ Live' = Live \ {index}
  BY <1>1, <1>4, DestroyKeepsList
<1>6. /\ m_component_sets' = [k \in Kinds |-> m_component_sets'[k]]
      /\ \A k \in Kinds : SetSound(m_component_sets'[k], Live \ {index})
  BY <1>1, <1>4, DestroyRemoves
<1> DEFINE left == m_component_sets'[FirstKind].dense
<1>7. /\ Len(left) = last - 1
      /\ \A p \in 1 .. last - 1 : left[p] = (IF p = view.at THEN dense[last] ELSE dense[p])
  <2> DEFINE set == m_component_sets[FirstKind]
  <2>1. Has(set, index)
    BY <1>3, <1>4, SetFacts
  <2>2. m_component_sets'[FirstKind] = Removed(set, index)
    BY <1>1, <1>3, <2>1 DEF DestroyEntity
  <2>3. set.sparse[index] \in 1 .. last /\ set.dense[set.sparse[index]] = index
    BY <1>3, <1>4, <2>1, RemovedPlaces
  <2>4. dense[view.at] = index
    BY <1>2 DEF index
  <2>5. \A p, q \in 1 .. last : dense[p] = dense[q] => p = q
    BY <1>3, SetFacts
  <2>6. set.sparse[index] = view.at
    BY <2>3, <2>4, <2>5, <1>2
  <2>7. Shrunk(Removed(set, index).dense, dense, set.sparse[index])
    BY <1>3, <1>4, <2>1, RemovedPlaces
  <2>8. Shrunk(left, dense, view.at)
    BY <2>2, <2>6, <2>7
  <2>. HIDE DEF left, set, dense
  <2>. QED BY <2>8 DEF Shrunk
<1>8. index \in 1 .. Len(m_entities)
  BY <1>4, EntityFacts
<1>. HIDE DEF dense, last, left
<1>9. /\ slots \in Seq(1 .. Len(m_entities)) /\ Len(slots) + 1 = view.end
      /\ \A p \in 1 .. view.end - 1 :
           slots[p] = (IF p = last THEN index ELSE IF p = view.at THEN view.slots[last] ELSE view.slots[p])
  <2>1. last \in 1 .. Len(view.slots) /\ view.at \in 1 .. Len(view.slots) /\ Len(view.slots) = view.end - 1
        /\ view.slots[last] \in 1 .. Len(m_entities)
    BY <1>2, <1>4
  <2>2. slots \in Seq(1 .. Len(m_entities)) /\ TwoPlaces(slots, view.slots, view.at, view.slots[last], last, index)
    BY <2>1, <1>2, <1>8, SeqTwoPlaces
  <2>. HIDE DEF slots
  <2>. QED BY <2>1, <2>2, <1>2 DEF TwoPlaces
<1>. HIDE DEF slots
<1>10. view' = [at |-> view.at, end |-> view.end, slots |-> slots, shown |-> FALSE]
  BY <1>1, <1>2
<1>11. \A p \in 1 .. Len(left) : slots[p] = left[p]
  <2>. TAKE p \in 1 .. Len(left)
  <2>1. p \in 1 .. last - 1 /\ p \in 1 .. last /\ p \in 1 .. view.end - 1 /\ p # last /\ last \in 1 .. last
    BY <1>2, <1>4, <1>7
  <2>2. slots[p] = (IF p = view.at THEN view.slots[last] ELSE view.slots[p])
    BY <2>1, <1>9
  <2>3. view.slots[last] = dense[last] /\ view.slots[p] = dense[p]
    BY <2>1, <1>2
  <2>4. left[p] = (IF p = view.at THEN dense[last] ELSE dense[p])
    BY <2>1, <1>7
  <2>. QED BY <2>2, <2>3, <2>4
<1>12. \A p \in Len(left) + 1 .. view.end - 1 : slots[p] \notin Live \ {index}
  <2>. TAKE p \in Len(left) + 1 .. view.end - 1
  <2>1. p \in 1 .. view.end - 1 /\ (p = last \/ (p \in last + 1 .. view.end - 1 /\ p # view.at))
    BY <1>2, <1>4, <1>7
  <2>. QED BY <2>1, <1>2, <1>9
<1>13. ViewSound'
  <2>1. Len(left) < view.end
    BY <1>2, <1>4, <1>7
  <2>. QED BY <2>1, <1>2, <1>5, <1>9, <1>10, <1>11, <1>12 DEF ViewSound, left
<1>14. EntitiesInv'
  BY <1>5, <1>6, <1>13 DEF EntitiesInv
<1>. QED BY <1>1, <1>4, <1>10, <1>14 DEF index

LEMMA EntitiesNextInv == EntitiesInv /\ [EntitiesNext]_entityVars => EntitiesInv'
<1> SUFFICES ASSUME EntitiesInv, [EntitiesNext]_entityVars PROVE EntitiesInv'
  OBVIOUS
<1>1. CASE CreateEntity
  BY <1>1, CreateInv
<1>2. ASSUME NEW index \in DOMAIN m_entities, Destroy(index) PROVE EntitiesInv'
  BY <1>2, DestroyInv
<1>3. ASSUME NEW index \in DOMAIN m_entities, NEW k \in Kinds, RemoveComponent(k, index) PROVE EntitiesInv'
  BY <1>3, RemoveInv
<1>4. ASSUME NEW index \in DOMAIN m_entities, NEW k \in Kinds, AddComponent(k, index) PROVE EntitiesInv'
  BY <1>4, AddInv
<1>5. CASE BeginView
  BY <1>5, BeginInv
<1>6. CASE StepView
  BY <1>6, StepInv
<1>7. CASE DestroyVisited
  BY <1>7, DestroyVisitedInv
<1>8. CASE Reload
  BY <1>8, ReloadInv
<1>9. CASE UNCHANGED entityVars
  <2>1. m_entities' = m_entities /\ m_free_head' = m_free_head /\ m_component_sets' = m_component_sets /\ view' = view
    BY <1>9 DEF entityVars
  <2>2. Live' = Live
    BY <2>1 DEF Live
  <2>3. FreeListSound' /\ ViewSound'
    BY <2>1, <2>2 DEF EntitiesInv, FreeListSound, ViewSound
  <2>. QED BY <2>1, <2>2, <2>3 DEF EntitiesInv
<1>. QED BY <1>1, <1>2, <1>3, <1>4, <1>5, <1>6, <1>7, <1>8, <1>9 DEF EntitiesNext

-----------------------------------------------------------------------------
(* and is a step of the table, or none. *)

SeenEntity == IF view.shown /\ view.at # view.end
              THEN [entity |-> view.slots[view.at], shown |-> [k \in Kinds |-> view.slots[view.at]]]
              ELSE Table!Nothing

TableSees == Components = Owners /\ Shown = SeenEntity

LEMMA SeenBefore == EntitiesInv => Components = Owners /\ Shown = SeenEntity
BY WhatTheTableSees DEF SeenEntity

LEMMA SeenAfter == EntitiesInv' => Components' = Owners' /\ Shown' = SeenEntity'
<1>1. EntitiesInv => TableSees
  BY SeenBefore DEF TableSees
<1>2. EntitiesInv' => TableSees'
  BY <1>1, PTL
<1>. QED BY <1>2 DEF TableSees

(* Without a view there is nothing to see. *)
LEMMA NothingSeen == view = NoView => SeenEntity = Table!Nothing
BY DEF NoView, SeenEntity

LEMMA NothingSeenAfter == view' = NoView => SeenEntity' = Table!Nothing
BY DEF NoView, SeenEntity, Table!Nothing

LEMMA OwnersKnown ==
  ASSUME EntitiesInv
  PROVE  /\ \A k \in Kinds : DOMAIN Owners[k] = Range(m_component_sets[k].dense)
         /\ \A k \in Kinds : Range(m_component_sets[k].dense) \subseteq Live
         /\ \A k \in Kinds : \A i \in Range(m_component_sets[k].dense) : Owners[k][i] = i
         /\ \A k \in Kinds : \A i \in Nat \ {0} :
              Has(m_component_sets[k], i) <=> i \in Range(m_component_sets[k].dense)
<1>1. \A k \in Kinds : SetSound(m_component_sets[k], Live) /\ Live \in SUBSET (Nat \ {0})
  BY EntityFacts DEF EntitiesInv
<1>2. \A k \in Kinds : Range(m_component_sets[k].dense) \subseteq Live
  BY <1>1, SetFacts
<1>3. \A k \in Kinds : \A i \in Nat \ {0} :
        Has(m_component_sets[k], i) <=> i \in Range(m_component_sets[k].dense)
  BY <1>1, SetFacts
<1>. QED BY <1>2, <1>3 DEF Owners

LEMMA CreateMaps == EntitiesInv /\ EntitiesInv' /\ CreateEntity => Table!Create
<1> SUFFICES ASSUME EntitiesInv, EntitiesInv', CreateEntity PROVE Table!Create
  OBVIOUS
<1>1. \E i \in (1 .. EntityLimit) \ Live : Live' = Live \cup {i}
  BY CreateKeepsList
<1>2. m_component_sets' = m_component_sets /\ view' = view
  BY DEF CreateEntity
<1>3. Owners' = Owners /\ SeenEntity' = SeenEntity
  BY <1>2 DEF Owners, SeenEntity, Table!Nothing
<1>. QED BY <1>1, <1>3, SeenBefore, SeenAfter DEF Table!Create

LEMMA DestroyEntityMaps ==
  ASSUME EntitiesInv, EntitiesInv', NEW index \in Live, DestroyEntity(index), SeenEntity' = Table!Nothing
  PROVE  index \in 1 .. EntityLimit /\ Table!Destroy(index)
<1>1. Live' = Live \ {index}
  BY DestroyKeepsList
<1>2. \A k \in Kinds : Range(m_component_sets'[k].dense) = Range(m_component_sets[k].dense) \ {index}
  BY DestroyRemoves
<1>3. ASSUME NEW k \in Kinds PROVE Owners'[k] = Restrict(Owners[k], DOMAIN Owners[k] \ {index})
  <2> DEFINE before == Range(m_component_sets[k].dense)
             after == Range(m_component_sets'[k].dense)
  <2>1. Owners[k] = [i \in before |-> i] /\ Owners'[k] = [i \in after |-> i] /\ after = before \ {index}
    BY <1>2 DEF Owners
  <2>. HIDE DEF before, after
  <2>. QED BY <2>1 DEF Restrict
<1>4. Owners' = [k \in Kinds |-> Owners'[k]]
  BY DEF Owners
<1>5. Owners' = [k \in Kinds |-> Restrict(Owners[k], DOMAIN Owners[k] \ {index})]
  BY <1>3, <1>4
<1>6. index \in 1 .. EntityLimit
  BY EntityFacts
<1>7. Components' = [k \in Kinds |-> Restrict(Components[k], DOMAIN Components[k] \ {index})] /\ Shown' = Table!Nothing
  BY <1>5, SeenBefore, SeenAfter
<1>. QED BY <1>1, <1>6, <1>7 DEF Table!Destroy, Table!Restrict, Restrict

LEMMA AddMaps ==
  \A index \in DOMAIN m_entities : \A k \in Kinds :
    EntitiesInv /\ EntitiesInv' /\ AddComponent(k, index) => Table!AddComponent(k, index)
<1> SUFFICES ASSUME NEW index \in DOMAIN m_entities, NEW k \in Kinds,
                    EntitiesInv, EntitiesInv', AddComponent(k, index)
             PROVE  Table!AddComponent(k, index)
  OBVIOUS
<1>1. /\ index \in Live /\ ~ Has(m_component_sets[k], index) /\ m_entities' = m_entities /\ view' = view
  BY DEF AddComponent
<1>2. \A j \in Kinds : Range(m_component_sets'[j].dense) =
        IF j = k THEN Range(m_component_sets[j].dense) \cup {index} ELSE Range(m_component_sets[j].dense)
  BY AddInv
<1>3. Live' = Live /\ SeenEntity' = SeenEntity /\ index \in Nat \ {0}
  BY <1>1, EntityFacts DEF Live, SeenEntity, Table!Nothing
<1>4. index \notin DOMAIN Owners[k]
  BY <1>1, <1>3, OwnersKnown
<1>5. ASSUME NEW j \in Kinds
      PROVE  Owners'[j] = IF j = k THEN [i \in DOMAIN Owners[k] \cup {index} |-> IF i = index THEN index ELSE Owners[k][i]]
                          ELSE Owners[j]
  <2> DEFINE before == Range(m_component_sets[j].dense)
             after == Range(m_component_sets'[j].dense)
  <2>1. Owners[j] = [i \in before |-> i] /\ Owners'[j] = [i \in after |-> i]
    BY DEF Owners
  <2>2. after = IF j = k THEN before \cup {index} ELSE before
    BY <1>2
  <2>. HIDE DEF before, after
  <2>. QED BY <2>1, <2>2
<1>6. Owners = [j \in Kinds |-> Owners[j]] /\ Owners' = [j \in Kinds |-> Owners'[j]]
  BY DEF Owners
<1>7. Owners' = [Owners EXCEPT ![k] = [i \in DOMAIN @ \cup {index} |-> IF i = index THEN index ELSE @[i]]]
  BY <1>5, <1>6
<1>. QED BY <1>1, <1>3, <1>4, <1>7, SeenBefore, SeenAfter DEF Table!AddComponent

LEMMA RemoveMaps ==
  \A index \in DOMAIN m_entities : \A k \in Kinds :
    EntitiesInv /\ EntitiesInv' /\ RemoveComponent(k, index) => Table!RemoveComponent(k, index)
<1> SUFFICES ASSUME NEW index \in DOMAIN m_entities, NEW k \in Kinds,
                    EntitiesInv, EntitiesInv', RemoveComponent(k, index)
             PROVE  Table!RemoveComponent(k, index)
  OBVIOUS
<1>1. /\ m_entities' = m_entities /\ view' = view
  BY DEF RemoveComponent
<1>2. /\ index \in Range(m_component_sets[k].dense)
      /\ \A j \in Kinds : Range(m_component_sets'[j].dense) =
           IF j = k THEN Range(m_component_sets[j].dense) \ {index} ELSE Range(m_component_sets[j].dense)
  BY RemoveInv
<1>3. Live' = Live /\ SeenEntity' = SeenEntity
  BY <1>1 DEF Live, SeenEntity, Table!Nothing
<1>4. index \in DOMAIN Owners[k]
  BY <1>2, OwnersKnown
<1>5. ASSUME NEW j \in Kinds
      PROVE  Owners'[j] = IF j = k THEN Restrict(Owners[k], DOMAIN Owners[k] \ {index}) ELSE Owners[j]
  <2> DEFINE before == Range(m_component_sets[j].dense)
             after == Range(m_component_sets'[j].dense)
  <2>1. Owners[j] = [i \in before |-> i] /\ Owners'[j] = [i \in after |-> i]
    BY DEF Owners
  <2>2. after = IF j = k THEN before \ {index} ELSE before
    BY <1>2
  <2>. HIDE DEF before, after
  <2>. QED BY <2>1, <2>2 DEF Restrict
<1>6. Owners = [j \in Kinds |-> Owners[j]] /\ Owners' = [j \in Kinds |-> Owners'[j]]
  BY DEF Owners
<1>7. Owners' = [Owners EXCEPT ![k] = Restrict(@, DOMAIN @ \ {index})]
  BY <1>5, <1>6
<1>8. /\ index \in DOMAIN Components[k]
      /\ Components' = [Components EXCEPT ![k] = Restrict(@, DOMAIN @ \ {index})]
      /\ Shown' = Shown
  BY <1>3, <1>4, <1>7, SeenBefore, SeenAfter
<1>. QED BY <1>3, <1>8 DEF Table!RemoveComponent, Table!Restrict, Restrict

(* A view shows an entity with all its components, or nothing more. *)
LEMMA ShowMaps ==
  ASSUME EntitiesInv, EntitiesInv',
         m_entities' = m_entities, m_free_head' = m_free_head, m_component_sets' = m_component_sets
  PROVE  Table!Show
<1>1. Live' = Live /\ Owners' = Owners
  BY DEF Live, Owners
<1>2. CASE ~ (view'.shown /\ view'.at # view'.end)
  <2>1. SeenEntity' = Table!Nothing
    BY <1>2 DEF SeenEntity, Table!Nothing
  <2>. QED BY <1>1, <2>1, SeenBefore, SeenAfter DEF Table!Show
<1>3. CASE view'.shown /\ view'.at # view'.end
  <2> DEFINE i == view'.slots[view'.at]
  <2>1. view' # NoView
    BY <1>3 DEF NoView
  <2>2. \A k \in Kinds : i \in Range(m_component_sets[k].dense)
    BY <1>3, <2>1 DEF EntitiesInv, ViewSound, NoView
  <2>3. SeenEntity' = [entity |-> i, shown |-> [k \in Kinds |-> i]]
    BY <1>3 DEF SeenEntity
  <2>. HIDE DEF i
  <2>4. i \in Live /\ \A k \in Kinds : i \in DOMAIN Owners[k] /\ Owners[k][i] = i
    BY <2>2, OwnersKnown, EntitiesAssumption
  <2>5. SeenEntity' = [entity |-> i, shown |-> [k \in Kinds |-> Owners[k][i]]]
    BY <2>3, <2>4
  <2>. QED BY <1>1, <2>4, <2>5, SeenBefore, SeenAfter DEF Table!Show
<1>. QED BY <1>2, <1>3

LEMMA ReloadMaps == EntitiesInv /\ EntitiesInv' /\ Reload => Table!Reload
<1> SUFFICES ASSUME EntitiesInv, EntitiesInv', Reload PROVE Table!Reload
  OBVIOUS
<1>1. Live \subseteq Live' /\ Live' \subseteq 1 .. EntityLimit
  BY ReloadInv
<1>2. Owners' = Owners
  <2>1. \A k \in Kinds : m_component_sets'[k].dense = m_component_sets[k].dense
    BY ReloadInv
  <2>. QED BY <2>1 DEF Owners
<1>3. SeenEntity' = SeenEntity
  BY DEF Reload, SeenEntity, Table!Nothing
<1>. QED BY <1>1, <1>2, <1>3, SeenBefore, SeenAfter DEF Table!Reload

LEMMA EntitiesStep ==
  EntitiesInv /\ EntitiesInv' /\ [EntitiesNext]_entityVars => [Table!TableNext]_<<Live, Components, Shown>>
<1> SUFFICES ASSUME EntitiesInv, EntitiesInv', [EntitiesNext]_entityVars
             PROVE  [Table!TableNext]_<<Live, Components, Shown>>
  OBVIOUS
<1>1. CASE CreateEntity
  BY <1>1, CreateMaps DEF Table!TableNext
<1>2. ASSUME NEW index \in DOMAIN m_entities, Destroy(index) PROVE Table!TableNext
  <2>1. index \in Live /\ DestroyEntity(index) /\ view' = NoView
    BY <1>2 DEF Destroy
  <2>2. index \in 1 .. EntityLimit /\ Table!Destroy(index)
    BY <2>1, NothingSeenAfter, DestroyEntityMaps
  <2>. QED BY <2>2 DEF Table!TableNext
<1>3. ASSUME NEW index \in DOMAIN m_entities, NEW k \in Kinds, RemoveComponent(k, index) PROVE Table!TableNext
  <2>1. Table!RemoveComponent(k, index)
    BY <1>3, RemoveMaps
  <2>2. index \in 1 .. EntityLimit
    BY EntityFacts, EntitiesAssumption DEF EntitiesInv
  <2>. QED BY <2>1, <2>2 DEF Table!TableNext
<1>4. ASSUME NEW index \in DOMAIN m_entities, NEW k \in Kinds, AddComponent(k, index) PROVE Table!TableNext
  <2>1. Table!AddComponent(k, index)
    BY <1>4, AddMaps
  <2>2. index \in 1 .. EntityLimit
    BY EntityFacts, EntitiesAssumption DEF EntitiesInv
  <2>. QED BY <2>1, <2>2 DEF Table!TableNext
<1>5. CASE BeginView \/ StepView
  <2>1. m_entities' = m_entities /\ m_free_head' = m_free_head /\ m_component_sets' = m_component_sets
    BY <1>5 DEF BeginView, StepView
  <2>. QED BY <2>1, ShowMaps DEF Table!TableNext
<1>6. CASE DestroyVisited
  <2> DEFINE index == view.slots[view.at]
  <2>1. index \in Live /\ DestroyEntity(index) /\ ~ view'.shown
    BY <1>6, DestroyVisitedInv
  <2>2. SeenEntity' = Table!Nothing
    BY <2>1 DEF SeenEntity, Table!Nothing
  <2>. HIDE DEF index
  <2>3. index \in 1 .. EntityLimit /\ Table!Destroy(index)
    BY <2>1, <2>2, DestroyEntityMaps
  <2>. QED BY <2>3 DEF Table!TableNext
<1>7. CASE Reload
  BY <1>7, ReloadMaps DEF Table!TableNext
<1>8. CASE UNCHANGED entityVars
  BY <1>8 DEF entityVars, Live, Components, ComponentsOf, Has, Shown
<1>. QED BY <1>1, <1>2, <1>3, <1>4, <1>5, <1>6, <1>7, <1>8 DEF EntitiesNext

LEMMA EntitiesStart == EntitiesInit => Table!TableInit
<1> SUFFICES ASSUME EntitiesInit PROVE Table!TableInit
  OBVIOUS
<1>1. EntitiesInv
  BY EntitiesInitInv
<1>2. Live = {}
  BY DEF EntitiesInit, Live
<1>3. Owners = [k \in Kinds |-> <<>>]
  <2>1. \A k \in Kinds : Range(m_component_sets[k].dense) = {}
    BY <1>1, <1>2, OwnersKnown
  <2>2. \A k \in Kinds : [i \in Range(m_component_sets[k].dense) |-> i] = <<>>
    BY <2>1
  <2>. QED BY <2>2 DEF Owners
<1>4. SeenEntity = Table!Nothing
  BY NothingSeen DEF EntitiesInit
<1>. QED BY <1>1, <1>2, <1>3, <1>4, SeenBefore DEF Table!TableInit

(* Whatever entities and components come and go, are written and read, or  *)
(* are destroyed by the view that shows them, EntityManager does what a    *)
(* table of entities does (entity.cc, entity.hh, sparse_set.hh, world.cc). *)
THEOREM EntitiesAreATable == EntitiesSpec => EntitiesImplementTable
<1>1. EntitiesInit => EntitiesInv /\ Table!TableInit
  BY EntitiesInitInv, EntitiesStart
<1>2. EntitiesInv /\ [EntitiesNext]_entityVars => EntitiesInv'
  BY EntitiesNextInv
<1>3. EntitiesInv /\ EntitiesInv' /\ [EntitiesNext]_entityVars => [Table!TableNext]_<<Live, Components, Shown>>
  BY EntitiesStep
<1>. QED BY <1>1, <1>2, <1>3, PTL DEF EntitiesSpec, EntitiesImplementTable, Table!TableSpec

=================================================================================
