# TLA+ models of vull

vull is a C++ game engine.  This directory models the parts of it where
reasoning by reading and testing is weakest: the concurrent runtime under
`engine/sources/tasklet` with the primitives it stands on
(`engine/include/vull/container/mpmc_queue.hh`, the semaphore and the IO thread
of `engine/sources/platform/linux.cc`), and the stateful parts that use it:
device memory, command buffers, asset streaming, frame pacing, windows, the
render graph, packages, the log, entities, the user interface, the script
language, the conversion of glTF documents and the two shader compilers.  Paths
below are relative to the root of the repository.

Every module is translated from the code; `PROJECT.json` maps each definition to
the lines it stands for.

## 1. The system

### Inventory

| Component | State | Operations | What is hard | What makes it correct |
|---|---|---|---|---|
| Scheduler and fibers (`tasklet/scheduler.cc`, `fiber.cc`) | queues of ready fibers, free fibers and new tasklets; two counters; a semaphore of permits; per worker: current, helper and cleanup fiber; per fiber: state, priority counter | schedule, suspend, yield, unsuspend, the loop of a worker fiber, the helper fiber, request/return a fiber, join | fibers are stacks handed between threads at every step; counts, queues and permits are changed one after the other; a fiber can be woken while it is still being left | a fiber is in one place; a tasklet runs once and on one worker; no ready job is left while all sleep; join ends |
| Promise, Future (`promise.cc`, `promise.hh`, `future.hh`) | one 64 bit word: list of tasklets, "threads wait" bit, fulfilled bit; the value | wait (tasklet, thread), wake_on_fulfillment, fulfill, reset | lock-free list against one exchange; a futex on half of a word whose other half is a pointer | nobody waits for ever, is woken twice or returns early |
| Mutex (`mutex.cc`) | one pointer: sentinel, null or list head | lock, try_lock, unlock | two exchanges in lock() with an unlock in between; wake-all without hand-over | exclusion; every suspended waiter is woken; progress |
| Latch (`latch.cc`) | counter and promise | arrive, count_down, wait | lifetime: zero is visible before the promise is fulfilled | waiters go on at zero, and the latch is not used after that |
| MPMC queue (`mpmc_queue.hh`) | tickets `m_head`, `m_tail`; turn and value of each slot | enqueue, dequeue, try_enqueue, try_dequeue | tickets drawn before the slot is free; 32-bit turns | FIFO, slots used by one thread at a time, no false full or empty |
| Semaphore (`linux.cc`, `semaphore.hh`) | one 64 bit word, permits and waiters | post, try_wait, wait | futex on half of the word, stale copies | a counting semaphore without lost wake-ups |
| IO requests and IO thread (`linux.cc`, `io.hh`) | queue, `pending`, two events, the io_uring rings, descriptors of fences | submit_io_request, the dispatcher loop, quit | three-step submission against a sleeping kernel thread; truncation; multishot polls that end | every request is fulfilled once; descriptors are closed once |
| Vulkan queue, command buffers (`vulkan/queue.cc`) | recycled buffers, submit mutexes | request, submit, completion | a buffer is reset by a continuation of its fence request | no buffer is recorded while the GPU executes it |
| Vulkan memory (`vulkan/memory.cc`) | TLSF free lists and block headers; heaps of device memory | allocate, free | split, merge, hysteresis of empty pools | blocks tile the pool; no overlap; no leak |
| Frame pacer (`graphics/frame_pacer.cc`) | frame futures, promise of the next frame, event | WSI thread loop, acquire_frame, submit_frame, destructor | two threads pass one promise back and forth; shutdown in the middle | a frame is used by one side at a time; shutdown ends |
| Texture and mesh streamers (`graphics/*_streamer.cc`) | loaded indices, futures in flight, descriptors | ensure_texture, ensure_mesh, load | limit of loads in flight, failure fallback | a texture is loaded once; an index names its own descriptor |
| Windows and keyboards (`platform/wayland.cc`, `x11.cc`, `common.cc`) | keys, buttons, pointer, size, grab | create with a fall back, events, grab the cursor, fullscreen, close | two sources of movement; state of the server and of the window apart; what happens while the cursor is grabbed or the focus elsewhere | the window agrees with the user once it has handled its events; a movement is told once |
| Entities (`ecs`, `ecs2`) | identifiers with versions, free list, sparse sets | create, destroy, add, remove, iterate, (de)serialise | recycled identifiers, swap-remove | a stale identifier is never valid |
| vpak (`vpak/*.cc`) | package file, entry table, perfect hash | read, write, commit | several entries share a writer; the commit is unlink and link | a commit leaves the old or the new package |
| Log (`core/log.cc`) | queue per thread, list of queues, semaphore | logln, sink loop, open, close | queues published in two steps; shutdown with loggers running | no message lost without being counted |
| Render graph (`vulkan/render_graph.cc`) | passes, resources, barriers | compile, execute | ordering, layouts | every read follows its write with a barrier |
| User interface (`ui/`) | tree of elements, hovered and active element; sizes and places; paint commands; glyph atlas | events, destruction, layout, painting, placing a glyph, drawing | pointers to destroyed elements; fixed-point lengths; glyphs that are not yet there | no dangling pointer; elements fit their window; what is drawn is what was painted |
| Containers (`container/`) | hash set, vector, work stealing queue | | probing, growth; owner against thieves | a set; each job taken once |
| Script language (`script/`) | heap of objects, environments, argument lists kept as roots, marks | parse, evaluate, define, call, collect garbage | mark and sweep in the middle of a recursive evaluation that holds pointers of its own | no freed object is touched; a collection keeps what is reachable |
| glTF converter (`vpak/gltf_parser.cc`) | a tasklet per material, primitive and scene; three maps under mutexes; the package | convert, process a material, a primitive, a scene | tasklets leave in maps what later tasklets look up, and any of them may fail | a scene refers to entries that exist and has all its meshes |
| Shader compiler (`shaderc/`, `vslc.cc`) | operand and operator stacks of the parser; scopes of the legaliser; ids and sections of the backend | parse, legalise, lower to SPIR-V | precedence and grouping through two stacks; what each pass assumes of the one before | the module is valid and computes what the source says |
| Older shader compiler (`tools/vslc/`) | operator stack of the parser; value stack and current block of the backend | parse, legalise, build | one stack of values for two traversals; place or value | the same |
| Everything else | JSON, physics, maths, terrain, other tools | | sequential, floating point, or calls of external libraries | |

### How the parts interact

A tasklet is a function with a future.  `schedule()` puts it on the tasklet
queue (MPMC queue), adds one to the ready count and posts a permit
(semaphore).  A worker thread waits for a permit, takes a tasklet or a ready
fiber, and runs it.  When a tasklet waits (mutex, promise, latch, future) it
links itself into the list of that object and switches to the helper fiber of
the worker; whoever releases the object calls `schedule()` on the tasklet,
which spins until the fiber is Suspended and puts it on the ready queue.
IO requests are promises: the tasklet enqueues the request for the IO thread
and waits; the IO thread fulfils it when the kernel completes it.  The Vulkan
queue submits a fence request per command buffer; the frame pacer waits for the
futures of these.

## 2. The modules

| Module | Models | Notes |
|---|---|---|
| `CountingSemaphore` | what the semaphore promises | abstract |
| `Semaphore` | `platform::Semaphore`, an action per atomic operation or futex call | refines `CountingSemaphore` |
| `AbstractLock` | what a mutex promises | abstract |
| `TaskletMutex` | `tasklet::Mutex` | refines `AbstractLock` |
| `MpmcQueue` | `MpmcQueue` with the width of its counters | |
| `WorkStealingQueue` | `WorkStealingQueue`, an action per atomic operation | |
| `Promise` | `PromiseBase` and `fulfill()` | |
| `Latch` | `tasklet::Latch` and the frame that holds it | |
| `TaskletLifecycle` | what the scheduler promises | abstract |
| `Scheduler` | `Scheduler`, `Fiber`, `schedule`, `suspend`, `yield` | refines `TaskletLifecycle` |
| `IoDispatcher` | `submit_io_request` and the IO thread | |
| `FramePacer` | `FramePacer`, `Swapchain`, and the render loop that uses them | |
| `AssetStreaming` | `vk::Queue` with the life of a command buffer, `TextureStreamer`, `MeshStreamer` | |
| `MemoryAllocator` | what a memory allocator promises | abstract |
| `DeviceMemory` | `vk::MemoryPool` (TLSF), as functions from pools to pools, and `DeviceMemoryAllocator` with its heaps and pools | refines `MemoryAllocator` |
| `RenderGraph` | `vk::RenderGraph`: compile and execute | |
| `PackFile` | `vpak`: writer, streams, commit, with crashes | |
| `Log` | `core/log.cc` | |
| `EntityTable` | what an entity manager promises | abstract |
| `Entities` | `EntityManager`, `SparseSet`, views, `ecs::World` of `ecs/` | refines `EntityTable` |
| `EntityHandles` | `ecs::World` of `ecs2/` | |
| `HashSet` | `HashSet` | |
| `UiTree` | `ui::Tree`, windows and widgets, as the sandbox feeds them | |
| `UiLayout` | lengths and the two passes of the layout, as functions on elements | |
| `UiFrame` | painting, the font atlas and the renderer, from frame to frame | extends `UiLayout` |
| `Windows` | `platform::Window`, both backends, keyboard and pointer | |
| `ScriptVm` | `script::Parser`, `script::Vm`, environments, closures, the collector | |
| `GltfConverter` | `vpak add-gltf`: the converter and its tasklets | |
| `ShaderParser` | `shaderc::Parser`, as functions on a record | |
| `ShaderLegaliser` | `shaderc::Legaliser`, as functions on a record | |
| `ShaderBackend` | `spv::build_spv()` and the builder | |
| `ShaderCompiler` | the three in turn, and what the result must be | |
| `VslParser` | parser and legaliser of the older compiler | |
| `VslCompiler` | its backend, the three in turn, and what the result must be | extends `VslParser` |
| `Workloads` | | the passes of a frame of the program, the scripts and the shaders that the modules above are run with |
| `MCSuspending` | `TaskletMutex` and `IoDispatcher`, in one run | extends both |
| `MCComponents` | twelve components which share no state, in one run | extends `EntityHandles`, `MpmcQueue`, `WorkStealingQueue`, `Semaphore`, `Latch`, `Log`, `HashSet`, `UiTree`, `GltfConverter`; the others are instances |
| `MCSequential` | device memory, packages, entities, the older compiler, windows and the interface, in one run | extends `DeviceMemory`, `PackFile` and `Entities`; the others are instances |
| `SemaphoreProofs`, `SuspendingProofs`, `PromiseAndStreamingProofs`, `DeviceMemoryProofs`, `ContainerProofs`, `SchedulerProofs`, `FrameLoopProofs`, `PackageAndHandleProofs` | | proofs, section 5 |

State and actions, where the names do not say it all:

- **Semaphore.**  `m_data = [count, waiters]` is the word, `data[t]` the local copy
  of the function thread `t` is in, as long as it is read, `doing[t]` its place.  `post()` is `PostPermit` (the
  fetch_add) and `FutexWake`; `try_wait()` is `TryPermit` and `TryExchange`;
  `wait()` is `Wait`, `FastExchange`, `Register`, `FutexWait`, `Interrupted`,
  `Reload`, `Acquire`.  `Increment` carries a full low half into the high
  half; the assumption keeps callers below that.
- **TaskletMutex.**  `m_wait_list` and `link` are the pointers, `seen`, `cursor` and
  `target` the locals of lock() and unlock().  `Suspend` is the moment the fiber
  becomes Suspended, which `Schedule` waits for, as `unsuspend_fiber()` does.
- **MpmcQueue.**  `head` and `tail` count tickets without wrapping; whatever the
  code computes from them is taken `% WordSize`.  A value is named by its
  ticket, so FIFO is "the consumer with ticket n read value n".
- **Promise.**  `FutexWord` is the upper half of the state, including the upper half
  of the pointer; `Far` are the tasklets whose pointers differ in it.  `fulfiller` is the
  thread in `fulfill()` and `wake_all()`.  `Reset` happens once all have left,
  as the users of `reset()` do; a waiter may already be waiting for the
  next round.
- **Scheduler.**  A worker is in its loop (`loop`, `wait`, `wait done`, `try ...`), in
  its helper (`helper`, `choose`, `request`, `create`, `pick any`), has just been
  resumed (`resumed`), runs the code of a tasklet (`tasklet`), or is in the
  middle of publishing a job (`count ...`, `unsuspend`, `post`), after which it
  goes `back`.  The code of a tasklet may, at any point, schedule a new tasklet,
  wake one that waits, yield, wait or return.  Outsiders stand for the IO thread
  and the thread that owns the scheduler, and can join it.  The helper
  changes the priority counter of a fiber that it may have requeued already
  (`scheduler.cc:164`): that race is a choice of what the counter becomes.
- **IoDispatcher.**  `stage` is where the dispatcher is in a turn of its loop: it submits,
  waits, handles a batch of completions, and fills the ring from the queue.  `sq`
  are the prepared entries, `armed` those in the kernel, `cq` the completions;
  `notified` is whether the poll of the event has something to report.  `fd` is
  the member `m_fd` of a fence request, initially any descriptor, `open` the
  descriptors of the process.
- **FramePacer.**  `pc` is the WSI thread, whose `top` is the head of its loop; `renderer`
  is the tasklet in `Sandbox::start_loop()`, from `stop` on in the destructor.  A
  frame info is the pair of the frame index and the image index, by which the
  semaphores and the graph it refers to are chosen.  `work[f]` is the last
  work submitted for frame f: with the GPU, over but with its future not
  yet fulfilled (`finishing`), or done; a future is the frame whose work it
  stands for.  `acquiring` and `rendered` are the semaphores in use.  The
  race on `m_window_extent` is a choice of what each word reads
  (`ReadableExtents`).  The swapchain's clamp is modelled for windows within
  the limits of the surface, where only the initial extent of zero by zero changes.
- **WorkStealingQueue.**  `owner` and `thief` hold the place and the locals of a call;
  a job is its number, and `taken` counts how often each was returned.
- **Latch.**  Of the promise only what others can see of it is kept: the list, the
  exchange, the wake-ups one by one.  `left` says that the tasklet that holds the
  latch has gone on, and with it the frame, before or after `fulfill()`.
- **AssetStreaming.**  `place[c]` is where a command buffer is between
  `request_cmd_buf()`, `submit()`, the GPU, the continuation of its fence request
  and the list of free buffers; `associated` are the staging buffers bound to it, and
  `work[q]` is what hardware queue q has still to execute.
  A load tasklet is a record with its step; a step ends where it suspends (a file read, a
  mutex, a fence).  The render tasklet calls `ensure_texture()` and
  `ensure_mesh()`, each one step, and the destructors may begin at any time: that of the texture streamer
  with the set layout (`DestroyLayout`), the waits follow (`Destroy`).  A descriptor set through a layout that is gone may land
  anywhere (`SetDescriptor`).  A mesh that does not fit its buffers stops the program (`TakeIndices`).
- **DeviceMemory.**  A pool is a value with its list of blocks, its free lists,
  the bitsets and the used size; the heaps call its operations under their
  mutex.  The driver may refuse a chunk or a binding whenever it is asked.  A pool has the size the
  heap gives it, whether the minimum size divides it or not; what that asks of the requests is `PoolsFit` (section 4).
- **RenderGraph.**  The functions that declare a pass are actions, as are compile()
  and each recorded pass; `content` and `layout` are what the GPU would find at
  that point.  `Frame` of `Workloads` is the frame of the sandbox pass by pass.
- **PackFile.**  `path` is the file under the name of the package, `survivors` the files that
  may be there after a crash of the machine, since a link need not have
  reached the disk.  The program or the machine may crash in every state.  The copy of the old package
  may stop at any offset, which its caller does not notice (`Copied`); `cut` remembers the entries that lost a block to it.
- **HashSet.**  `LastBucket` is the bucket pointer that `add()` has found before `ensure_capacity()` may replace the
  array it points into: the array, by its capacity, and the place in it.  `DoAppend` loses the element when the
  pointer is null, stale, or not at the end of a chain; `InsertsAnew` is the condition under which the
  code starts again at the root.
- **Log.**  `caller` and `sink` are the places of the logging threads and of the sink;
  `printed` has the numbers of the messages that came out, `reported` how many were reported as lost.
- **Entities, EntityHandles.**  The free list runs through the slots as in the code, and an entity
  lives if its slot holds its own index, which is what `valid()` asks.  A view
  is a walk with a pointer and an end; the entity it is at may be destroyed on the way.
  `given` are the handles that `create()` has returned, `gone` how many were destroyed.
- **UiTree.**  The geometry is the set of elements under the mouse, which moves,
  drags and layouts change; a pane that handles nothing is one with its window.  `Hit` states what
  the nested searches of `hit_test()` end at: the foremost of the windows that can be hit, the first of its
  widgets.  `dropped` says that a release was kept from the active element.
- **UiLayout, UiFrame.**  A length is an integer number of subpixels, as in the code.
  `elements` are the members of every pane and widget, `atlas` the skyline with what
  was asked of it, `texels` what the image of the atlas holds at each place, `frame` the
  commands painted and the draws made of them.  A step is a frame (layout, paint,
  draw), a copy to the atlas, or an act that changes an element.  Texts are sequences of glyphs given by
  constants: the title of a time graph depends on the longest bar that the last painting met, one
  frame late as in the code; a slider has the value that its label tells.
- **Windows.**  `window` are the members of the class, `desktop` the display server and
  the user in front of it, `events` what was sent and not yet handled.  The user acts,
  the program handles one event after the other; creation may fail on one server and
  fall back on the other, whatever the first one lacked.  What the server does with a request is
  external and modelled as the code uses it: a lock of the pointer is pending, active or, after the
  pointer has left, defunct for good; a cursor is set only with the serial of the latest enter; a grab of X11
  may be refused unnoticed; its warp moves a pointer that is on the window and comes back as a movement.
  A request is taken at once, events on the way notwithstanding.  Positions handed to the callbacks of
  buttons and of relative movements are left out.
- **ScriptVm.**  The frames of the recursive `evaluate()` are the records of `stack`, and a step
  is what a frame does between two calls of `evaluate()`.  A freed place is never used again,
  so that a use of it shows.  The collector marks from the argument lists being evaluated
  and from the environment of the calling expression; the frames hold more than that.
  `careful` says that the program stayed within what the collector supports: one
  collection, the environments of all waiting frames on the chain of the collecting
  call, the functions being called named in it, and no name given twice.  Without any one of
  these four a program of `Workloads` touches a freed object.
- **GltfConverter.**  `stage`, `item` and `part` are how far `convert()` is and where its loops
  are; `futures` are the jobs it has yet to await, one of which it looks at in a step, as it
  schedules one in a step.  `job` is where the tasklet of each job is: it fills the maps of the
  converter and adds its entries to the package, in steps that others come between.  A scene visits one
  node in a step; `calls` are the calls of `visit_node()` that it has yet to make, in their order, the stack of the
  recursion laid out.  Names differ, and no material has both a colour and an image (see section 4).
- **Shader compilers.**  `Parse`, `Legalise` and `BuildSpv` each take one declaration; the
  functions of the modules work on a record that holds the members of the class.
  `ShaderCompiler` says what a source means by a grammar without stacks, and what a module
  computes by executing its instructions; `CompilesFaithfully` compares the two, and adds what
  SPIR-V asks for: ids defined once and before use, operands of the right types, sections in
  order, the interface of an entry point.  `VslCompiler` does the same for the older one.

The mutex and the promise assume of the scheduler what `Scheduler` models: that
`schedule()` of a suspended tasklet takes effect once its fiber is Suspended.  The
scheduler assumes of its queues and of its semaphore what `MpmcQueue` and
`Semaphore` are shown to provide.  The frame pacer assumes a promise as `Promise` shows
it, and of the IO thread that a fence request is fulfilled (`RequestsFulfilled`).

Definitions commented "Mutant of ..." are variants of the definition below
them with a plausible mistake; each is used to see that a property notices.

## 3. What is checked

| Run | Instance | Question |
|---|---|---|
| `suspending` | the mutex: 3 tasklets, 1 thread, no bound on calls; the IO thread: 3 requests (1 fence), ring of 2 entries, batches of 2 | is the mutex a lock (`ImplementsLock`), is each waiter on one list (`ListSound`), is each suspended waiter woken and a free mutex taken (`NobodyIsForgotten`)?  Is every request accounted for, fulfilled once, and its fence descriptor closed, and is none missed by a sleeping dispatcher (`RequestsSound`, `RequestsFulfilled`)? |
| `promise` | 2 tasklets, 1 thread, 1 continuation, 2 rounds | is every waiter woken, once, and not early? |
| `scheduler` | 2 workers, 1 outsider, 2 tasklets, 3 fibers, 3 pauses | are fibers never lost or doubled, do the assertions hold, is the tasklet life cycle implemented? |
| `scheduler_one_worker` | 1 worker, 3 tasklets, 2 fibers, weights 4 and 1 | do permits cover jobs (`IdleMeansDrained`), do tasklets finish when the fibers run out, does join return (`WorkEnds`)? |
| `scheduler_stranded` | 2 workers, 2 tasklets | does "all workers asleep" mean "nothing ready" with two workers? (it does not) |
| `streaming` | 2 textures of 2 mips, one in flight, 2 meshes, 2 command buffers, 2 hardware queues | is no buffer reset or freed while the GPU uses it, is what is drawn ready, does every visible asset arrive, does no load outlive its streamer? |
| `streaming_layout` | the same | does the set layout outlive the loads that use it? (it does not) |
| `frame_pacer` | 2 frames, 2 images, windows of 4 sizes, closed at any time | is a frame with one side at a time, is nothing reused that the GPU uses, are frames presented, does the destructor end? |
| `components` | twelve components, below | a question or two of each, below |
| `sequential` | six components, below | a question or two of each, below |
| `script_second_collection` | the programs of `components` | does a collection keep what is reachable from its roots? (the second one of a program does not) |
| `pack_short_copy` | the packages of `sequential` | is every entry of the old package in the new one? (a copy that stops early loses some) |

The components of `components` and of `sequential`, of which a behaviour runs one:

| Component | Instance | Properties |
|---|---|---|
| graph | the frame of the sandbox, and every graph of three passes over an image and a buffer | `GraphExecutes`: a pass finds the content and the layout it asked for, and the order has what the target needs |
| pack (sequential) | three entries added in any number of sittings, blocks of two units | `PackageIntact`: after any crash the package is the old one or the new, and every entry reads back whole but those that a short copy has cut |
| log | 2 threads, two messages of one and one of the other, rings of one message | `MessagesAccounted`: printed in order, once, or reported as lost; `LogDrained`: what is logged comes out |
| entities (sequential) | 3 entities, 2 kinds of components | `EntitiesImplementTable`: sparse sets and the free list behave as a table, views included |
| handles | 3 indices, 3 versions each | `HandlesDistinct`: no handle is given twice, and those not destroyed are the valid ones |
| queue | 3 threads, 2 slots, 5 tickets each way | `QueueSound`: exclusive slots, FIFO, waits only for room; `HonestFailure`: a try_ call fails only if it must |
| semaphore | 3 threads, 2 permits outstanding | `Safe`: the count of waiters is exact and no wake-up is lost; `ImplementsCountingSemaphore`; `WaitersServed` |
| stealing | an owner, 2 thieves, 2 slots, 4 jobs | `TakenOnce`: each job is returned once, in spite of the race for the last |
| latch | 2 that arrive, 2 that count down, a holder that waits | `LatchSound`: nobody passes early, nobody is left, and who was woken late finds the latch |
| tree | 2 windows, a slider, a button, a label made anew | `PointersSound`: the active and the hovered element exist and are the right ones |
| set | 5 elements, two of which collide | `HashSetSound`: what is found, iterated and counted is what is in the set |
| script | every definition of `Workloads` followed by every use | `TouchesOnlyLive`: within what the collector supports no freed object is touched |
| gltf | 2 materials, 2 meshes with 3 primitives, 2 scenes over 3 nodes | `ScenesResolve`: a committed package has every entry its scenes refer to, one of each name, and every part its bounds and its material |
| shader | all expressions of three operands, and one source or more per kind of statement, variable and declaration; a tenth of them malformed | `CompilesFaithfully`: malformed sources are refused, those with a lone identifier as an argument stop at an assertion (section 4), the others compile to a valid module that computes what they say |
| memory (sequential) | 3 resources, 2 memory types, pools of 17 or 4 bytes | `MemoryAccounted`: blocks tile the pools, the free lists are exact, a fitting block is found; `OneEmptyPoolKept`; `ImplementsAllocator` |
| compiler (sequential) | the same sources as far as the older language has them | `OldCompilerFaithful`: malformed sources and those of the kinds in section 4 are refused or stop at an assertion, the others are compiled to what they say |
| window (sequential) | 2 keys in 2 layouts, 2 buttons, 2 places, 4 steps of the user | `InputKnown`: a window that has handled its events knows the held keys and buttons, the place of a pointer that it follows and its size, has asked for the lock and the screen that it believes to have, a grabbed cursor is hidden, and no movement is told twice |
| interface (sequential) | the windows of the sandbox, 4 glyphs, 2 acts | `InterfaceSound`: every visible command is drawn as it was painted, with the glyph it names or nothing; every element lies in its window |

### Bounds

- Semaphore: three threads allow a poster, a thread that steals the permit, and
  a sleeper; with two permits outstanding both halves of the word change
  between a load and its exchange.
- Mutex: three tasklets make lists of two while a third owns the mutex, and
  lists that grow while one is being detached.  No counter is bounded.
- Queue: two slots and five tickets are two and a half laps, so that a slow thread meets
  its slot one and two turns later; three threads fill the ring and block
  behind it in both directions.  `WordSize = 8` is large enough that no wrap
  occurs (`QueueAssumption`).  Ring sizes and words are powers of two in the code; what matters to the
  wrap is only that `WordSize` is a multiple of `SlotCount`.
- Promise: two tasklets with different upper halves make the futex word change
  under a sleeping thread; two rounds meet late leavers of the first.
- Scheduler: three fibers for two workers is `thread_count + 1`, the smallest limit
  the constructor allows, so the pool runs out; three pauses let a
  tasklet be resumed on the other worker and come back.  `PermitLimit` bounds how
  many permits the loop of join() piles up; a larger number only lets workers
  find nothing more often.  With one worker two fibers are that limit: its three
  tasklets exhaust the pool (`PickAny`).  `Weights` are <<1, 1>> (`ShortWeights`) with two workers, which
  makes both orders of looking at the queues frequent, and the real <<4, 1>>
  (`k_priority_weights`) with one.
- IO: three requests overflow a ring of two entries, which also has to hold
  the dispatcher's own poll when it is lost; batches of two leave completions for the next turn.
- Frame pacer: two frames as in the sandbox, two images so that one can be
  held wrongly; two values per word are what a torn read needs.  Nothing
  counts frames: the loop closes on itself.
- Memory: a pool of 17, or of 4 at the second attempt, with a smallest block of 2 has several first- and second-level
  classes (`SlCount = 2`); three resources leave holes on both sides of a block, and their
  requests (5 bytes aligned to 4 in the first memory type; 12 aligned to 8 in either, for the host) include
  one that is padded for its alignment, one that may be refused its pool,
  and one large enough for a chunk of its own.  The last block of the larger pool has an odd size.
- Streaming: a limit of one texture in flight makes the second wait; two mips let a load
  fail between its copies; mesh buffers of 7 hold both meshes, those of 6 only one; two command buffers are fewer than three loads could use.
- Graphs: three passes are a chain, a fork and a join, with writes over what
  another pass reads.  The frame of the sandbox is run as it is.
- Package: a mesh of two blocks and an image of one block interleave their chains
  in the file; the mesh and the scene end in a short block.
- Log: rings of one message overflow at once; two threads publish their queues
  against each other.
- Entities: three slots make a free list of two with one slot alive.  Three versions exhaust an index
  twice over, so that it is retired while others are reused.
- Work stealing: two slots and four jobs are two laps; two thieves race with each other and with
  the owner.
- User interface: two windows, so that one can be in front of the other, hidden or raised;
  one widget of each kind.  An atlas of four by three texels takes some of the glyphs and not all.
- Windows: one key that only one layout knows, one button without a bit; four steps are a press,
  a grab, a movement and a release in any order.  A size of zero comes with the first configuration only.
- Hash set: capacities 1, 3 and 7, in which different pairs collide.
- Scripts: a definition and a use put collections into arguments, bodies, definitions, closures
  and closures within closures.  `PlaceLimit` (60 objects) ends programs that recur for ever.
- glTF: two primitives of one mesh and two meshes with one material share what the jobs leave
  in the maps; a node without a mesh, one with children, and one that both scenes have.
- Shaders: three operands are the least for which precedence, grouping and unary operators
  can go wrong in combination; a fourth and nested calls are tried beside them.

### Fairness

Weak fairness is given to each thread for the continuation of a call it has
begun (the operating system runs it), never to the decision to begin one;
to a worker thread for its loop; to the kernel for completing what it was given;
and to an outsider for waking a tasklet that waits (whatever a tasklet waits for
is assumed to come).  The frame pacer needs one strong fairness: an acquisition
that is repeated for ever succeeds, without complaint, again and again, since a
surface that is always out of date shows nothing whatever the code does.
In the streamers the load tasklets, the GPU and the kernel go on with what they
have begun and the render loop goes on drawing; in the log the threads finish
their calls and the sink runs.
Nothing is assumed of competing for a compare-exchange.
The second half of `NobodyIsForgotten` is therefore a property of the mutex as a whole: one
tasklet may lose every race.  The first half, that a suspended tasklet is woken, is
checked for one tasklet, since they differ in nothing but their names.

Deadlock is checked in `promise`, which never stops.  The other systems may rightly stop:
everybody may sleep in wait(), a bound on calls is reached, the IO thread has been
told to quit, the program has ended, a source has been compiled, or everything has been joined.

## 4. Disagreements between the code and what it says

1. `scheduler_stranded` (`scheduler.cc:91`).  A worker with a permit looks at one
   queue and then the other.  If another worker takes the job of the second queue in
   between, with the permit of a job that arrives in the first, the first worker
   has spent its permit on nothing.  Both workers end up asleep with a ready
   fiber in the queue.  With one worker this cannot happen (`IdleMeansDrained`
   in `scheduler_one_worker`).
2. `script_second_collection` (`script/vm.cc:122`).  "Unmark all objects" unmarks those in
   the list of objects, in which neither the root environment nor the environment of
   `evaluate(form)` is.  Both stay marked after the first collection, so the second one
   does not go through them, and frees what only they hold.
3. `streaming_layout` (`graphics/texture_streamer.cc:137`).  The destructor destroys `m_set_layout` and then waits
   "for any in progress uploads to complete" (`:139`); such a load passes the layout to `set_descriptor()`
   at its end (`:308`).
4. `pack_short_copy` (`platform/linux.cc:95`).  `copy_to()` calls `copy_file_range()` once, which may copy less than it was asked
   for (and at most about 2 GiB), and reports no error.  `make_writer()` says that it copies the existing entries
   (`pack_file.cc:105`), goes on at the offset reached, and the package that takes the place of the old one lacks the blocks behind it.
   What `PackageIntact` then still says is that no other entry suffers.

Met while modelling, without a run of their own:

- *Queue.*  A turn is twice the lap number, and the lap number restarts at zero when the
  32-bit ticket wraps while the turns go on (`mpmc_queue.hh:56`): with more than two slots
  `enqueue()` then spins for ever.  `MpmcQueue` shows it with `SlotCount = 4`,
  `WordSize = 8` after eight tickets.
- *IO thread.*  A fence that is already signalled has no descriptor; `m_fd` is then
  indeterminate and is closed (`linux.cc:654`), which may close the descriptor of another fence.
- *Scheduler.*  When the pool of fibers is exhausted by tasklets that wait for somebody who does not come, the helper goes
  round without looking at whether it should stop (`scheduler.cc:179`), and join() does not return.  `JoinReturns`
  allows this, and nothing else (`EveryFiberWaits`).
- *Memory.*  A pool is an eighth of its heap, or that halved up to four times (`memory.cc:618`, `505`), and nothing rounds this to
  the minimum size.  The last block of a pool then has the rest of the division, and may be large enough for a size but not for
  that size rounded up: the subtractions at `memory.cc:201` and `206` wrap.  With a minimum size of 4, two second-level lists and a
  pool of 7 bytes, a request of 5 bytes gets a block of 8, with another of 31 behind it.  `PoolsFit` states when this cannot happen:
  a request is aligned to the minimum size or more, or is at least `SlCount` minimum sizes large, so that the
  search is rounded to a multiple of the minimum size, or is rounded up by so little that the rest of the pool does not matter.
- *Streamers.*  A texture is published when its last copy is submitted, not when it has
  been executed; a texture that is out of sight keeps counting against the limit (`:345`); a load that failed shows
  the fallback for ever; the descriptor buffer of 2048 is not checked.
- *Render graph.*  A write over a resource that is not a continuation of the last one is
  not ordered after the readers of the earlier content (`Disciplined` is the condition
  under which the order is right); a pass that reads an imported image finds
  no layout and no event of a writer.
- *Package.*  A crash between the unlink and the link loses the package, as the comment at
  `pack_file.cc:125` says; `m_entries` is changed before the commit has succeeded
  (`:114`); equal names never finish the perfect hash (a TODO at `writer.cc:40`).
- *Log.*  A message logged while another thread is in the middle of publishing its queue
  when the log is closed can stay unprinted.
- *Entities.*  A view yields identifiers of version 0; loading a world brings destroyed
  entities back, since the free list is not saved; `SparseSet::empty()` is inverted.
- *Latch.*  A waiter on the early path may return, and with it the frame that holds
  the latch, while `fulfill()` is still to run in `count_down()`.
- *User interface.*  `set_active_element()` (`ui/tree.cc:97`) asserts that no element is
  active, but the sandbox does not pass events on while the cursor is grabbed
  (`sandbox/main.cc:149-151`): a release in that time leaves the element active, and the next
  press fails the assertion.  A window hidden while it is resized goes on being resized when it is
  shown again; a button fires on a release without a press.
- *Layout and painting.*  The cross axis ignores the minimum of an element; a box in a box has
  its main axis overwritten, with a spacing after the last element; a glyph that finds no room in the
  atlas is tried again in every frame; a scissor with a negative side is read as unsigned; the
  128 descriptors of a frame are not checked; the fraction of a `LayoutUnit`, said to be in
  [0, precision), is negative for negative lengths (`tests/ui/units.cc`).
- *Windows.*  On Wayland, leaving a window keeps its keys pressed (the handler does nothing), and the
  cursor is locked with a lock that serves once; `m_buttons` is not initialised; the listeners of the
  registry live on a stack frame that has ended; keys held when the focus comes are read in the layout
  that was known before the modifiers arrive (`relaid`).  X11 never updates its `xkb_state`, and is not
  asked for the keys held when the focus comes.
- *Scripts.*  The function of a call is not a root while the arguments are evaluated:
  `((fn [x] x) (seq (collect-garbage) 1))` runs a freed closure.  Nor is the environment of
  the caller, when the call runs in another one.  An empty parameter list is null, which
  the collector dereferences; `m_symbol_cache` keeps symbols that have been swept; a call
  without arguments evaluates the body in the environment of the definition.
- *glTF.*  An error makes `convert()` return and destroys the converter while tasklets that
  use it are still scheduled; a material with both `baseColorFactor` and a texture stops at an
  assertion; two materials or meshes of one name make two equal entries, for which the
  perfect hash never ends.
- *Shader compiler* (line numbers of `spv_backend.cc`).  A variable used by both stages is
  missing from the interface of the second entry point (`:388`); `2.0f * p` is a
  VectorTimesScalar with its operands in the order of the source; `vec4(a, b, c, 1.0f)` with scalars
  that are not constants stops at an assertion (`:304`), the parameters of a function that is
  no entry point at `:383`, and `%` at `:203`; a helper that uses a uniform
  dereferences a null entry point (`:347`); `a - (a = b)` subtracts the new `a`; what
  follows a return is still written.  In the parser, an identifier that is the only argument of a call, as in `vec3(v)`, is
  not made a node before `build_call_or_construct()` takes it for a list, which an assertion does not allow (`parser.cc:238`):
  `Unsupported` are the sources of `Workloads` that have one, and the model stops where the code does.
- *Older shader compiler.*  Among the binary arithmetic operators is one for the difference (`tools/vslc/parser.cc:17`), but its
  token is taken to be an underscore (`:116`): the parser takes every minus for a negation and stops at an assertion on `a - b`.
  Every uniform has index and offset 0; an assignment of an assignment, a quotient
  and the parameters of a function that is no entry point stop it; a scalar times a vector has its
  operands in the order of the source.
- *Hash map.*  `set()` over a key that exists stores a value that has been moved from
  (`hash_map.hh:98-99`).

## 5. What is proved

The proofs are for every value of the constants that the named assumption allows; TLC
checks the assumption in the runs.  Each invariant was checked by TLC before it was proved.
The invariants that the runs check are seldom inductive, and what each proof adds is named here.

| Module | Theorem | Statement | Assumption |
|---|---|---|---|
| `SemaphoreProofs` | `SemaphoreSafe` | SemaphoreSpec => []`Safe` | `SemaphoreAssumption`: finitely many threads, a limit of permits that fits the low half |
| | `SemaphoreRefines` | SemaphoreSpec => `ImplementsCountingSemaphore` | |
| `SuspendingProofs` | `MutexExclusion`, `MutexLockedByOwner`, `MutexTypes` | `MutualExclusion`, `LockedByOwner`, `TypeOK` | `MutexAssumption`: tasklets, threads, the sentinel and null apart |
| | `MutexRefines` | Spec => `ImplementsLock` | |
| | `MutexListSound` | Spec => []`ListSound` | |
| | `DispatcherRequests` | IoSpec => []`RequestsSound` | `DispatcherAssumption`: finitely many requests, a ring of at least two entries, a batch of at least one |
| `PromiseAndStreamingProofs` | `PromiseWaiters` | Spec => []`WaitersSound` | `PromiseAssumption`: kinds of waiters apart, at least one round |
| | `PromiseReturnsOnlyFulfilled` | Spec => `ReturnsOnlyFulfilled` | |
| | `StreamersSound` | StreamingSpec => []`StreamingSound` | `StreamingAssumption`: hardware queues 0 .. n, textures and meshes apart, sizes that are numbers |
| `ContainerProofs` | `MpmcQueueSound`, `MpmcQueueHonest` | QueueSpec => []`QueueSound`, `HonestFailure` | `QueueAssumption`: neither a ticket nor a turn wraps |
| | `JobsTakenOnce` | StealingSpec => []`TakenOnce` | `StealingAssumption`: at least one slot |
| | `LatchKeepsWaiters` | LatchSpec => []`LatchSound` | `LatchAssumption`: finitely many users, each in one role |
| | `LogAccounts` | LogSpec => []`MessagesAccounted` | `LogAssumption`: the null pointer is no queue |
| | `SetSound` | SetSpec => []`HashSetSound` | `SetAssumption`: hashes are numbers |
| `SchedulerProofs` | `SchedulerFibers` | Spec => []`FibersSound` | `SchedulerAssumption`: finitely many workers and outsiders, positive weights |
| | `SchedulerImplementsLifecycle` | Spec => `ImplementsLifecycle` | |
| `FrameLoopProofs` | `PacerHandOver` | Spec => []`HandOver` | `PacerAssumption`: at least one frame |
| | `TreePointers` | TreeSpec => []`PointersSound` | `TreeAssumption`: finitely many windows, each widget once in one of them, the remade labels next to each other and over the same place |
| | `EntitiesAreATable` | EntitiesSpec => `EntitiesImplementTable` | `EntitiesAssumption`: a limit of entities, and a kind of component besides the one that views walk |
| `DeviceMemoryProofs` | `MemoryIsAccounted` | MemorySpec => []`MemoryAccounted` | `PoolAssumption`: a minimum size, a number of second-level lists and a word that are powers of two in that order; `DeviceAssumption`: pools that fit the word with any alignment, positive requests, alignments that are powers of two; and `PoolsFit`, a hypothesis of the theorem |
| | `OnePoolInReserve` | MemorySpec => `OneEmptyPoolKept` | `PoolsFit` |
| | `MemoryIsAllocated` | MemorySpec => `ImplementsAllocator` | `PoolsFit` |
| `PackageAndHandleProofs` | `PackageSurvives` | PackSpec => []`PackageIntact` | `PackAssumption`: finitely many names, none for an empty entry, a header that is not empty |
| | `PackageResolves` | GltfSpec => []`ScenesResolve` | `DocumentAssumption`: numbers of materials, meshes and nodes are within the document, and names differ |
| | `NoHandleTwice` | Spec => []`HandlesDistinct` | none |

- **Semaphore.**  `Safe`, the conjunction of `SemaphoreTyped`, `WaitersExact`, `NoLostWakeup` and
  `NoBorrow`, is inductive.  Neither part is on its own:
  `Acquire` and the exchanges subtract from the halves of the word, and that these
  stay natural numbers needs `WaitersExact` and `NoBorrow`; `post()` decides by
  the high half whether to wake anybody, so `NoLostWakeup` needs `WaitersExact`.  Each part is
  a theorem of its own; every step is a step of `CountingSemaphore` or a stutter.
- **Mutex.**  `MutexInv` adds to `TypeOK`, `MutualExclusion` and `LockedByOwner` that the
  pointers unlock() walks are tasklets and that only tasklets enter the list code.
  Exclusion rests on `LockedByOwner`: an owner is made only by an exchange
  that found the sentinel.  For the lists, a tasklet parked in the mutex is the target of exactly
  one pointer, any other of none (`Once`); this is inductive only with `LinksKept`: what a tasklet
  pushes itself on is still what it has stored in its link, and a tasklet about to be rescheduled
  has no link left.
- **IO thread.**  A request, or one of the two polls, is an entry that wanders from the queue over the
  submission ring and the kernel to the completions.  These are disjoint and without repetitions
  (`EntriesApart`, `CompletionsKnown`); a submitted request is in one of them or fulfilled
  (`RequestsKnown`); the poll of the submit event is never lost (`PollKnown`); what the dispatcher
  prepares fits the ring (`RoomLeft`); and pending requests come with somebody who will set the event,
  or with the event set where its poll sees it (`Told`), from which it follows that a sleeping dispatcher
  misses nothing.
- **Promise.**  `Once` again, here over the word, the links and the fulfiller's cursor; it needs that the link of
  a tasklet being woken is gone (`FulfillerKnown`), and with it shows that reset() does not take the
  promise away under a wake-up that still has waiters (`ValueStored`).
- **MPMC queue.**  `TurnKnows`: the turn of a slot says of each of its tickets whether it has been stored and
  whether it has been taken, although tickets are drawn and stores finish in any order.  `HasTurn` says
  the same from a thread's side, `TicketsKnown` and `ValuesKnown` of tickets and values.  The theorem ends where tickets
  wrap, as the code does (section 4).
- **Work stealing queue.**  `EndsKnown` relates head and tail while the owner has moved the tail over the last job;
  `JobsKept` says that a job between the ends is in its slot and was not taken, `ThievesKnown`
  that a thief whose exchange can still succeed has read the job that is there.
- **Latch.**  The value counts those that have yet to count down (`ValueCounts`), and who waits is in the list
  of the promise, or somebody is on the way to fulfil it (`LastOnItsWay`, `Awaited`).  `PassedLate`
  is about the life of the frame.
- **Log.**  `Numbered` counts a message that was begun and is neither stored nor lost.  `Listed` says that there is
  an order of the queues, the one in which they were appended, that the links follow except for those
  a thread is about to store; `Visited` that when nobody is logging and no permit is left, the sink is on
  its way to every queue of that order that is not empty.  The order grows with `AppendQueue`; no variable holds it.
- **Hash set.**  `ChainsOf` says of an array of buckets that each chain has the elements of a set that lead to it, once; that
  inserting, removing and rehashing keep it is the invariant.  `add()` comes to the same chains whether it starts again at the root or
  appends to the bucket it has kept (`AddInserts`), since it keeps one only where the array was not replaced.  The iteration and the rehash go over the elements one by one,
  and what they leave at the end follows by induction over the elements passed.  The library's induction theorems cannot be used
  (see below), but `WFMin` can, on the set of the numbers for which the claim fails: `CountingUp` is
  induction up to a bound for a set of numbers, and `RecursionExists` gives from it the function that a recursion defines.
- **Scheduler.**  That a fiber is in one place says nothing of why nobody else takes it.  The invariant adds what the
  state of a fiber promises (`StatesKnown`), that who is on a fiber is alone on it (`HoldersAlone`),
  that fibers and tasklets point at each other (`OwnersKnown`), what a worker may be doing on its
  fiber (`WorkersKnown`), that a fiber has one waker (`TargetsKnown`), where publishing returns to
  (`ReturnsKnown`), and that the counts never promise more than the queues hold (`Counted`).  With it
  every step is a step of `TaskletLifecycle` or a stutter: for each action one lemma says what it
  shows, or that it shows nothing, of the phase of a tasklet and of the worker it runs on.
- **Frame pacer.**  `Handshake` says which of the two threads has the frame, `ImageKnown` which image is held and rendered,
  `OwnFuture` that a future is stored in the place of its frame although `submit_frame()` reads
  `m_frame_index` again, `SemaphoreUse` what still uses an acquire semaphore.
- **Tree.**  `TreeInv` adds that the children stay a permutation of the windows and which pointers may lead to a label
  that is remade.  That a hit is still right after a change is not a matter of the state but of `Hit`: hiding another
  window (`HideKeepsHit`), raising the window that was hit (`RaiseKeepsHit`) and making a label anew (`RemakeKeepsHit`) leave
  what is hit as it was.  These need a first and a last hit to exist among finitely many; `LeastElement` gets
  it from the well-founded order of the numbers, which stands in for the induction that tlapm cannot do.
- **Entities.**  A sparse set is sound (`SetSound`) if its dense list names living entities, each is led to from
  the sparse list, and the data lies beside it: remove() moves the last component into the place of
  another (`RemovedSound`), and slots of the sparse list that lead nowhere stay behind.  `FreeListSound` is as for the handles: no free
  slot links to an entity or to the head, and nothing is linked to twice.  `ViewSound` ties the memory a view walks over to
  the dense list that shrinks under it: behind its end are destroyed entities only, which the look at the other
  kinds passes over, so that there must be another kind.  Each action is then a step of the table as far as
  contains(), at() and the view show it.
- **Streamers.**  That a staging buffer outlives its copy is a matter of the command buffer that has it: a
  buffer and the load that records it know of each other (`UploadsKnown`), the hardware queues hold
  the buffers that execute as they were submitted (`BuffersListed`), each load is as far as its
  future and its result say (`LoadsKnown`, `ResultsKnown`), and the places taken in the mesh buffers lie apart
  below the heads and, once that has been ensured, within the buffers (`PlacesTaken`).  What a descriptor shows is claimed until the
  layout is destroyed, when the last frame has been drawn.
- **Memory.**  The proof has two storeys.  Below, a pool is `Sound`: its blocks tile it, no two neighbours are
  free, each class lists exactly its free blocks and has its bit, and the used size is that of the used blocks.  The
  operations break this on the way (`allocate()` takes a block out, gives up the padding, then the remainder;
  `free()` takes in one neighbour after the other), so what they keep is `Reserved`: all of it but for one block, and
  what is known of that block's neighbours.  `AllocateIs` and `FreeIs` then say what the operations do to the set
  of blocks in use, and that `allocate()` fails only without a block in any class from that of the search on; that such a block
  is large enough, whichever it is, is arithmetic of the classes (`ClassAscends`, `ClassFloorIs`), over powers of
  two as a table (`Power`), since nothing can be proved of `^`.  Above, `MemoryInv` is the accounts of the heaps:
  the blocks in use and the resources that have one are in one-to-one correspondence (`RangesKept`, `BlocksKept`,
  `RangesApart`), the chunks are those of the pools, of the resources with a chunk of their own and of
  the calls about to free one, each of exactly one of them (`ChunksKept`, `OnePool`), and a call is where its resource allows
  (`CallsFit`).  Two resources in one pool do not overlap because their blocks tile it; a chunk is freed by
  a call that has it alone; and the empty pools of a heap (`ShrunkEmpty`) are counted past the swap with the last
  pool, where that a pool is empty just if no other resource has its chunk comes from the accounts again.
  All three theorems have the hypothesis `PoolsFit`, which the code does not ensure; TLC finds it true of the
  run.  It is used in one place, that a block found for a request has room for the size rounded up (`RoundedFits`), by its three cases: a
  block that ends before the end of its pool is a multiple of the minimum size, and in the last one the rest of the
  pool is too small to matter or the search was rounded too (`SearchInUnits`).  Without it the pool of section 4 is a counterexample.
- **Packages.**  What a crash leaves is whole because all that the name may lead to then is (`Directory`); that a new file
  is whole when it is linked rests on what holds while it is written.  Blocks, and the space that is allocated
  and not written, lie apart between header and head (`BlocksWithin`, `Pending`), so that no write of one stream hits
  a block of another; what a stream has written is a chain of the first pieces of its entry, ended by the sentinel
  (`Written`), of which the link that the next flush overwrites is the last; and the entries of the old package that the copy has not cut read back
  whole all the time (`Writing`), the blocks before the offset that it reached being those of the old file (`CopiedFacts`).  `ReadsWhole` says that the walk of the reader exists rather than walking, which a proof
  could not follow without induction.
- **glTF.**  That a package is whole when it is committed rests on the order in which jobs end, of which `convert()`
  sees only that the futures it has gone past are done.  `Scheduled` says that all jobs of a stage are among
  its futures, so that leaving the loop means all are done; with `ScenesLast` no scene is begun, and none goes on,
  before.  What each job leaves at each of its steps (`MaterialsKept`, `PrimitivesKept`, `ScenesKept`) then makes
  all that a scene builds good (`GoodParts`), whatever the document and the order.  An entry tells
  the job that made it (`EntriesKnown`), from which and from `DocumentAssumption` there is one of each name.
- **Handles.**  That a slot in the free list has a version not yet given (`Fresh`) survives a destroy only if a retired
  slot never comes back to the list, and that follows from the shape of the list (`ListSound`): nothing
  links to an entity, and nothing is linked to twice.

`MutualExclusion`, `LockedByOwner` and `NoBorrow` are proved rather than run:
the first two follow for TLC from `ImplementsLock`, the third is a part of the
argument.

Only model-checked:

- the liveness properties (`WaitersServed`, `NobodyIsForgotten`, `RequestsFulfilled`, `EveryWaiterReturns`,
  `WorkEnds`, `EveryAssetArrives`, `PacerGoesOn`, `LogDrained`): the provers do not handle fairness and ENABLED;
- `IdleMeansDrained`, which is true with one worker only, and there only of the weights and counts of the run;
- everything about modules with RECURSIVE operators, of which tlapm can prove nothing: `RenderGraph`,
  `ScriptVm`, the two shader compilers, `UiLayout` and `UiFrame`
  (`GraphExecutes`, `TouchesOnlyLive`, `CompilesFaithfully`,
  `OldCompilerFaithful`, `InterfaceSound`);
- `InputKnown`, which would need more induction over data than `CountingUp` gives: a queue of events is folded over.

## 6. What is not modelled

- Weak memory.  Operations are sequentially consistent; the memory orders of
  the code are taken to be sufficient.  A data race the code does have
  (`scheduler.cc:164`) is a nondeterministic choice.
- Stack switches, stack sizes, signal stacks, tracing, and the address of
  thread-local variables after a switch (`scheduler.cc:334`).
- Full job queues: `Scheduler` takes its queues to be large enough.  In the
  code a full tasklet queue makes `enqueue()` yield with a ticket in hand.
- The reference count of promises.
- A window outside of the limits of its surface: its size would differ from the
  clamped size of the swapchain, which is recreated as long as they differ
  (`frame_pacer.cc:88`, `swapchain.cc:141`).
- 2^32 permits posted by join() (`scheduler.cc:242`).
- The commands that are recorded, pipelines, descriptor contents, stage and access
  masks: what a barrier means is a matter of the Vulkan specification.
- Rasterising and shaping of text; encoders and decoders of assets.
- JSON, whose parser is a sequential function from a text to a tree: a model of it is its
  grammar again.  Of the script language and the shader compilers: lexers, reals, strings and
  printing, natives called without arguments, blocks of uniforms, capabilities, texts of
  errors, and the encoding of instructions in words.
- Physics, maths, terrain: floating point, which TLC does not have.
- Generated and vendored code, which is a large part of the repository:
  `vulkan.hh` and `context_table.cc` (written by `tools/gen_vk.py`), `spirv.hh`, and
  `tools/vpak/enc/bc7enc.cc`; and the wrappers that only pass their arguments on.
  The models cover the parts of the engine that keep state over several
  calls, which are a small share of its lines.

`PROJECT.json` says for every component what of it is modelled.

## 7. Plan

1. (done) Semaphore, mutex, queue, promise, scheduler, IO thread, frame pacer.
2. (done) Latch; command buffers and the streamers over them; memory; render
   graph; package with crashes; log; entities; work stealing queue; user interface with its
   layout and painting; windows; hash set; script language; glTF conversion; both shader compilers.
3. (done) Proofs about everything that runs concurrently in 1, the latch, the work stealing queue, the
   streamers, the log and the handles.
4. (done) Proofs that packages survive crashes, that the pointers of the user interface stay right, that
   entities implement the table, and that converted scenes resolve.
5. The reference count of promises; bounded job queues in the scheduler; the
   composition of the streamers with the allocator of device memory.
