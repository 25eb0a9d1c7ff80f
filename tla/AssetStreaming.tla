---------------------------- MODULE AssetStreaming ----------------------------
(***************************************************************************)
(* TextureStreamer and MeshStreamer (engine/sources/graphics) on top of    *)
(* the transfer queue, vk::Queue (engine/sources/vulkan).                  *)
(*                                                                         *)
(* A command buffer is requested, records, is submitted to one of the      *)
(* hardware queues, and comes back when its fence request completes: a     *)
(* continuation, on any worker, resets it, which frees the staging buffers *)
(* bound to it, and offers it to the next request.                         *)
(*                                                                         *)
(* The render tasklet asks for every visible asset in every frame; the     *)
(* first time a tasklet is scheduled that loads it and records its upload. *)
(* A texture is published as soon as its upload has been submitted, a mesh *)
(* when the GPU has executed it.                                           *)
(*                                                                         *)
(* The maps of the streamers belong to the render tasklet: a call of       *)
(* ensure_texture() or ensure_mesh() is one step.  A file that a mesh      *)
(* cannot be read from stops the program and is left out.                  *)
(*                                                                         *)
(* In the end the renderer is destroyed, the member declared last first:   *)
(* the texture streamer, and then the mesh streamer.                       *)
(***************************************************************************)
EXTENDS Naturals, SequencesExt

-----------------------------------------------------------------------------
(* The queue.  c is a command buffer, u the tasklet that records it. *)

CONSTANTS
  CmdBufs,      (* bound: names of command buffers, 1 .. n                 *)
  HwQueues      (* indices of m_queues, 0 .. n - 1                         *)

VARIABLES
  m_buffers,    (* the buffers that may be handed out, last first          *)
  place,        (* where each buffer is                                    *)
  user,         (* who recorded it last                                    *)
  associated,   (* m_associated_buffers: staging buffers, per buffer       *)
  staging,      (* staging buffers that exist                              *)
  m_queue_index,
  work          (* per hardware queue, what the GPU still has to execute:
                   the buffer, its user and the staging buffers it reads   *)

queueVars == <<m_buffers, place, user, associated, staging, m_queue_index, work>>

Places == {"none", "recording", "executing", "signalled", "available"}
Nobody == "nobody"

QueueInit ==
  /\ m_buffers = <<>>
  /\ place = [c \in CmdBufs |-> "none"]
  /\ user = [c \in CmdBufs |-> Nobody]
  /\ associated = [c \in CmdBufs |-> {}]
  /\ staging = {}
  /\ m_queue_index = 0
  /\ work = [q \in HwQueues |-> <<>>]

Move(c, from, to) ==
  /\ place[c] = from
  /\ place' = [place EXCEPT ![c] = to]

(* request_cmd_buf(): the last buffer of the list, or a new one; what is   *)
(* bound to it at once is bound.                                           *)
RequestCmdBuf(c, u, bound) ==
  /\ IF m_buffers # <<>>
     THEN c = Last(m_buffers) /\ m_buffers' = Front(m_buffers) /\ Move(c, "available", "recording")
     ELSE /\ \A d \in CmdBufs : place[d] = "none" => c <= d
          /\ Move(c, "none", "recording") /\ UNCHANGED m_buffers
  /\ user' = [user EXCEPT ![c] = u]
  /\ staging' = staging \cup bound
  /\ associated' = [associated EXCEPT ![c] = @ \cup bound]
  /\ UNCHANGED <<m_queue_index, work>>

(* bind_associated_buffer(): a staging buffer now belongs to the command buffer. *)
BindAssociatedBuffer(c, s) ==
  /\ staging' = staging \cup {s}
  /\ associated' = [associated EXCEPT ![c] = @ \cup {s}]
  /\ UNCHANGED <<m_buffers, place, user, m_queue_index, work>>

(* The destructor, for a buffer that its user gives up half-recorded. *)
DestroyCmdBuf(c) ==
  /\ Move(c, "recording", "none")
  /\ staging' = staging \ associated[c]
  /\ associated' = [associated EXCEPT ![c] = {}]
  /\ user' = [user EXCEPT ![c] = Nobody]
  /\ UNCHANGED <<m_buffers, m_queue_index, work>>

(* submit(): the next hardware queue in turn, under its mutex.  The fence  *)
(* request is on its way when the action ends.                             *)
SubmitCmdBuf(c) ==
  /\ Move(c, "recording", "executing")
  /\ m_queue_index' = (m_queue_index + 1) % Cardinality(HwQueues)
  /\ work' = [work EXCEPT ![m_queue_index] = Append(@, [cmd |-> c, user |-> user[c], reads |-> associated[c]])]
  /\ UNCHANGED <<m_buffers, user, associated, staging>>

(* The GPU has executed the first buffer of a queue: its fence is signalled. *)
Execute(q) ==
  /\ work[q] # <<>>
  /\ Move(Head(work[q]).cmd, "executing", "signalled")
  /\ work' = [work EXCEPT ![q] = Tail(@)]
  /\ UNCHANGED <<m_buffers, user, associated, staging, m_queue_index>>

(* The continuation of the fence request: reset() frees what is bound, and *)
(* under m_buffers_mutex the buffer is pushed back.                        *)
Recycle(c) ==
  /\ Move(c, "signalled", "available")
  /\ staging' = staging \ associated[c]
  /\ associated' = [associated EXCEPT ![c] = {}]
  /\ m_buffers' = Append(m_buffers, c)
  /\ user' = [user EXCEPT ![c] = Nobody]
  /\ UNCHANGED <<m_queue_index, work>>

Submitted(u) == \E c \in CmdBufs : user[c] = u /\ place[c] \in {"executing", "signalled"}

-----------------------------------------------------------------------------
(* The streamers. *)

CONSTANTS
  Textures, Meshes,
  TextureLimit, MeshLimit,   (* k_in_flight_limit of each streamer         *)
  MipCount,                  (* mip levels of a texture                    *)
  VertexBytes, IndexBytes,   (* what a mesh has of each                    *)
  BufferSizes  (* bound: sizes that both buffers of meshes may have, 64 MB *)

Assets == Textures \cup Meshes

ASSUME StreamingAssumption ==
  /\ CmdBufs \subseteq Nat /\ \E last \in HwQueues : HwQueues = 0 .. last
  /\ Textures \cap Meshes = {} /\ Nobody \notin Assets
  /\ MipCount \in Nat /\ VertexBytes \in Nat /\ IndexBytes \in Nat /\ BufferSizes \subseteq Nat

Default == "default"         (* the two images of the constructor          *)
Fallback == [index |-> 0]    (* the image that shows an error             *)
NoMesh == [index_count |-> 0]
NotLoaded == [pending |-> TRUE]
Undefined == <<>>            (* descriptors that may show anything        *)

VARIABLES
  load,         (* per asset, how far its tasklet is: step, command buffer,
                   mips read, result                                       *)
  m_futures,    (* the assets in m_futures, of both streamers              *)
  m_loaded,     (* m_loaded_indices and m_loaded_meshes                    *)
  m_images,     (* the asset each image belongs to, from index 0 on        *)
  descriptors,  (* the asset whose image each descriptor shows             *)
  buffer_size,  (* of m_vertex_buffer and of m_index_buffer                *)
  m_vertex_buffer_head, m_index_buffer_head,
  gpu,          (* assets whose data the GPU has copied                    *)
  phase         (* of the streamers, and of the program                    *)

assetVars == <<load, m_futures, m_loaded, m_images, descriptors, buffer_size,
               m_vertex_buffer_head, m_index_buffer_head, gpu, phase>>
streamingVars == <<queueVars, assetVars>>

heads == <<buffer_size, m_vertex_buffer_head, m_index_buffer_head>>
maps == <<m_futures, m_loaded>>
images == <<m_images, descriptors>>

(* Frames are drawn; ~TextureStreamer() waits for its loads; then so does  *)
(* ~MeshStreamer().  A VULL_ENSURE that fails stops the program.           *)
Phases == {"open", "texture_loads", "mesh_loads", "destroyed", "stopped"}
LayoutExists == phase = "open"

StreamingInit ==
  /\ QueueInit
  /\ load = [a \in Assets |-> [at |-> "none", cmd |-> 0, mips |-> 0, result |-> NotLoaded]]
  /\ m_futures = {}
  /\ m_loaded = [a \in Assets |-> NotLoaded]
  /\ m_images = <<Default, Default>>
  /\ descriptors = <<Default, Default>>
  /\ buffer_size \in BufferSizes
  /\ m_vertex_buffer_head = 0 /\ m_index_buffer_head = 0
  /\ gpu = {}
  /\ phase = "open"

IsComplete(a) == load[a].at = "done"

InFlight(a) ==
  IF a \in Textures THEN Cardinality(m_futures \cap Textures) >= TextureLimit
                    ELSE Cardinality(m_futures \cap Meshes) >= MeshLimit

-----------------------------------------------------------------------------
(* The render tasklet: ensure_texture(), ensure_mesh() *)

(* Mutant of EnsureCollects: the future stays in the map. *)
EnsureCollectsKeeps(a) ==
  /\ phase = "open"
  /\ m_loaded[a] = NotLoaded /\ a \in m_futures /\ IsComplete(a)
  /\ m_loaded' = [m_loaded EXCEPT ![a] = load[a].result]
  /\ UNCHANGED <<queueVars, load, m_futures, images, heads, gpu, phase>>

(* The future is complete: its result is kept. *)
EnsureCollects(a) ==
  /\ phase = "open"
  /\ m_loaded[a] = NotLoaded /\ a \in m_futures /\ IsComplete(a)
  /\ m_loaded' = [m_loaded EXCEPT ![a] = load[a].result]
  /\ m_futures' = m_futures \ {a}
  /\ UNCHANGED <<queueVars, load, images, heads, gpu, phase>>

(* Nobody has asked for it, and there is room: its load is scheduled. *)
EnsureSchedules(a) ==
  /\ phase = "open"
  /\ m_loaded[a] = NotLoaded /\ a \notin m_futures /\ ~InFlight(a)
  /\ load' = [load EXCEPT ![a].at = "scheduled"]
  /\ m_futures' = m_futures \cup {a}
  /\ UNCHANGED <<queueVars, m_loaded, images, heads, gpu, phase>>

(* In every other case the caller is given what there is.  *)
Ensure(a) == EnsureCollects(a) \/ EnsureSchedules(a)

-----------------------------------------------------------------------------
(* The load tasklets *)

Finish(a, result) == load' = [load EXCEPT ![a] = [at |-> "done", cmd |-> 0, mips |-> 0, result |-> result]]

(* The asset is not in any package, or the header of the texture ends early. *)
OpenFails(a) ==
  /\ load[a].at = "scheduled"
  /\ Finish(a, IF a \in Textures THEN Fallback ELSE NoMesh)
  /\ UNCHANGED <<queueVars, maps, images, heads, gpu, phase>>

BeginTexture(a) ==
  /\ a \in Textures /\ load[a].at = "scheduled"
  /\ \E c \in CmdBufs : RequestCmdBuf(c, a, {}) /\ load' = [load EXCEPT ![a].at = "recording", ![a].cmd = c]
  /\ UNCHANGED <<maps, images, heads, gpu, phase>>

ReadMip(a) ==
  /\ a \in Textures /\ load[a].at = "recording" /\ load[a].mips < MipCount
  /\ BindAssociatedBuffer(load[a].cmd, <<a, load[a].mips>>)
  /\ load' = [load EXCEPT ![a].mips = @ + 1]
  /\ UNCHANGED <<maps, images, heads, gpu, phase>>

(* The stream ends early: the function returns, which destroys the staging *)
(* buffer of this mip, the command buffer and the image.                   *)
ReadMipFails(a) ==
  /\ a \in Textures /\ load[a].at = "recording" /\ load[a].mips < MipCount
  /\ DestroyCmdBuf(load[a].cmd)
  /\ Finish(a, Fallback)
  /\ UNCHANGED <<maps, images, heads, gpu, phase>>

SubmitTexture(a) ==
  /\ a \in Textures /\ load[a].at = "recording" /\ load[a].mips = MipCount
  /\ SubmitCmdBuf(load[a].cmd)
  /\ load' = [load EXCEPT ![a].at = "submitted"]
  /\ UNCHANGED <<maps, images, heads, gpu, phase>>

(* Mutant of SetDescriptor: it is written behind the last one written. *)
SetDescriptorAtLast(a, written) ==
  written = [i \in DOMAIN descriptors \cup {Len(m_images)} |-> IF i = Len(m_images) THEN a ELSE descriptors[i]]

(* set_descriptor() asks for the offset of the binding in m_set_layout.    *)
(* Of a layout that has been destroyed it is undefined: it may still be    *)
(* right, or the descriptor goes anywhere, over the others or elsewhere.   *)
SetDescriptor(a, written) ==
  \/ written = Append(descriptors, a)
  \/ ~LayoutExists /\ written = Undefined

(* Under m_images_mutex: the image, its index and its descriptor. *)
PublishTexture(a) ==
  /\ a \in Textures /\ load[a].at = "submitted"
  /\ m_images' = Append(m_images, a)
  /\ SetDescriptor(a, descriptors')
  /\ Finish(a, [index |-> Len(m_images)])
  /\ UNCHANGED <<queueVars, maps, heads, gpu, phase>>

(* load_mesh() takes its place in the vertex buffer, then in the index     *)
(* buffer; another mesh may come in between.                               *)
TakeVertices(a) ==
  /\ a \in Meshes /\ load[a].at = "scheduled"
  /\ load' = [load EXCEPT ![a].at = "vertices", ![a].result =
       [index_count |-> IndexBytes, vertex_offset |-> m_vertex_buffer_head, index_offset |-> 0]]
  /\ m_vertex_buffer_head' = m_vertex_buffer_head + VertexBytes
  /\ UNCHANGED <<queueVars, maps, images, buffer_size, m_index_buffer_head, gpu, phase>>

(* That both places are in the buffers is ensured after they were taken. *)
TakeIndices(a) ==
  /\ load[a].at = "vertices"
  /\ IF /\ load[a].result.vertex_offset + VertexBytes < buffer_size
        /\ m_index_buffer_head + IndexBytes < buffer_size
     THEN /\ load' = [load EXCEPT ![a].at = "placed", ![a].result.index_offset = m_index_buffer_head]
          /\ UNCHANGED phase
     ELSE phase' = "stopped" /\ UNCHANGED load
  /\ m_index_buffer_head' = m_index_buffer_head + IndexBytes
  /\ UNCHANGED <<queueVars, maps, images, buffer_size, m_vertex_buffer_head, gpu>>

(* The two copies are recorded from one staging buffer. *)
RecordMesh(a) ==
  /\ load[a].at = "placed"
  /\ \E c \in CmdBufs :
       /\ RequestCmdBuf(c, a, {<<a, 0>>})
       /\ load' = [load EXCEPT ![a].at = "recording", ![a].cmd = c]
  /\ UNCHANGED <<maps, images, heads, gpu, phase>>

SubmitMesh(a) ==
  /\ a \in Meshes /\ load[a].at = "recording"
  /\ SubmitCmdBuf(load[a].cmd)
  /\ load' = [load EXCEPT ![a].at = "awaiting"]
  /\ UNCHANGED <<maps, images, heads, gpu, phase>>

(* await(): the continuation has given the command buffer back. *)
AwaitMesh(a) ==
  /\ load[a].at = "awaiting" /\ ~Submitted(a)
  /\ Finish(a, load[a].result)
  /\ UNCHANGED <<queueVars, maps, images, heads, gpu, phase>>

Running == phase # "stopped"

Load(a) ==
  /\ Running
  /\ \/ OpenFails(a)
     \/ BeginTexture(a) \/ ReadMip(a) \/ ReadMipFails(a) \/ SubmitTexture(a) \/ PublishTexture(a)
     \/ TakeVertices(a) \/ TakeIndices(a) \/ RecordMesh(a) \/ SubmitMesh(a) \/ AwaitMesh(a)

-----------------------------------------------------------------------------
(* The GPU and the continuations *)

GpuExecutes(q) ==
  /\ Running /\ Execute(q)
  /\ gpu' = gpu \cup {Head(work[q]).user}
  /\ UNCHANGED <<load, maps, images, heads, phase>>

Recycled(c) == Running /\ Recycle(c) /\ UNCHANGED assetVars

-----------------------------------------------------------------------------
(* The end *)

Enter(from, to) ==
  /\ phase = from /\ phase' = to
  /\ UNCHANGED <<queueVars, load, maps, images, heads, gpu>>

(* After the last frame ~TextureStreamer() destroys m_set_layout and then  *)
(* waits for the loads that are left.                                      *)
DestroyLayout == Enter("open", "texture_loads")

DestroyTextures == (\A a \in m_futures \cap Textures : IsComplete(a)) /\ Enter("texture_loads", "mesh_loads")

(* ~MeshStreamer() *)
DestroyMeshes == (\A a \in m_futures \cap Meshes : IsComplete(a)) /\ Enter("mesh_loads", "destroyed")

Destroy == DestroyTextures \/ DestroyMeshes

StreamingNext ==
  \/ \E a \in Assets : Ensure(a) \/ Load(a)
  \/ \E q \in HwQueues : GpuExecutes(q)
  \/ \E c \in CmdBufs : Recycled(c)
  \/ DestroyLayout \/ Destroy

(* Tasklets that are ready run, the GPU executes what it was given, and a  *)
(* visible asset is asked for in every frame.                              *)
Fairness ==
  /\ \A a \in Assets : WF_streamingVars(Ensure(a)) /\ WF_streamingVars(Load(a))
  /\ WF_streamingVars(\E q \in HwQueues : GpuExecutes(q))
  /\ WF_streamingVars(\E c \in CmdBufs : Recycled(c))
  /\ WF_streamingVars(Destroy)

StreamingSpec == StreamingInit /\ [][StreamingNext]_streamingVars /\ Fairness

-----------------------------------------------------------------------------
(* Properties *)

Buffers(jobs) == [i \in DOMAIN jobs |-> jobs[i].cmd]

(* A command buffer is in one place: the list of buffers to hand out holds *)
(* the reset ones, each once; the hardware queues hold those that execute, *)
(* each in one queue; and no two users record the same buffer.             *)
BufferInOnePlace ==
  /\ IsInjective(m_buffers)
  /\ ToSet(m_buffers) = {c \in CmdBufs : place[c] = "available"}
  /\ \A c \in CmdBufs :
       /\ (place[c] = "executing") <=> (\E q \in HwQueues : Contains(Buffers(work[q]), c))
       /\ place[c] \in {"available", "none"} <=> user[c] = Nobody
       /\ associated[c] # {} => place[c] \in {"recording", "executing", "signalled"}
  /\ \A q \in HwQueues : IsInjective(Buffers(work[q]))

StagingOf(a) == {<<a, m>> : m \in 0 .. IF a \in Textures THEN MipCount - 1 ELSE 0}

(* What the GPU copies from exists until it has executed the copy, and no  *)
(* staging buffer is left over when its upload is through or has failed.   *)
StagingOutlivesCopy ==
  /\ \A q \in HwQueues : \A i \in DOMAIN work[q] :
       work[q][i].reads = StagingOf(work[q][i].user) /\ work[q][i].reads \subseteq staging
  /\ \A s \in staging : \E c \in CmdBufs :
       user[c] = s[1] /\ place[c] \in {"recording", "executing", "signalled"}

(* A command buffer is in one place, and takes its staging buffers along.  *)
BuffersSound == BufferInOnePlace /\ StagingOutlivesCopy

(* An index the renderer was given shows the image of its own texture, or  *)
(* the error image if the load failed; no two textures share an index.     *)
(* Nobody draws any more when the layout is destroyed.                     *)
IndexShowsItsTexture ==
  /\ LayoutExists => descriptors = m_images
  /\ \A a \in Textures : m_loaded[a] \notin {NotLoaded, Fallback} =>
       /\ m_loaded[a].index \in 2 .. Len(m_images) - 1
       /\ m_images[m_loaded[a].index + 1] = a

RangesOf(a) ==
  [vertices |-> load[a].result.vertex_offset .. load[a].result.vertex_offset + VertexBytes - 1,
   indices  |-> load[a].result.index_offset .. load[a].result.index_offset + IndexBytes - 1]

(* A mesh is drawn from data the GPU has copied, and meshes that loaded at *)
(* the same time are inside the vertex and the index buffer and do not     *)
(* overlap there.                                                          *)
MeshDrawnFromCopiedData ==
  /\ \A a \in Meshes : m_loaded[a] \notin {NotLoaded, NoMesh} =>
       a \in gpu /\ RangesOf(a).vertices \cup RangesOf(a).indices \subseteq 0 .. buffer_size - 1
  /\ \A a, b \in {m \in Meshes : m_loaded[m] \notin {NotLoaded, NoMesh}} : a # b =>
       /\ RangesOf(a).vertices \cap RangesOf(b).vertices = {}
       /\ RangesOf(a).indices \cap RangesOf(b).indices = {}

(* No load tasklet uses a streamer that has been destroyed. *)
NoLoadOutlivesStreamer ==
  /\ phase \in {"mesh_loads", "destroyed"} => \A a \in Textures : load[a].at \in {"none", "done"}
  /\ phase = "destroyed" => \A a \in Meshes : load[a].at \in {"none", "done"}

(* What the renderer is given to draw with is what was loaded, and nobody  *)
(* loads for a streamer that is gone.                                      *)
DrawnAssetsReady == IndexShowsItsTexture /\ MeshDrawnFromCopiedData /\ NoLoadOutlivesStreamer

(* The command buffers and the streamers keep what they promise.           *)
StreamingSound == BuffersSound /\ DrawnAssetsReady

(* Every asset that stays visible is loaded in the end or is known to      *)
(* fail, however few loads may be in flight, unless the program closes.    *)
EveryAssetArrives == <>(phase # "open" \/ \A a \in Assets : m_loaded[a] # NotLoaded)

(* texture_streamer.cc:139, "Wait for any in progress uploads to complete":*)
(* ~TextureStreamer() waits for its loads, so that they find what they     *)
(* use: no load is about to write its descriptor when the layout is gone.  *)
LayoutOutlivesLoads == ~LayoutExists /\ Running => \A a \in Textures : load[a].at # "submitted"

=============================================================================
