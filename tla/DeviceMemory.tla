----------------------------- MODULE DeviceMemory -----------------------------
(***************************************************************************)
(* Device memory (engine/sources/vulkan/memory.cc), in two parts.          *)
(*                                                                         *)
(* vk::MemoryPool is a TLSF allocator over a region of fixed size.  A pool *)
(* is a value, and the operations of the class map pools to pools:         *)
(*   phys   the physical list from m_root_block on (a circle in the code), *)
(*          one record per block;                                          *)
(*   lists  m_free_map: per size class the offsets of its free blocks,     *)
(*          most recently linked first;                                    *)
(*   bits   m_fl_bitset and m_sl_bitsets: the classes marked as occupied;  *)
(*   used   m_used_size.                                                   *)
(* A block is named by its offset, a class by its first and second level.  *)
(*                                                                         *)
(* vk::DeviceMemoryAllocator, with its DeviceMemoryHeaps and               *)
(* DeviceMemoryPools, is a state machine.  Tasklets allocate memory for    *)
(* buffers and images and give it back: the allocator tries the memory     *)
(* types from the best to the worst, a heap tries a chunk for the          *)
(* resource alone, its pools, a new pool, and the driver may refuse every  *)
(* chunk and every binding.                                                *)
(*                                                                         *)
(* What a heap does while it holds m_mutex is one step: nobody else sees   *)
(* the pools, and of what it asks the driver only the answer matters.      *)
(***************************************************************************)
EXTENDS Integers, SequencesExt, FiniteSetsExt

CONSTANTS
  MinSize,         (* k_minimum_allocation_size                           *)
  SlCount,         (* k_sl_count                                          *)
  WordSize,        (* number of values of a uint32_t                      *)
  Resources,       (* buffers and images                                  *)
  Chunks,          (* bound: names of VkDeviceMemory objects              *)
  TypeFlags,       (* property flags of each memory type, a sequence      *)
  PoolSize,        (* m_pool_size, the same for all heaps                 *)
  LargeSize,       (* sizes from which a chunk of its own is preferred    *)
  AlignmentLimit,  (* alignment_limit of DeviceMemoryPool::allocate       *)
  Granularity,     (* m_buffer_image_granularity                          *)
  Requests,        (* bound: the requirements and flags asked for         *)
  PoolAttempts     (* shifts of the pool size that are tried, 0 .. 4      *)

(* The powers of two that a word has, and two more. *)
Power[n \in 0 .. 34] == IF n = 0 THEN 1 ELSE 2 * Power[n - 1]

ASSUME PoolAssumption ==
  /\ \E n \in 1 .. 8 : MinSize = Power[n]
  /\ \E n \in 0 .. 5 : SlCount = Power[n]
  /\ SlCount <= MinSize /\ MinSize < WordSize
  /\ \E n \in 1 .. 32 : WordSize = Power[n]

(* Chunks and memory types have numbers.  Alignments are powers of two.    *)
(* Pools are small enough for the sizes that are searched for; whether     *)
(* they are large enough and how the minimum size divides them is left     *)
(* open, as it is by the heaps (see PoolsFit).                             *)
ASSUME DeviceAssumption ==
  /\ IsFiniteSet(Resources) /\ Chunks \subseteq Nat \ {0}
  /\ Len(TypeFlags) \in Nat /\ DOMAIN TypeFlags = 1 .. Len(TypeFlags) /\ \A t \in DOMAIN TypeFlags : IsFiniteSet(TypeFlags[t])
  /\ PoolSize \in Nat /\ AlignmentLimit \in Nat \ {0} /\ PoolSize + AlignmentLimit <= WordSize
  /\ PoolAttempts \subseteq 0 .. 4
  /\ \E n \in 0 .. 32 : Granularity = Power[n]
  /\ \A r \in Requests :
       /\ r.size \in Nat \ {0} /\ r.types \subseteq DOMAIN TypeFlags
       /\ \E n \in 0 .. 32 : r.alignment = Power[n]

NoBlock == [pool |-> "none"]    (* nullptr                                  *)

(* Of all sizes, those that are rounded up included. *)
Log2 == [n \in 1 .. 2 * WordSize |-> CHOOSE k \in 0 .. 33 : n \div Power[k] = 1]
AlignUp(n, a) == ((n + a - 1) \div a) * a

-----------------------------------------------------------------------------
(* Size classes, ordered by first and then by second level. *)

FlCount == Log2[WordSize] - Log2[MinSize]
Classes == (0 .. FlCount - 1) \X (0 .. SlCount - 1)

SizeClass(size) ==
  <<Log2[size] - Log2[MinSize], (size \div Power[Log2[size] - Log2[SlCount]]) % SlCount>>

AtLeast(c, d) == c[1] > d[1] \/ (c[1] = d[1] /\ c[2] >= d[2])

(* A block of this size holds the request however it is misaligned, and so *)
(* does every block of its class.                                          *)
SearchSize(size, alignment) ==
  LET worst == size + alignment - 1 IN AlignUp(worst, Power[Log2[worst] - Log2[SlCount]])

-----------------------------------------------------------------------------
IndexOf(pool, offset) == CHOOSE i \in DOMAIN pool.phys : pool.phys[i].offset = offset

Before(pool, i) == IF i = 1 THEN Len(pool.phys) ELSE i - 1
After(pool, i) == IF i = Len(pool.phys) THEN 1 ELSE i + 1

LinkBlock(pool, i) ==
  LET block == pool.phys[i]
      class == SizeClass(block.size)
  IN  [pool EXCEPT !.phys[i].free = TRUE,
                   !.lists[class] = <<block.offset>> \o @,
                   !.bits = @ \cup {class}]

Without(list, offset) == RemoveAt(list, CHOOSE k \in DOMAIN list : list[k] = offset)

UnlinkBlock(pool, i) ==
  LET block == pool.phys[i]
      class == SizeClass(block.size)
  IN  [pool EXCEPT !.phys[i].free = FALSE,
                   !.lists[class] = Without(@, block.offset),
                   !.bits = IF pool.lists[class] = <<block.offset>> THEN @ \ {class} ELSE @]

(* Block i is cut in two after size bytes; neither half is linked. *)
Cut(pool, i, size) ==
  LET block == pool.phys[i]
      rest  == [offset |-> block.offset + size, size |-> (block.size - size) % WordSize, free |-> FALSE]
  IN  [pool EXCEPT !.phys = InsertAt(ReplaceAt(@, i, [block EXCEPT !.size = size]), i + 1, rest)]

NewPool(size) ==
  LinkBlock([phys  |-> <<[offset |-> 0, size |-> size, free |-> FALSE]>>,
             lists |-> [c \in Classes |-> <<>>], bits |-> {}, used |-> 0], 1)

-----------------------------------------------------------------------------
(* allocate() *)

(* The bytes in front of the first aligned one become a free block. *)
AlignBlock(pool, i, alignment) ==
  LET offset  == pool.phys[i].offset
      padding == AlignUp(offset, alignment) - offset
  IN  IF padding = 0 THEN [pool |-> pool, at |-> i]
                     ELSE [pool |-> LinkBlock(Cut(pool, i, padding), i), at |-> i + 1]

(* The bytes behind the request become a free block if they are enough for *)
(* one; the subtraction is that of unsigned words.                         *)
SplitBlock(pool, i, size) ==
  LET aligned == AlignUp(size, MinSize)
  IN  IF (pool.phys[i].size - aligned) % WordSize < MinSize THEN pool
      ELSE LinkBlock(Cut(pool, i, aligned), i + 1)

(* The pool after the allocation and the offset of the block, or NoBlock. *)
Allocate(pool, request, alignment) ==
  LET size    == IF request < MinSize THEN MinSize ELSE request
      wanted  == SizeClass(SearchSize(size, alignment))
      classes == {c \in pool.bits : AtLeast(c, wanted)}
  IN  IF classes = {} THEN NoBlock ELSE
      LET class   == CHOOSE c \in classes : \A d \in classes : AtLeast(d, c)
          found   == IndexOf(pool, Head(pool.lists[class]))
          aligned == AlignBlock(UnlinkBlock(pool, found), found, alignment)
          split   == SplitBlock(aligned.pool, aligned.at, size)
          block   == split.phys[aligned.at]
      IN  [pool |-> [split EXCEPT !.used = @ + block.size], offset |-> block.offset]

-----------------------------------------------------------------------------
(* free() *)

(* Mutant of MergePrevious: the ends of the circle count as neighbours. *)
MergePreviousAround(pool, i) ==
  LET p     == Before(pool, i)
      prev  == pool.phys[p]
      block == [pool.phys[i] EXCEPT !.offset = (@ - prev.size) % WordSize, !.size = @ + prev.size]
  IN  IF prev.free
      THEN [pool |-> [UnlinkBlock(pool, p) EXCEPT !.phys = RemoveAt(ReplaceAt(@, i, block), p)],
            at   |-> IF p < i THEN i - 1 ELSE i]
      ELSE [pool |-> pool, at |-> i]

MergePrevious(pool, i) ==
  LET p     == Before(pool, i)
      prev  == pool.phys[p]
      block == [pool.phys[i] EXCEPT !.offset = (@ - prev.size) % WordSize, !.size = @ + prev.size]
  IN  IF prev.free /\ prev.offset < pool.phys[i].offset
      THEN [pool |-> [UnlinkBlock(pool, p) EXCEPT !.phys = RemoveAt(ReplaceAt(@, i, block), p)],
            at   |-> IF p < i THEN i - 1 ELSE i]
      ELSE [pool |-> pool, at |-> i]

MergeNext(pool, i) ==
  LET n     == After(pool, i)
      next  == pool.phys[n]
      block == [pool.phys[i] EXCEPT !.size = @ + next.size]
  IN  IF next.free /\ next.offset > pool.phys[i].offset
      THEN [pool |-> [UnlinkBlock(pool, n) EXCEPT !.phys = RemoveAt(ReplaceAt(@, i, block), n)],
            at   |-> IF n < i THEN i - 1 ELSE i]
      ELSE [pool |-> pool, at |-> i]

Free(pool, offset) ==
  LET i        == IndexOf(pool, offset)
      previous == MergePrevious([pool EXCEPT !.used = @ - pool.phys[i].size], i)
      both     == MergeNext(previous.pool, previous.at)
  IN  LinkBlock(both.pool, both.at)

-----------------------------------------------------------------------------
(* What must hold of every pool, for the properties of the modules that    *)
(* use pools.                                                              *)

BlocksOf(pool) == {pool.phys[i] : i \in DOMAIN pool.phys}
FreeBlocks(pool) == {b \in BlocksOf(pool) : b.free}
UsedBlocks(pool) == {b \in BlocksOf(pool) : ~b.free}

BytesOf(block) == block.offset .. block.offset + block.size - 1
UsedBytes(pool) == UNION {BytesOf(b) : b \in UsedBlocks(pool)}

(* The blocks follow one another from 0 to the total size, no two free     *)
(* blocks are neighbours, none is smaller than the minimum size, and it    *)
(* divides the places where they begin.                                    *)
Tiled(pool, total) ==
  /\ pool.phys # <<>>
  /\ pool.phys[1].offset = 0
  /\ LET last == pool.phys[Len(pool.phys)] IN last.offset + last.size = total
  /\ \A i \in DOMAIN pool.phys :
       /\ pool.phys[i].size >= MinSize
       /\ pool.phys[i].offset % MinSize = 0
       /\ i > 1 => /\ pool.phys[i].offset = pool.phys[i - 1].offset + pool.phys[i - 1].size
                   /\ ~(pool.phys[i].free /\ pool.phys[i - 1].free)

(* The lists hold the free blocks, each once and in the list of its class; *)
(* the bits mark the lists that are not empty; the used size is exact.     *)
ListsExact(pool) ==
  /\ \A c \in Classes :
       /\ IsInjective(pool.lists[c])
       /\ ToSet(pool.lists[c]) = {b.offset : b \in {f \in FreeBlocks(pool) : SizeClass(f.size) = c}}
       /\ c \in pool.bits <=> pool.lists[c] # <<>>
  /\ pool.bits \subseteq Classes
  /\ pool.used = Cardinality(UsedBytes(pool))

Valid(pool, total) == Tiled(pool, total) /\ ListsExact(pool)

-----------------------------------------------------------------------------
(* The allocator. *)

Types == DOMAIN TypeFlags
NoType == 0
None == [chunk |-> 0]
Dedicated == -1    (* the offset of an allocation without a block          *)

VARIABLES
  chunks,   (* size of every VkDeviceMemory that is allocated              *)
  pools,    (* per memory type, m_pools: their chunk, size and MemoryPool  *)
  held,     (* per resource, its DeviceMemoryAllocation or None            *)
  call      (* per resource, the call in progress on its behalf            *)

memoryVars == <<chunks, pools, held, call>>

Idle == [at |-> "idle"]

MemoryInit ==
  /\ chunks = <<>>
  /\ pools = [t \in Types |-> <<>>]
  /\ held = [a \in Resources |-> None]
  /\ call = [a \in Resources |-> Idle]

-----------------------------------------------------------------------------
(* find_best_type_index() *)

KnownFlags == {"DeviceLocal", "HostVisible", "HostCoherent", "HostCached"}
Unknown == (UNION {TypeFlags[t] : t \in Types}) \ KnownFlags

Wishes(flags) ==
  CASE "HostRandomAccess" \in flags ->
         [required |-> {"HostVisible"}, desirable |-> {"HostCached", "DeviceLocal"}, undesirable |-> Unknown]
    [] "HostSequentialWrite" \in flags /\ "HostRandomAccess" \notin flags ->
         IF "Staging" \in flags
         THEN [required |-> {"HostVisible"}, desirable |-> {},
               undesirable |-> Unknown \cup {"HostCached", "DeviceLocal"}]
         ELSE [required |-> {"HostVisible"}, desirable |-> {"DeviceLocal"},
               undesirable |-> Unknown \cup {"HostCached"}]
    [] OTHER ->
         [required |-> {"DeviceLocal"}, desirable |-> {}, undesirable |-> Unknown \cup {"HostVisible"}]

Cost(t, wishes) ==
  Cardinality(wishes.desirable \ TypeFlags[t]) + Cardinality(wishes.undesirable \cap TypeFlags[t])

BestType(flags, types) ==
  LET wishes   == Wishes(flags)
      suitable == {t \in types : wishes.required \subseteq TypeFlags[t]}
      cheapest == {t \in suitable : \A u \in suitable : Cost(t, wishes) <= Cost(u, wishes)}
  IN  IF suitable = {} THEN NoType ELSE Min(cheapest)

-----------------------------------------------------------------------------
(* The calls *)

PrefersDedicated(request) == request.size >= LargeSize \/ "PreferDedicated" \in request.flags

(* The call goes on with the best of the types left, or returns nothing. *)
Trying(request, types) ==
  LET type == BestType(request.flags, types)
  IN  IF type = NoType THEN Idle
      ELSE [at |-> IF PrefersDedicated(request) THEN "dedicated" ELSE "pools",
            request |-> request, types |-> types, type |-> type]

NextType(c) == Trying(c.request, c.types \ {c.type})

(* allocate_for(): the requirements of the resource and the flags. *)
AllocateFor(a, request) ==
  /\ call[a] = Idle /\ held[a] = None
  /\ call' = [call EXCEPT ![a] = Trying(request, request.types)]
  /\ UNCHANGED <<chunks, pools, held>>

(* allocate_device_memory(): the driver has a chunk for us. *)
NewChunk == Min(Chunks \ DOMAIN chunks)

ChunkGiven(size) ==
  /\ Chunks # DOMAIN chunks
  /\ chunks' = [c \in DOMAIN chunks \cup {NewChunk} |-> IF c = NewChunk THEN size ELSE chunks[c]]

(* vkFreeMemory(). *)
ChunkFreed(chunk) == chunks' = [c \in DOMAIN chunks \ {chunk} |-> chunks[c]]

(* The call has its memory and binds the resource to it; an allocation     *)
(* that cannot be bound is destroyed at once.                              *)
Obtain(a, chunk, offset) ==
  /\ held' = [held EXCEPT ![a] =
       [chunk |-> chunk, offset |-> offset, type |-> call[a].type,
        size |-> call[a].request.size, alignment |-> call[a].request.alignment]]
  /\ \E next \in {Idle, [at |-> "free"]} : call' = [call EXCEPT ![a] = next]

AllocateDedicated(a) ==
  /\ call[a].at \in {"dedicated", "fallback"}
  /\ ChunkGiven(call[a].request.size)
  /\ Obtain(a, NewChunk, Dedicated)
  /\ UNCHANGED pools

DedicatedRefused(a) ==
  /\ call[a].at \in {"dedicated", "fallback"}
  /\ call' = [call EXCEPT ![a] = IF @.at = "dedicated" THEN [@ EXCEPT !.at = "pools"] ELSE NextType(@)]
  /\ UNCHANGED <<chunks, pools, held>>

AlignmentOf(request) == IF request.alignment < Granularity THEN Granularity ELSE request.alignment

(* Nothing in the heaps sees to it that the minimum size divides a pool,   *)
(* and a last block with the rest of the division may be large enough for  *)
(* a size and not for the size rounded up: split_block() then subtracts    *)
(* more than there is.  That cannot be where the alignment or the width of *)
(* a size class is a minimum size, or where rounding adds few bytes.       *)
RoundingFits(total, size, alignment) ==
  \/ alignment >= MinSize
  \/ size >= SlCount * MinSize
  \/ AlignUp(size, MinSize) - size + (total % MinSize) < MinSize

(* The pools that a heap may create hold a block and suit the requests:    *)
(* what the heaps take for granted.                                        *)
PoolsFit ==
  \A shift \in PoolAttempts :
    LET total == PoolSize \div Power[shift] IN
    /\ total >= MinSize
    /\ \A request \in Requests :
         RoundingFits(total, IF request.size < MinSize THEN MinSize ELSE request.size, AlignmentOf(request))

(* DeviceMemoryPool::allocate(). *)
PoolAllocate(entry, request) ==
  IF request.size >= entry.size \/ AlignmentOf(request) > AlignmentLimit THEN NoBlock
  ELSE Allocate(entry.pool, request.size, AlignmentOf(request))

Fitting(t, request) == {i \in DOMAIN pools[t] : PoolAllocate(pools[t][i], request) # NoBlock}

AllocateFromPool(a) ==
  LET t == call[a].type
      i == Min(Fitting(t, call[a].request))
      found == PoolAllocate(pools[t][i], call[a].request)
  IN  /\ call[a].at = "pools"
      /\ Fitting(t, call[a].request) # {}
      /\ pools' = [pools EXCEPT ![t][i].pool = found.pool]
      /\ Obtain(a, pools[t][i].chunk, found.offset)
      /\ UNCHANGED chunks

(* The heap has no memory for the request; a chunk of its own is the last  *)
(* resort of a request that did not begin with it.                         *)
PoolsExhausted(c) == IF PrefersDedicated(c.request) THEN NextType(c) ELSE [c EXCEPT !.at = "fallback"]

(* A new pool of one of the sizes is added; the request may not fit in it. *)
CreatePool(a) ==
  LET t == call[a].type IN
  /\ call[a].at = "pools"
  /\ Fitting(t, call[a].request) = {}
  /\ \E shift \in PoolAttempts :
       LET size  == PoolSize \div Power[shift]
           entry == [chunk |-> NewChunk, size |-> size, pool |-> NewPool(size)]
           found == PoolAllocate(entry, call[a].request)
       IN  /\ ChunkGiven(size)
           /\ IF found # NoBlock
              THEN /\ pools' = [pools EXCEPT ![t] = Append(@, [entry EXCEPT !.pool = found.pool])]
                   /\ Obtain(a, NewChunk, found.offset)
              ELSE /\ pools' = [pools EXCEPT ![t] = Append(@, entry)]
                   /\ call' = [call EXCEPT ![a] = PoolsExhausted(@)]
                   /\ UNCHANGED held

PoolRefused(a) ==
  /\ call[a].at = "pools"
  /\ Fitting(call[a].type, call[a].request) = {}
  /\ call' = [call EXCEPT ![a] = PoolsExhausted(@)]
  /\ UNCHANGED <<chunks, pools, held>>

(* The resource is destroyed. *)
Release(a) ==
  /\ call[a] = Idle /\ held[a] # None
  /\ call' = [call EXCEPT ![a] = [at |-> "free"]]
  /\ UNCHANGED <<chunks, pools, held>>

FreeDedicated(a) ==
  /\ call[a].at = "free" /\ held[a].offset = Dedicated
  /\ ChunkFreed(held[a].chunk)
  /\ held' = [held EXCEPT ![a] = None]
  /\ call' = [call EXCEPT ![a] = Idle]
  /\ UNCHANGED pools

IsEmpty(entry) == entry.pool.used = 0
EmptyPools(ps) == {i \in DOMAIN ps : IsEmpty(ps[i])}

PoolIndex(ps, chunk) == CHOOSE i \in DOMAIN ps : ps[i].chunk = chunk

(* Mutant of WithoutPool: the last pool goes, whichever was meant. *)
WithoutLast(ps, i) == [rest |-> Front(ps), doomed |-> Last(ps).chunk]

(* Pool i is swapped with the last, which is taken. *)
WithoutPool(ps, i) == [rest |-> Front(ReplaceAt(ps, i, Last(ps))), doomed |-> ps[i].chunk]

(* Mutant of Shrunk: the search for an empty pool comes after the free. *)
ShrunkLate(before, after, i) ==
  LET spare == EmptyPools(after) # {}
  IN  CASE IsEmpty(after[i]) /\ spare -> WithoutPool(after, i)
        [] ~IsEmpty(after[i]) /\ spare /\ IsEmpty(Last(after)) -> WithoutPool(after, Len(after))
        [] OTHER -> [rest |-> after, doomed |-> 0]

(* The pools that remain when pool i has got a block back, and the chunk   *)
(* of the pool that goes: one empty pool is enough.                        *)
Shrunk(before, after, i) ==
  LET spare == EmptyPools(before) # {}
  IN  CASE IsEmpty(after[i]) /\ spare -> WithoutPool(after, i)
        [] ~IsEmpty(after[i]) /\ spare /\ IsEmpty(Last(after)) -> WithoutPool(after, Len(after))
        [] OTHER -> [rest |-> after, doomed |-> 0]

FreeBlock(a) ==
  LET t      == held[a].type
      before == pools[t]
      i      == PoolIndex(before, held[a].chunk)
      after  == [before EXCEPT ![i].pool = Free(@, held[a].offset)]
      shrunk == Shrunk(before, after, i)
  IN  /\ call[a].at = "free" /\ held[a].offset # Dedicated
      /\ pools' = [pools EXCEPT ![t] = shrunk.rest]
      /\ held' = [held EXCEPT ![a] = None]
      /\ call' = [call EXCEPT ![a] =
           IF shrunk.doomed = 0 THEN Idle ELSE [at |-> "destroy", chunk |-> shrunk.doomed]]
      /\ UNCHANGED chunks

(* The pool goes when the lock has been released. *)
DestroyPool(a) ==
  /\ call[a].at = "destroy"
  /\ ChunkFreed(call[a].chunk)
  /\ call' = [call EXCEPT ![a] = Idle]
  /\ UNCHANGED <<pools, held>>

Continue(a) ==
  \/ AllocateDedicated(a) \/ DedicatedRefused(a)
  \/ AllocateFromPool(a) \/ CreatePool(a) \/ PoolRefused(a)
  \/ FreeDedicated(a) \/ FreeBlock(a) \/ DestroyPool(a)

MemoryNext ==
  \E a \in Resources :
    \/ \E request \in Requests : AllocateFor(a, request)
    \/ Release(a)
    \/ Continue(a)

MemorySpec == MemoryInit /\ [][MemoryNext]_memoryVars

-----------------------------------------------------------------------------
(* Properties *)

PooledBlocks(t, entry) ==
  {held[a].offset : a \in {b \in Resources : held[b] # None /\ held[b].type = t
                                              /\ held[b].chunk = entry.chunk /\ held[b].offset # Dedicated}}

(* Every pool is what MemoryPool::validate() asks for, and more: tiled by  *)
(* its blocks, its free neighbours merged, its free lists, bits and used   *)
(* size exact, and its used blocks are those the resources hold.           *)
PoolsValid ==
  \A t \in Types : \A i \in DOMAIN pools[t] :
    LET entry == pools[t][i] IN
    /\ Valid(entry.pool, entry.size)
    /\ PooledBlocks(t, entry) = {b.offset : b \in UsedBlocks(entry.pool)}

Owners ==
  (UNION {{<<"pool", t, i>> : i \in DOMAIN pools[t]} : t \in Types})
  \cup {<<"resource", a>> : a \in {b \in Resources : held[b] # None /\ held[b].offset = Dedicated}}
  \cup {<<"call", a>> : a \in {b \in Resources : call[b].at = "destroy"}}

OwnedBy(o) ==
  CASE o[1] = "pool" -> pools[o[2]][o[3]].chunk
    [] o[1] = "resource" -> held[o[2]].chunk
    [] o[1] = "call" -> call[o[2]].chunk

(* Every chunk of device memory has exactly one owner: a pool, a resource  *)
(* that has it to itself, or the call that is about to free it; so none is *)
(* leaked when a call fails half-way, and none is freed twice.             *)
ChunksOwned ==
  /\ DOMAIN chunks = {OwnedBy(o) : o \in Owners}
  /\ \A o, p \in Owners : OwnedBy(o) = OwnedBy(p) => o = p

(* The smallest lower bound of a size class that is not below the size: a  *)
(* definition of the good fit that does not use the code's arithmetic.     *)
ClassFloors == {Power[k] + j * (Power[k] \div SlCount) : k \in Log2[MinSize] .. Log2[WordSize], j \in 0 .. SlCount - 1}
ClassFloor == [size \in 1 .. WordSize |-> Min({n \in ClassFloors : n >= size})]

(* TLSF's good fit, for every request that comes to a pool, in every state *)
(* of it: allocate() fails only if no free block could hold the request    *)
(* however misaligned it is and up to the width of a size class, and what  *)
(* it returns is aligned, large enough and was free.                       *)
GoodFit ==
  \A t \in Types : \A i \in DOMAIN pools[t] : \A request \in Requests :
    LET pool  == pools[t][i].pool
        alignment == AlignmentOf(request)
        size  == IF request.size < MinSize THEN MinSize ELSE request.size
        found == Allocate(pool, request.size, alignment)
    IN  request.size < pools[t][i].size /\ alignment <= AlignmentLimit =>
          IF found = NoBlock
          THEN \A b \in FreeBlocks(pool) : b.size < ClassFloor[size + alignment - 1]
          ELSE LET block == found.pool.phys[IndexOf(found.pool, found.offset)] IN
               /\ block.offset % alignment = 0
               /\ block.size >= request.size /\ block.size < AlignUp(size, MinSize) + MinSize
               /\ \E b \in FreeBlocks(pool) :
                    b.offset <= block.offset /\ block.offset + block.size <= b.offset + b.size

RangeOf(a) ==
  IF held[a] = None THEN None
  ELSE [chunk |-> held[a].chunk, offset |-> IF held[a].offset = Dedicated THEN 0 ELSE held[a].offset,
        size |-> held[a].size, alignment |-> held[a].alignment]

Abstract == INSTANCE MemoryAllocator WITH NoRange <- None, range <- [a \in Resources |-> RangeOf(a)]

(* No two resources share a byte of device memory, each has the size and   *)
(* the alignment it asked for, and no chunk is freed under a resource.     *)
ImplementsAllocator == Abstract!Spec

(* A heap keeps one empty pool in reserve and no more: the free that takes *)
(* the last block out of a pool leaves one empty pool, or as many as       *)
(* failed requests had left before; any other free leaves no more of them. *)
OneEmptyPoolKept ==
  [][\A a \in Resources : FreeBlock(a) =>
       LET before == Cardinality(EmptyPools(pools[held[a].type]))
           after  == Cardinality(EmptyPools(pools'[held[a].type]))
       IN  IF \E b \in Resources \ {a} : held[b].chunk = held[a].chunk THEN after <= before
           ELSE after = IF before = 0 THEN 1 ELSE before]_memoryVars

(* The heaps account for all of the device memory, by pool, block, chunk   *)
(* and owner, and find the free block of a good fit.                       *)
MemoryAccounted == PoolsValid /\ ChunksOwned /\ GoodFit

=============================================================================
