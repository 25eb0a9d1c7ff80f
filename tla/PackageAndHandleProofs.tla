------------------------ MODULE PackageAndHandleProofs ------------------------
(***************************************************************************)
(* Components in which nothing is lost, nothing is given out twice, and    *)
(* nothing is named that is not there.                                     *)
(*                                                                         *)
(* Packages survive crashes, whatever is in them.  While a writer is at    *)
(* work every block is where no other is (BlocksWithin, Pending), the      *)
(* blocks of an entry that is not finished are a chain of its first pieces *)
(* (Written), and the entries of the old package read back whole from the  *)
(* file that is being written, but for those of which the copy has missed  *)
(* a block (Writing).  When the writer has finished, the file has all      *)
(* entries of the old one (Replaces), so that each file the name may lead  *)
(* to after a crash is as whole as the copies were (Directory).            *)
(*                                                                         *)
(* No handle of ecs2 is returned twice, for any number of indices and      *)
(* versions.  A slot that does not hold its own index is vacant: free, or  *)
(* retired.  The links of vacant slots form a list although nothing says   *)
(* so: nothing links to an entity, and nothing is linked to twice          *)
(* (ListSound).  So a slot that is retired, which leaves the list, never   *)
(* comes back, and a slot in the list has a version that was not given yet *)
(* (Fresh).                                                                *)
(*                                                                         *)
(* What vpak makes of a glTF document resolves, whatever the document.     *)
(* convert() leaves a loop that awaits when all its futures are done, and  *)
(* they are all the jobs of the stage (Scheduled), so no scene is begun    *)
(* before all assets are done (ScenesLast).  By then each has left its     *)
(* entry, its path or its bounds (MaterialsKept, PrimitivesKept), and      *)
(* every part that a scene has built is as the document has it (GoodParts).*)
(***************************************************************************)
EXTENDS PackFile, EntityHandles, GltfConverter, FiniteSetTheorems, TLAPS

-----------------------------------------------------------------------------
(* Packages. *)

Entry == [name : Names, first : Nat, size : Nat]
Block == [name : Names, from : Nat, size : Nat, space : Nat \ {0}, next : Nat]
Stream == [left : Nat, first : Nat, link : Nat, block : Nat, space : Nat]

(* A file: its blocks are where nothing else is, behind the header and     *)
(* before limit.                                                           *)
FileTyped(file) ==
  /\ file = [blocks |-> file.blocks, table |-> file.table, end |-> file.end,
             synced |-> file.synced, cut |-> file.cut]
  /\ file.table \subseteq Entry /\ IsFiniteSet(file.table)
  /\ file.end \in Nat /\ file.synced \in BOOLEAN

BlocksWithin(blocks, limit) ==
  /\ DOMAIN blocks \subseteq Nat /\ blocks \in [DOMAIN blocks -> Block]
  /\ \A o \in DOMAIN blocks : HeaderSize <= o /\ o + blocks[o].space <= limit

(* All entries read back whole, but for some. *)
AllRead(blocks, table, cut) == \A entry \in table : entry.name \in cut \/ ReadsWhole(blocks, entry)

(* A file that was committed, or none. *)
Committed(file) ==
  /\ FileTyped(file) /\ BlocksWithin(file.blocks, file.end) /\ file.synced
  /\ AllRead(file.blocks, file.table, file.cut)
  /\ file = Absent \/ HeaderSize <= file.end

Directory == Committed(path) /\ \A file \in survivors : Committed(file)

(* The blocks that stream n has written: the first k pieces, in a chain. *)
Chain(blocks, n, k, place) ==
  \A i \in 1 .. k :
    /\ blocks[place[i]].name = n /\ blocks[place[i]].from = Left(n, i)
    /\ blocks[place[i]].size = InBlock(Left(n, i))
    /\ blocks[place[i]].next = IF i = k THEN NoLink ELSE place[i + 1]

Written(blocks, n, s, k) ==
  /\ s.left = (IF k = BlockCount(n) THEN 0 ELSE Left(n, k + 1))
  /\ s.block # 0 => k < BlockCount(n)
  /\ \E place \in [1 .. k -> DOMAIN blocks] :
       /\ Chain(blocks, n, k, place)
       /\ s.first = IF k = 0 THEN s.block ELSE place[1]
       /\ s.link = IF k = 0 THEN 0 ELSE place[k]

(* The space that a stream has allocated and not written yet. *)
Pending(s, limit) == HeaderSize <= s.block /\ s.space # 0 /\ s.block + s.space <= limit

Writing ==
  /\ FileTyped(m_write_file) /\ m_head \in Nat
  /\ BlocksWithin(m_write_file.blocks, m_write_file.end)
  /\ HeaderSize <= m_head /\ m_write_file.end <= m_head
  /\ m_entries = path.table /\ m_new_entries \subseteq Entry /\ IsFiniteSet(m_new_entries)
  /\ AllRead(m_write_file.blocks, m_entries, m_write_file.cut) /\ AllRead(m_write_file.blocks, m_new_entries, {})
  /\ DOMAIN streams \subseteq Names /\ streams \in [DOMAIN streams -> Stream]
  /\ \A n \in DOMAIN streams : n \notin EntryNames(m_entries) /\ n \notin EntryNames(m_new_entries)
  /\ DOMAIN streams # {} \/ m_new_entries # {}

StreamsSound ==
  /\ \A n \in DOMAIN streams : \E k \in 0 .. BlockCount(n) : Written(m_write_file.blocks, n, streams[n], k)
  /\ \A n \in DOMAIN streams : streams[n].block # 0 =>
       /\ Pending(streams[n], m_head)
       /\ \A o \in DOMAIN m_write_file.blocks :
            ~Overlap(o, m_write_file.blocks[o].space, streams[n].block, streams[n].space)
       /\ \A l \in DOMAIN streams : l # n /\ streams[l].block # 0 =>
            ~Overlap(streams[l].block, streams[l].space, streams[n].block, streams[n].space)

(* The writer is finished: the file is as good as one that was committed,  *)
(* but for the sync, and replaces what the path has.                       *)
Replaces ==
  /\ FileTyped(m_write_file) /\ BlocksWithin(m_write_file.blocks, m_write_file.end)
  /\ AllRead(m_write_file.blocks, m_write_file.table, m_write_file.cut) /\ HeaderSize <= m_write_file.end
  /\ EntryNames(path.table) \subseteq EntryNames(m_write_file.table)
  /\ step # "finished" => m_write_file.synced

PackInv ==
  /\ step \in {"start", "writing", "finished", "synced", "unlinked", "linked", "done"}
  /\ Directory
  /\ step = "writing" => Writing /\ StreamsSound
  /\ step \in {"finished", "synced", "unlinked"} => Replaces


LEMMA PackDivision ==
  ASSUME NEW n \in Nat, NEW d \in Nat \ {0}
  PROVE  n \div d \in Nat /\ (n % d) \in 0 .. d - 1 /\ n = d * (n \div d) + (n % d)
<1> QED
  BY Z3

(* The pieces of an entry: all but the last are full. *)
LEMMA Pieces ==
  ASSUME NEW n \in Names
  PROVE  /\ BlockCount(n) \in Nat \ {0} /\ Left(n, 1) = Size[n]
         /\ \A i \in 1 .. BlockCount(n) :
              /\ Left(n, i) \in Nat \ {0}
              /\ i < BlockCount(n) => Left(n, i) > BlockSize /\ Left(n, i + 1) = Left(n, i) - BlockSize
              /\ i = BlockCount(n) => Left(n, i) <= BlockSize
<1> DEFINE s == Size[n]
           d == BlockSize
           c == BlockCount(n)
<1>1. s \in Nat \ {0} /\ d \in Nat \ {0}
  BY PackAssumption DEF Names
<1>2. c = (s + d - 1) \div d
  BY DEF BlockCount
<1>3. \A i : Left(n, i) = s - (i - 1) * d
  BY DEF Left
<1> HIDE DEF s, d, c
<1>4. c \in Nat /\ d * c <= s + d - 1 /\ s <= d * c
  <2>1. s + d - 1 \in Nat
    BY <1>1
  <2>2. PICK r \in 0 .. d - 1 : s + d - 1 = d * c + r
    BY <2>1, <1>1, <1>2, PackDivision
  <2>3. c \in Nat
    BY <2>1, <1>1, <1>2, PackDivision
  <2>4. d * c \in Int
    BY <2>3, <1>1
  <2> QED
    BY <2>2, <2>3, <2>4, <1>1
<1>5. c # 0
  BY <1>1, <1>4
<1>6. ASSUME NEW i \in 1 .. c
      PROVE  /\ s - (i - 1) * d \in Nat \ {0}
             /\ i < c => s - (i - 1) * d > d /\ s - i * d = s - (i - 1) * d - d
             /\ i = c => s - (i - 1) * d <= d
  <2>1. i * d = (i - 1) * d + d /\ (i - 1) * d \in Int /\ i * d \in Int /\ d * c = c * d
    BY <1>1, <1>4
  <2>2. c * d < s + d
    BY <1>1, <1>4, <2>1
  <2>3. i < c => i * d <= c * d - d
    <3>1. SUFFICES ASSUME i < c PROVE i * d <= c * d - d
      OBVIOUS
    <3>2. PICK r \in Nat : c = i + 1 + r
      <4>1. c - i - 1 \in Nat /\ c = i + 1 + (c - i - 1)
        BY <1>4, <3>1
      <4> QED
        BY <4>1
    <3>3. c * d = i * d + d + r * d /\ r * d \in Nat
      BY <3>2, <1>1
    <3> QED
      BY <3>3, <2>1, <1>1
  <2>4. CASE i < c
    BY <2>1, <2>2, <2>3, <2>4, <1>1, <1>4
  <2>5. CASE i = c
    BY <2>1, <2>2, <2>5, <1>1, <1>4
  <2> QED
    BY <2>4, <2>5, <1>4
<1>7. Left(n, 1) = s
  BY <1>1, <1>3
<1>8. \A i \in 1 .. c : i + 1 - 1 = i
  BY <1>4
<1> QED
  BY <1>3, <1>4, <1>5, <1>6, <1>7, <1>8 DEF s, d, c

(* Reading an entry depends on the blocks of that entry alone. *)
LEMMA ReadsSame ==
  ASSUME NEW old, NEW new, NEW entry, ReadsWhole(old, entry), DOMAIN old \subseteq DOMAIN new,
         \A o \in DOMAIN old : old[o].name = entry.name =>
           new[o].name = old[o].name /\ new[o].from = old[o].from /\ NextBlock(new[o]) = NextBlock(old[o])
  PROVE  ReadsWhole(new, entry)
<1> DEFINE count == BlockCount(entry.name)
<1>1. PICK place \in [1 .. count -> DOMAIN old] :
        /\ place[1] = entry.first
        /\ \A i \in 1 .. count :
             /\ old[place[i]].name = entry.name /\ old[place[i]].from = Left(entry.name, i)
             /\ NextBlock(old[place[i]]) = IF i = count THEN NoLink ELSE place[i + 1]
  BY DEF ReadsWhole
<1> HIDE DEF count
<1>2. place \in [1 .. count -> DOMAIN new]
  BY <1>1
<1>3. \A i \in 1 .. count : place[i] \in DOMAIN old
  BY <1>1
<1>4. /\ place[1] = entry.first
      /\ \A i \in 1 .. count :
           /\ new[place[i]].name = entry.name /\ new[place[i]].from = Left(entry.name, i)
           /\ NextBlock(new[place[i]]) = IF i = count THEN NoLink ELSE place[i + 1]
  BY <1>1, <1>3
<1> QED
  BY <1>2, <1>4 DEF count, ReadsWhole

LEMMA LinkedFacts ==
  ASSUME NEW blocks, blocks \in [DOMAIN blocks -> Block], NEW offset, NEW next \in Nat
  PROVE  /\ DOMAIN Linked(blocks, offset, next) = DOMAIN blocks
         /\ \A o \in DOMAIN blocks :
              /\ Linked(blocks, offset, next)[o] \in Block
              /\ Linked(blocks, offset, next)[o].name = blocks[o].name
              /\ Linked(blocks, offset, next)[o].from = blocks[o].from
              /\ Linked(blocks, offset, next)[o].size = blocks[o].size
              /\ Linked(blocks, offset, next)[o].space = blocks[o].space
              /\ o # offset => Linked(blocks, offset, next)[o] = blocks[o]
              /\ o = offset => Linked(blocks, offset, next)[o].next = next
<1> DEFINE linked == Linked(blocks, offset, next)
           Relinked(b) == [b EXCEPT !.next = next]
<1>1. CASE offset \notin DOMAIN blocks
  BY <1>1 DEF Linked, Block
<1>2. CASE offset \in DOMAIN blocks
  <2>1. linked = [blocks EXCEPT ![offset] = [@ EXCEPT !.next = next]]
    BY <1>2 DEF Linked
  <2>2. DOMAIN linked = DOMAIN blocks
    BY <2>1
  <2>3. \A o \in DOMAIN blocks : linked[o] = IF o = offset THEN Relinked(blocks[o]) ELSE blocks[o]
    BY <2>1
  <2>4. \A b \in Block : /\ Relinked(b) \in Block /\ Relinked(b).name = b.name
                         /\ Relinked(b).from = b.from /\ Relinked(b).size = b.size
                         /\ Relinked(b).space = b.space /\ Relinked(b).next = next
    BY DEF Block
  <2> HIDE DEF linked, Relinked
  <2>5. \A o \in DOMAIN blocks : blocks[o] \in Block
    OBVIOUS
  <2>6. \A o \in DOMAIN blocks :
              /\ linked[o] \in Block
              /\ linked[o].name = blocks[o].name
              /\ linked[o].from = blocks[o].from
              /\ linked[o].size = blocks[o].size
              /\ linked[o].space = blocks[o].space
              /\ o # offset => linked[o] = blocks[o]
              /\ o = offset => linked[o].next = next
    BY <2>3, <2>4, <2>5
  <2> QED
    BY <2>2, <2>6 DEF linked
<1> QED
  BY <1>1, <1>2

(* Nothing is lost when nothing is where it is written. *)
LEMMA OverwrittenFacts ==
  ASSUME NEW blocks, NEW offset, NEW length,
         \A o \in DOMAIN blocks : ~Overlap(o, blocks[o].space, offset, length)
  PROVE  /\ DOMAIN Overwritten(blocks, offset, length) = DOMAIN blocks
         /\ \A o \in DOMAIN blocks : Overwritten(blocks, offset, length)[o] = blocks[o]
<1> DEFINE kept == {o \in DOMAIN blocks : ~Overlap(o, blocks[o].space, offset, length)}
<1>1. kept = DOMAIN blocks
  OBVIOUS
<1>2. Overwritten(blocks, offset, length) = [o \in kept |-> blocks[o]]
  BY DEF Overwritten, Restrict
<1> QED
  BY <1>1, <1>2

LEMMA AbsentCommitted == Committed(Absent)
<1>1. DOMAIN Absent.blocks = {} /\ Absent.blocks \in [{} -> Block]
  BY DEF Absent
<1>2. FileTyped(Absent)
  BY FS_EmptySet DEF Absent, FileTyped
<1>3. BlocksWithin(Absent.blocks, Absent.end)
  BY <1>1 DEF BlocksWithin
<1>4. Absent.synced /\ AllRead(Absent.blocks, Absent.table, Absent.cut)
  BY DEF Absent, AllRead
<1> QED
  BY <1>2, <1>3, <1>4 DEF Committed

LEMMA PackInitInv == PackInit => PackInv
BY AbsentCommitted DEF PackInit, PackInv, Directory

(* A stream that has allocated, and one that has written. *)
LEMMA AllocatedFacts ==
  ASSUME NEW s \in Stream, NEW b \in Nat, NEW c \in Nat
  PROVE  /\ Allocated(s, b, c) \in Stream
         /\ Allocated(s, b, c).left = s.left /\ Allocated(s, b, c).link = s.link
         /\ Allocated(s, b, c).block = b /\ Allocated(s, b, c).space = c
         /\ Allocated(s, b, c).first = IF s.first = 0 THEN b ELSE s.first
BY DEF Stream, Allocated

LEMMA FlushedFacts ==
  ASSUME NEW s \in Stream
  PROVE  /\ Flushed(s) \in Stream /\ Flushed(s).left = s.left - InBlock(s.left)
         /\ Flushed(s).link = s.block /\ Flushed(s).block = 0
         /\ Flushed(s).space = s.space /\ Flushed(s).first = s.first
<1>1. InBlock(s.left) \in Nat /\ s.left - InBlock(s.left) \in Nat
  BY PackAssumption DEF InBlock, Stream
<1> HIDE DEF InBlock
<1> QED
  BY <1>1 DEF Stream, Flushed

(* What a copy that is cut short leaves: the blocks are where they were,   *)
(* and an entry of which a block is missing is known.                      *)
LEMMA CopiedFacts ==
  ASSUME NEW file, NEW end \in Nat, BlocksWithin(file.blocks, file.end), AllRead(file.blocks, file.table, file.cut)
  PROVE  /\ BlocksWithin(Copied(file, end).blocks, end)
         /\ AllRead(Copied(file, end).blocks, file.table, Copied(file, end).cut)
<1> DEFINE blocks == file.blocks
           kept == BlocksBefore(blocks, end)
<1>1. /\ Copied(file, end).blocks = kept
      /\ Copied(file, end).cut = file.cut \cup {blocks[o].name : o \in DOMAIN blocks \ DOMAIN kept}
  BY DEF Copied
<1>2. kept = [o \in {o \in DOMAIN blocks : o + blocks[o].space <= end} |-> blocks[o]]
  BY DEF BlocksBefore, Restrict
<1>3. /\ DOMAIN kept = {o \in DOMAIN blocks : o + blocks[o].space <= end} /\ DOMAIN kept \subseteq DOMAIN blocks
      /\ \A o \in DOMAIN kept : kept[o] = blocks[o]
  BY <1>2
<1>4. BlocksWithin(kept, end)
  BY <1>2, <1>3 DEF BlocksWithin
<1>5. ASSUME NEW entry, ReadsWhole(blocks, entry),
             \A o \in DOMAIN blocks : blocks[o].name = entry.name => o \in DOMAIN kept
      PROVE  ReadsWhole(kept, entry)
  <2> DEFINE count == BlockCount(entry.name)
  <2>1. PICK place \in [1 .. count -> DOMAIN blocks] :
          /\ place[1] = entry.first
          /\ \A i \in 1 .. count :
               /\ blocks[place[i]].name = entry.name /\ blocks[place[i]].from = Left(entry.name, i)
               /\ NextBlock(blocks[place[i]]) = IF i = count THEN NoLink ELSE place[i + 1]
    BY <1>5 DEF ReadsWhole
  <2> HIDE DEF count, kept
  <2>2. \A i \in 1 .. count : place[i] \in DOMAIN kept /\ kept[place[i]] = blocks[place[i]]
    BY <2>1, <1>3, <1>5
  <2>3. place \in [1 .. count -> DOMAIN kept]
    BY <2>1, <2>2
  <2>4. \A i \in 1 .. count :
          /\ kept[place[i]].name = entry.name /\ kept[place[i]].from = Left(entry.name, i)
          /\ NextBlock(kept[place[i]]) = IF i = count THEN NoLink ELSE place[i + 1]
    BY <2>1, <2>2
  <2> QED
    BY <2>1, <2>3, <2>4 DEF count, ReadsWhole
<1> HIDE DEF kept
<1>6. ASSUME NEW entry \in file.table, entry.name \notin Copied(file, end).cut
      PROVE  ReadsWhole(kept, entry)
  <2>1. ReadsWhole(blocks, entry)
    BY <1>1, <1>6 DEF AllRead
  <2>2. \A o \in DOMAIN blocks : blocks[o].name = entry.name => o \in DOMAIN kept
    BY <1>1, <1>6
  <2> QED
    BY <2>1, <2>2, <1>5
<1> QED
  BY <1>1, <1>4, <1>6 DEF AllRead

LEMMA MakeWriterInv ==
  ASSUME PackInv, NEW adding \in SUBSET Names, MakeWriter(adding)
  PROVE  PackInv'
<1>1. /\ step' = "writing" /\ path' = path /\ survivors' = survivors
      /\ m_entries' = path.table /\ m_new_entries' = {}
      /\ streams' = [n \in adding |-> [left |-> Size[n], first |-> 0, link |-> 0, block |-> 0, space |-> 0]]
  BY DEF MakeWriter
<1>2. Committed(path) /\ Directory' /\ HeaderSize \in Nat \ {0}
  BY <1>1, PackAssumption DEF PackInv, Directory
<1>3. /\ FileTyped(m_write_file') /\ m_head' \in Nat /\ HeaderSize <= m_head' /\ m_write_file'.end <= m_head'
      /\ BlocksWithin(m_write_file'.blocks, m_write_file'.end)
      /\ AllRead(m_write_file'.blocks, path.table, m_write_file'.cut)
  <2>1. CASE path = Absent
    <3>1. m_head' = HeaderSize /\ m_write_file' = [Absent EXCEPT !.synced = FALSE]
      BY <2>1 DEF MakeWriter
    <3>2. m_write_file' = [blocks |-> Absent.blocks, table |-> {}, end |-> 0, synced |-> FALSE, cut |-> {}]
      BY <3>1 DEF Absent
    <3>3. BlocksWithin(Absent.blocks, 0) /\ path.table = {}
      BY <2>1, AbsentCommitted DEF Committed, Absent
    <3>4. FileTyped(m_write_file') /\ m_write_file'.end = 0 /\ m_write_file'.blocks = Absent.blocks
      BY <3>2, FS_EmptySet DEF FileTyped
    <3>5. AllRead(m_write_file'.blocks, path.table, m_write_file'.cut)
      BY <3>3 DEF AllRead
    <3>6. 0 <= HeaderSize
      BY <1>2
    <3>7. m_head' \in Nat /\ HeaderSize <= m_head' /\ m_write_file'.end <= m_head'
      BY <1>2, <3>1, <3>4, <3>6
    <3> QED
      BY <3>3, <3>4, <3>5, <3>7
  <2>2. CASE path # Absent
    <3>1. PICK end \in HeaderSize .. path.end : m_head' = end /\ m_write_file' = Copied(path, end)
      BY <2>2 DEF MakeWriter
    <3>2. end \in Nat /\ HeaderSize <= end
      BY <1>2, <3>1
    <3>3. FileTyped(Copied(path, end)) /\ Copied(path, end).end = end
      BY <3>2, FS_EmptySet DEF Copied, FileTyped
    <3>4. BlocksWithin(Copied(path, end).blocks, end) /\ AllRead(Copied(path, end).blocks, path.table, Copied(path, end).cut)
      BY <1>2, <3>2, CopiedFacts DEF Committed
    <3> QED
      BY <3>1, <3>2, <3>3, <3>4
  <2> QED
    BY <2>1, <2>2
<1>4. Writing'
  <2>3. m_entries' = path'.table /\ m_new_entries' \subseteq Entry /\ IsFiniteSet(m_new_entries')
    BY <1>1, FS_EmptySet
  <2>4. AllRead(m_write_file'.blocks, m_entries', m_write_file'.cut) /\ AllRead(m_write_file'.blocks, m_new_entries', {})
    BY <1>1, <1>3 DEF AllRead
  <2>5. DOMAIN streams' = adding /\ adding \subseteq Names /\ adding # {}
    BY <1>1 DEF MakeWriter
  <2>6. \A n \in adding : Size[n] \in Nat
    BY PackAssumption DEF Names
  <2>7. streams' \in [adding -> Stream]
    BY <1>1, <2>6 DEF Stream
  <2>8. \A n \in adding : n \notin EntryNames(m_entries') /\ n \notin EntryNames(m_new_entries')
    BY <1>1 DEF MakeWriter, EntryNames
  <2> QED
    BY <1>1, <1>3, <2>3, <2>4, <2>5, <2>7, <2>8 DEF Writing
<1>5. ASSUME NEW n \in DOMAIN streams'
      PROVE  0 \in 0 .. BlockCount(n) /\ Written(m_write_file'.blocks, n, streams'[n], 0) /\ streams'[n].block = 0
  <2>1. n \in Names /\ n \in adding
    BY <1>1
  <2>2. BlockCount(n) \in Nat \ {0} /\ Left(n, 1) = Size[n]
    BY <2>1, Pieces
  <2>3. streams'[n] = [left |-> Size[n], first |-> 0, link |-> 0, block |-> 0, space |-> 0]
    BY <1>1, <2>1
  <2>4. \E place \in [1 .. 0 -> DOMAIN m_write_file'.blocks] : Chain(m_write_file'.blocks, n, 0, place)
    <3>1. PICK place \in [{} -> DOMAIN m_write_file'.blocks] : TRUE
      <4>1. [i \in {} |-> 0] \in [{} -> DOMAIN m_write_file'.blocks]
        OBVIOUS
      <4> QED
        BY <4>1
    <3>2. 1 .. 0 = {}
      OBVIOUS
    <3>3. Chain(m_write_file'.blocks, n, 0, place)
      BY <3>2 DEF Chain
    <3> QED
      BY <3>1, <3>2, <3>3
  <2>5. 0 # BlockCount(n) /\ streams'[n].left = Left(n, 0 + 1) /\ streams'[n].block = 0
        /\ streams'[n].first = 0 /\ streams'[n].link = 0
    BY <2>2, <2>3
  <2>6. PICK place \in [1 .. 0 -> DOMAIN m_write_file'.blocks] : Chain(m_write_file'.blocks, n, 0, place)
    BY <2>4
  <2>7. /\ streams'[n].first = IF 0 = 0 THEN streams'[n].block ELSE place[1]
        /\ streams'[n].link = IF 0 = 0 THEN 0 ELSE place[0]
    BY <2>5
  <2>8. /\ streams'[n].left = (IF 0 = BlockCount(n) THEN 0 ELSE Left(n, 0 + 1))
        /\ streams'[n].block # 0 => 0 < BlockCount(n)
    BY <2>5
  <2>9. Written(m_write_file'.blocks, n, streams'[n], 0)
    BY <2>6, <2>7, <2>8 DEF Written
  <2> QED
    BY <2>2, <2>5, <2>9
<1>6. StreamsSound'
  BY <1>5 DEF StreamsSound
<1> QED
  BY <1>1, <1>2, <1>4, <1>6 DEF PackInv

(* The blocks of a file are behind its header, which is not empty. *)
LEMMA BlockFacts ==
  ASSUME NEW blocks, NEW limit \in Nat, BlocksWithin(blocks, limit), NEW o \in DOMAIN blocks
  PROVE  /\ o \in Nat /\ o # 0 /\ HeaderSize <= o /\ o + blocks[o].space <= limit
         /\ blocks[o] \in Block /\ blocks[o].space \in Nat \ {0}
<1>1. blocks[o] \in Block
  BY DEF BlocksWithin
<1>2. o \in Nat /\ HeaderSize <= o /\ o + blocks[o].space <= limit
  BY DEF BlocksWithin
<1> QED
  BY <1>1, <1>2, PackAssumption DEF Block

LEMMA WritingFacts ==
  ASSUME PackInv, step = "writing"
  PROVE  /\ Writing /\ StreamsSound /\ Directory
         /\ m_head \in Nat /\ m_write_file.end \in Nat
         /\ \A n \in DOMAIN streams : n \in Names /\ streams[n] \in Stream
         /\ BlocksWithin(m_write_file.blocks, m_head)
<1>1. Writing /\ StreamsSound /\ Directory
  BY DEF PackInv
<1>2. m_head \in Nat /\ m_write_file.end \in Nat /\ m_write_file.end <= m_head
  BY <1>1 DEF Writing, FileTyped
<1>3. \A n \in DOMAIN streams : n \in Names /\ streams[n] \in Stream
  BY <1>1 DEF Writing
<1>4. BlocksWithin(m_write_file.blocks, m_write_file.end)
  BY <1>1 DEF Writing
<1>5. ASSUME NEW o \in DOMAIN m_write_file.blocks
      PROVE  HeaderSize <= o /\ o + m_write_file.blocks[o].space <= m_head
  BY <1>2, <1>4, BlockFacts
<1>6. BlocksWithin(m_write_file.blocks, m_head)
  BY <1>4, <1>5 DEF BlocksWithin
<1> QED
  BY <1>1, <1>2, <1>3, <1>6

LEMMA AllocateSpaceInv ==
  ASSUME PackInv, NEW n \in DOMAIN streams, NEW compressed \in Compressed, AllocateSpace(n, compressed)
  PROVE  PackInv'
<1>c. PICK length \in Nat : length = compressed + 1
  BY PackAssumption
<1> DEFINE s == streams[n]
           a == Allocated(s, m_head, length)
           blocks == m_write_file.blocks
<1>1. /\ step = "writing" /\ s.block = 0 /\ s.left > 0 /\ m_head' = m_head + compressed + 1
      /\ path' = path /\ survivors' = survivors /\ step' = step /\ m_entries' = m_entries
      /\ m_write_file' = m_write_file /\ m_new_entries' = m_new_entries
  BY <1>c, PackAssumption DEF AllocateSpace
<1>0. streams' = [streams EXCEPT ![n] = a]
  BY <1>c DEF AllocateSpace
<1>2. /\ Writing /\ StreamsSound /\ Directory /\ m_head \in Nat /\ m_write_file.end \in Nat
      /\ \A l \in DOMAIN streams : l \in Names /\ streams[l] \in Stream
      /\ BlocksWithin(blocks, m_head)
  BY <1>1, WritingFacts
<1>3. length \in Nat \ {0} /\ HeaderSize \in Nat \ {0} /\ HeaderSize <= m_head
  BY <1>2, <1>c, PackAssumption DEF Writing
<1>e. m_head' = m_head + length
  BY <1>1, <1>2, <1>c, PackAssumption
<1>d. s \in Stream /\ m_head \in Nat
  BY <1>2, <1>3
<1>4. /\ a \in Stream /\ a.left = s.left /\ a.link = s.link /\ a.block = m_head /\ a.space = length
      /\ a.first = IF s.first = 0 THEN m_head ELSE s.first
  <2> HIDE DEF s
  <2> QED
    BY <1>d, AllocatedFacts
<1> HIDE DEF a
<1>5. /\ DOMAIN streams' = DOMAIN streams /\ streams'[n] = a
      /\ \A l \in DOMAIN streams : l # n => streams'[l] = streams[l]
  BY <1>0
<1>6. Writing'
  <2>1. streams' \in [DOMAIN streams' -> Stream]
    <3>1. streams \in [DOMAIN streams -> Stream]
      BY <1>2 DEF Writing
    <3>2. a \in Stream
      BY <1>4
    <3> QED
      BY <1>0, <3>1, <3>2
  <2>2. m_head' \in Nat /\ HeaderSize <= m_head' /\ m_write_file'.end <= m_head'
    BY <1>e, <1>1, <1>2, <1>3 DEF Writing
  <2> QED
    BY <1>1, <1>2, <1>5, <2>1, <2>2 DEF Writing
<1>7. ASSUME NEW l \in DOMAIN streams
      PROVE  \E k \in 0 .. BlockCount(l) : Written(blocks, l, streams'[l], k)
  <2>1. PICK k \in 0 .. BlockCount(l) : Written(blocks, l, streams[l], k)
    BY <1>2 DEF StreamsSound
  <2>2. CASE l # n
    BY <2>1, <2>2, <1>5
  <2>3. CASE l = n
    <3>1. PICK place \in [1 .. k -> DOMAIN blocks] :
            /\ Chain(blocks, n, k, place)
            /\ s.first = IF k = 0 THEN s.block ELSE place[1]
            /\ s.link = IF k = 0 THEN 0 ELSE place[k]
      BY <2>1, <2>3 DEF Written
    <3>2. s.left = (IF k = BlockCount(n) THEN 0 ELSE Left(n, k + 1)) /\ BlockCount(n) \in Nat /\ k \in Nat
      BY <2>1, <2>3, <1>2, Pieces DEF Written
    <3>3. k < BlockCount(n)
      BY <3>2, <1>1, <2>3
    <3>4. a.first = IF k = 0 THEN a.block ELSE place[1]
      <4>1. CASE k = 0
        BY <4>1, <3>1, <1>1, <1>4
      <4>2. CASE k # 0
        <5>1. place[1] \in DOMAIN blocks /\ s.first = place[1]
          BY <4>2, <3>1, <3>2
        <5>2. place[1] # 0
          BY <5>1, <1>2, BlockFacts
        <5> QED
          BY <5>1, <5>2, <4>2, <1>4
      <4> QED
        BY <4>1, <4>2
    <3>5. Written(blocks, n, a, k)
      BY <3>1, <3>2, <3>3, <3>4, <1>4 DEF Written
    <3> QED
      BY <3>5, <2>1, <2>3, <1>5
  <2> QED
    BY <2>2, <2>3
<1>8. ASSUME NEW l \in DOMAIN streams, streams'[l].block # 0
      PROVE  /\ Pending(streams'[l], m_head')
             /\ \A o \in DOMAIN blocks : ~Overlap(o, blocks[o].space, streams'[l].block, streams'[l].space)
             /\ \A j \in DOMAIN streams : j # l /\ streams'[j].block # 0 =>
                  ~Overlap(streams'[j].block, streams'[j].space, streams'[l].block, streams'[l].space)
  <2>1. \A j \in DOMAIN streams : j # n /\ streams'[j].block # 0 => Pending(streams'[j], m_head)
    BY <1>2, <1>5 DEF StreamsSound
  <2>2. \A j \in DOMAIN streams : streams'[j] \in Stream
    BY <1>2, <1>4, <1>5
  <2>3. CASE l = n
    <3>1. Pending(a, m_head')
      BY <1>e, <1>3, <1>4, <1>2 DEF Pending
    <3>2. ASSUME NEW o \in DOMAIN blocks
          PROVE  ~Overlap(o, blocks[o].space, a.block, a.space)
      <4>1. o \in Nat /\ blocks[o].space \in Nat /\ o + blocks[o].space <= m_head
        BY <1>2, BlockFacts
      <4> QED
        BY <4>1, <1>2, <1>4 DEF Overlap
    <3>3. ASSUME NEW j \in DOMAIN streams, j # l, streams'[j].block # 0
          PROVE  ~Overlap(streams'[j].block, streams'[j].space, a.block, a.space)
      <4>1. Pending(streams'[j], m_head) /\ streams'[j].block \in Nat /\ streams'[j].space \in Nat
        BY <3>3, <2>1, <2>2, <2>3 DEF Stream
      <4> QED
        BY <4>1, <1>2, <1>4 DEF Overlap, Pending
    <3> QED
      BY <3>1, <3>2, <3>3, <2>3, <1>5
  <2>4. CASE l # n
    <3>1. Pending(streams'[l], m_head) /\ streams'[l].block \in Nat /\ streams'[l].space \in Nat
      BY <1>8, <2>4, <2>1, <2>2 DEF Stream
    <3>2. Pending(streams'[l], m_head')
      BY <3>1, <1>e, <1>2, <1>3 DEF Pending
    <3>3. \A o \in DOMAIN blocks : ~Overlap(o, blocks[o].space, streams'[l].block, streams'[l].space)
      BY <1>8, <2>4, <1>2, <1>5 DEF StreamsSound
    <3>4. ~Overlap(a.block, a.space, streams'[l].block, streams'[l].space)
      BY <3>1, <1>2, <1>4 DEF Overlap, Pending
    <3>5. \A j \in DOMAIN streams : j # l /\ j # n /\ streams'[j].block # 0 =>
            ~Overlap(streams'[j].block, streams'[j].space, streams'[l].block, streams'[l].space)
      BY <1>8, <2>4, <1>2, <1>5 DEF StreamsSound
    <3> QED
      BY <3>2, <3>3, <3>4, <3>5, <1>5
  <2> QED
    BY <2>3, <2>4
<1>9. StreamsSound'
  <2> HIDE DEF blocks
  <2>1. m_write_file'.blocks = blocks
    BY <1>1 DEF blocks
  <2> QED
    BY <1>5, <1>7, <1>8, <2>1 DEF StreamsSound
<1> QED
  BY <1>1, <1>2, <1>6, <1>9 DEF PackInv, Directory, Committed

(* A block written where nothing is: the others stay, and one is linked to it. *)
Stored(blocks, link, offset, data) ==
  LET kept == Overwritten(Linked(blocks, link, offset), offset, data.space)
  IN  [o \in DOMAIN kept \cup {offset} |-> IF o = offset THEN data ELSE kept[o]]

LEMMA StoredFacts ==
  ASSUME NEW blocks, NEW limit \in Nat, BlocksWithin(blocks, limit), NEW link \in Nat, NEW offset \in Nat,
         NEW data \in Block, NEW further \in Nat, limit <= further, HeaderSize <= offset, offset + data.space <= further,
         \A o \in DOMAIN blocks : ~Overlap(o, blocks[o].space, offset, data.space)
  PROVE  LET stored == Stored(blocks, link, offset, data)
         IN  /\ offset \notin DOMAIN blocks /\ DOMAIN stored = DOMAIN blocks \cup {offset} /\ stored[offset] = data
             /\ \A o \in DOMAIN blocks :
                  /\ stored[o].name = blocks[o].name /\ stored[o].from = blocks[o].from
                  /\ stored[o].size = blocks[o].size /\ stored[o].space = blocks[o].space
                  /\ o # link => stored[o] = blocks[o]
                  /\ o = link => stored[o].next = offset
             /\ BlocksWithin(stored, further)
<1> DEFINE linked == Linked(blocks, link, offset)
           kept == Overwritten(linked, offset, data.space)
           stored == Stored(blocks, link, offset, data)
<1>1. blocks \in [DOMAIN blocks -> Block]
  BY DEF BlocksWithin
<1>2. /\ DOMAIN linked = DOMAIN blocks
      /\ \A o \in DOMAIN blocks :
           /\ linked[o] \in Block
           /\ linked[o].name = blocks[o].name /\ linked[o].from = blocks[o].from
           /\ linked[o].size = blocks[o].size /\ linked[o].space = blocks[o].space
           /\ o # link => linked[o] = blocks[o]
           /\ o = link => linked[o].next = offset
  BY <1>1, LinkedFacts
<1>3. stored = [o \in DOMAIN kept \cup {offset} |-> IF o = offset THEN data ELSE kept[o]]
  BY DEF Stored
<1> HIDE DEF linked
<1>4. \A o \in DOMAIN linked : ~Overlap(o, linked[o].space, offset, data.space)
  BY <1>2
<1>5. DOMAIN kept = DOMAIN linked /\ \A o \in DOMAIN linked : kept[o] = linked[o]
  BY <1>4, OverwrittenFacts
<1> HIDE DEF kept, stored
<1>6. data.space \in Nat \ {0}
  BY DEF Block
<1>7. offset \notin DOMAIN blocks
  <2>1. SUFFICES ASSUME offset \in DOMAIN blocks PROVE FALSE
    OBVIOUS
  <2>2. blocks[offset].space \in Nat \ {0}
    BY <2>1, BlockFacts
  <2>3. Overlap(offset, blocks[offset].space, offset, data.space)
    BY <2>2, <1>6 DEF Overlap
  <2> QED
    BY <2>1, <2>3
<1>8. DOMAIN stored = DOMAIN blocks \cup {offset} /\ stored[offset] = data
  BY <1>2, <1>3, <1>5
<1>9. \A o \in DOMAIN blocks : stored[o] = linked[o]
  BY <1>2, <1>3, <1>5, <1>7
<1>10. \A o \in DOMAIN stored : stored[o] \in Block
  BY <1>2, <1>8, <1>9
<1>11. stored \in [DOMAIN stored -> Block]
  BY <1>3, <1>8, <1>10
<1>12. \A o \in DOMAIN stored : o \in Nat /\ HeaderSize <= o /\ o + stored[o].space <= further
  <2>1. ASSUME NEW o \in DOMAIN blocks
        PROVE  o \in Nat /\ HeaderSize <= o /\ o + stored[o].space <= further
    <3>1. /\ o \in Nat /\ HeaderSize <= o /\ o + blocks[o].space <= limit
          /\ blocks[o].space \in Nat \ {0}
      BY BlockFacts
    <3>2. stored[o].space = blocks[o].space
      BY <1>2, <1>9
    <3> QED
      BY <3>1, <3>2
  <2> QED
    BY <2>1, <1>8
<1>13. BlocksWithin(stored, further)
  BY <1>11, <1>12 DEF BlocksWithin
<1> QED
  BY <1>2, <1>7, <1>8, <1>9, <1>13 DEF stored

LEMMA WriteBlockInv ==
  ASSUME PackInv, NEW n \in DOMAIN streams, WriteBlock(n)
  PROVE  PackInv'
<1> DEFINE s == streams[n]
           blocks == m_write_file.blocks
           data == [name |-> n, from |-> s.left, size |-> InBlock(s.left), space |-> s.space, next |-> NoLink]
           stored == Stored(blocks, s.link, s.block, data)
           end == IF m_write_file.end < s.block + s.space THEN s.block + s.space ELSE m_write_file.end
<1>1. /\ step = "writing" /\ s.block # 0
      /\ path' = path /\ survivors' = survivors /\ step' = step /\ m_entries' = m_entries
      /\ m_head' = m_head /\ m_new_entries' = m_new_entries
  BY DEF WriteBlock
<1>2. streams' = [streams EXCEPT ![n] = Flushed(s)]
  BY DEF WriteBlock
<1>3. /\ Writing /\ StreamsSound /\ Directory /\ m_head \in Nat /\ m_write_file.end \in Nat
      /\ \A l \in DOMAIN streams : l \in Names /\ streams[l] \in Stream
      /\ BlocksWithin(blocks, m_write_file.end)
  BY <1>1, WritingFacts DEF Writing
<1>4. m_write_file' = [m_write_file EXCEPT !.blocks = stored, !.end = end]
  BY DEF WriteBlock, Stored
<1>5. FileTyped(m_write_file)
  BY <1>3 DEF Writing
<1> HIDE DEF stored, end
<1>6. /\ m_write_file'.blocks = stored /\ m_write_file'.end = end
      /\ m_write_file'.table = m_write_file.table /\ m_write_file'.synced = m_write_file.synced
      /\ m_write_file'.cut = m_write_file.cut
      /\ m_write_file' = [blocks |-> stored, table |-> m_write_file.table, end |-> end,
                           synced |-> m_write_file.synced, cut |-> m_write_file.cut]
  BY <1>4, <1>5 DEF FileTyped
<1>7. s \in Stream /\ s.left \in Nat /\ s.block \in Nat /\ s.space \in Nat /\ s.link \in Nat
  BY <1>3 DEF Stream
<1>8. /\ HeaderSize <= s.block /\ s.space # 0 /\ s.block + s.space <= m_head
      /\ \A o \in DOMAIN blocks : ~Overlap(o, blocks[o].space, s.block, s.space)
  BY <1>1, <1>3 DEF StreamsSound, Pending
<1>9. data \in Block /\ data.space = s.space /\ data.name = n /\ data.from = s.left /\ data.size = InBlock(s.left)
      /\ data.next = NoLink
  <2>1. InBlock(s.left) \in Nat
    BY <1>7, PackAssumption DEF InBlock
  <2> HIDE DEF s
  <2> QED
    BY <2>1, <1>3, <1>7, <1>8 DEF Block, NoLink
<1> HIDE DEF data
<1>10. end \in Nat /\ m_write_file.end <= end /\ s.block + s.space <= end /\ end <= m_head
  BY <1>3, <1>7, <1>8 DEF Writing, end
<1>11. /\ s.block \notin DOMAIN blocks /\ DOMAIN stored = DOMAIN blocks \cup {s.block} /\ stored[s.block] = data
       /\ \A o \in DOMAIN blocks :
            /\ stored[o].name = blocks[o].name /\ stored[o].from = blocks[o].from
            /\ stored[o].size = blocks[o].size /\ stored[o].space = blocks[o].space
            /\ o # s.link => stored[o] = blocks[o]
            /\ o = s.link => stored[o].next = s.block
       /\ BlocksWithin(stored, end)
  BY <1>3, <1>7, <1>8, <1>9, <1>10, StoredFacts DEF stored
<1>12. PICK k \in 0 .. BlockCount(n) : Written(blocks, n, s, k)
  BY <1>3 DEF StreamsSound
<1>13. PICK place \in [1 .. k -> DOMAIN blocks] :
         /\ Chain(blocks, n, k, place)
         /\ s.first = IF k = 0 THEN s.block ELSE place[1]
         /\ s.link = IF k = 0 THEN 0 ELSE place[k]
  BY <1>12 DEF Written
<1>14. k \in Nat /\ k < BlockCount(n) /\ BlockCount(n) \in Nat \ {0} /\ s.left = Left(n, k + 1)
  BY <1>1, <1>3, <1>12, Pieces DEF Written
<1>15. \A i \in 1 .. k : place[i] \in DOMAIN blocks /\ place[i] # 0
  BY <1>3, <1>13, BlockFacts
<1>16. \A o \in DOMAIN blocks : o = s.link => blocks[o].name = n
  <2>1. CASE k = 0
    BY <2>1, <1>3, <1>13, BlockFacts
  <2>2. CASE k # 0
    BY <2>2, <1>13, <1>14 DEF Chain
  <2> QED
    BY <2>1, <2>2
<1>17. ASSUME NEW entry, entry.name # n, ReadsWhole(blocks, entry)
       PROVE  ReadsWhole(stored, entry)
  BY <1>17, <1>11, <1>16, ReadsSame
<1>18. /\ DOMAIN streams' = DOMAIN streams /\ streams'[n] = Flushed(s)
       /\ \A l \in DOMAIN streams : l # n => streams'[l] = streams[l]
  BY <1>2
<1>19. /\ Flushed(s) \in Stream /\ Flushed(s).left = s.left - InBlock(s.left)
       /\ Flushed(s).link = s.block /\ Flushed(s).block = 0 /\ Flushed(s).first = s.first
  BY <1>7, FlushedFacts
<1>20. Writing'
  <2>1. FileTyped(m_write_file')
    BY <1>5, <1>6, <1>10 DEF FileTyped
  <2>2. BlocksWithin(m_write_file'.blocks, m_write_file'.end) /\ m_write_file'.end <= m_head'
    BY <1>1, <1>6, <1>10, <1>11
  <2>3. ASSUME NEW entry \in m_entries \cup m_new_entries
        PROVE  ReadsWhole(blocks, entry) => ReadsWhole(stored, entry)
    <3>1. entry.name # n
      BY <1>3 DEF Writing, EntryNames
    <3> QED
      BY <3>1, <1>17
  <2>4. AllRead(m_write_file'.blocks, m_entries', m_write_file'.cut) /\ AllRead(m_write_file'.blocks, m_new_entries', {})
    BY <2>3, <1>1, <1>3, <1>6 DEF Writing, AllRead
  <2>5. streams' \in [DOMAIN streams' -> Stream]
    <3>1. streams \in [DOMAIN streams -> Stream]
      BY <1>3 DEF Writing
    <3> QED
      BY <3>1, <1>2, <1>19
  <2> QED
    BY <1>1, <1>3, <1>18, <2>1, <2>2, <2>4, <2>5 DEF Writing
<1>21. ASSUME NEW l \in DOMAIN streams, l # n
       PROVE  \E j \in 0 .. BlockCount(l) : Written(stored, l, streams'[l], j)
  <2>1. PICK j \in 0 .. BlockCount(l) : Written(blocks, l, streams[l], j)
    BY <1>3 DEF StreamsSound
  <2>2. PICK other \in [1 .. j -> DOMAIN blocks] :
          /\ Chain(blocks, l, j, other)
          /\ streams[l].first = IF j = 0 THEN streams[l].block ELSE other[1]
          /\ streams[l].link = IF j = 0 THEN 0 ELSE other[j]
    BY <2>1 DEF Written
  <2>3. \A i \in 1 .. j : other[i] \in DOMAIN blocks /\ stored[other[i]] = blocks[other[i]]
    BY <2>2, <1>11, <1>16, <1>21 DEF Chain
  <2>4. Chain(stored, l, j, other) /\ other \in [1 .. j -> DOMAIN stored]
    BY <2>2, <2>3, <1>11 DEF Chain
  <2>5. Written(stored, l, streams[l], j)
    BY <2>1, <2>2, <2>4 DEF Written
  <2> QED
    BY <2>1, <2>5, <1>18, <1>21
<1>22. Written(stored, n, Flushed(s), k + 1) /\ k + 1 \in 0 .. BlockCount(n)
  <2> DEFINE longer == [i \in 1 .. k + 1 |-> IF i = k + 1 THEN s.block ELSE place[i]]
  <2>1. longer \in [1 .. k + 1 -> DOMAIN stored]
    BY <1>11, <1>14, <1>15
  <2>2. longer[k + 1] = s.block /\ \A i \in 1 .. k : longer[i] = place[i]
    BY <1>14
  <2> HIDE DEF longer
  <2>3. \A i \in 1 .. k : i # k => place[i] # s.link
    <3>1. SUFFICES ASSUME NEW i \in 1 .. k, i # k PROVE place[i] # s.link
      OBVIOUS
    <3>2. i + 1 \in 1 .. k /\ k \in 1 .. k /\ s.link = place[k]
      BY <3>1, <1>13, <1>14
    <3>3. blocks[place[i]].next = place[i + 1] /\ blocks[place[k]].next = NoLink
      BY <3>1, <3>2, <1>13 DEF Chain
    <3>4. place[i + 1] # NoLink
      BY <3>2, <1>15 DEF NoLink
    <3> QED
      BY <3>2, <3>3, <3>4
  <2>4. ASSUME NEW i \in 1 .. k + 1
        PROVE  /\ stored[longer[i]].name = n /\ stored[longer[i]].from = Left(n, i)
               /\ stored[longer[i]].size = InBlock(Left(n, i))
               /\ stored[longer[i]].next = IF i = k + 1 THEN NoLink ELSE longer[i + 1]
    <3>1. CASE i = k + 1
      BY <3>1, <2>2, <1>9, <1>11, <1>14
    <3>2. CASE i # k + 1
      <4>1. i \in 1 .. k /\ longer[i] = place[i] /\ place[i] \in DOMAIN blocks
        BY <3>2, <2>2, <1>14, <1>15
      <4>2. /\ blocks[place[i]].name = n /\ blocks[place[i]].from = Left(n, i)
            /\ blocks[place[i]].size = InBlock(Left(n, i))
            /\ blocks[place[i]].next = IF i = k THEN NoLink ELSE place[i + 1]
        BY <4>1, <1>13 DEF Chain
      <4>3. stored[place[i]].next = longer[i + 1]
        <5>1. CASE i = k
          BY <5>1, <4>1, <2>2, <1>11, <1>13, <1>14
        <5>2. CASE i # k
          <6>1. i + 1 \in 1 .. k
            BY <5>2, <4>1, <1>14
          <6> QED
            BY <5>2, <6>1, <4>1, <4>2, <2>2, <2>3, <1>11
        <5> QED
          BY <5>1, <5>2
      <4> QED
        BY <3>2, <4>1, <4>2, <4>3, <1>11
    <3> QED
      BY <3>1, <3>2
  <2>5. Chain(stored, n, k + 1, longer)
    BY <2>4 DEF Chain
  <2>6. Flushed(s).first = longer[1] /\ Flushed(s).link = longer[k + 1]
    <3>1. CASE k = 0
      BY <3>1, <2>2, <1>13, <1>19
    <3>2. CASE k # 0
      BY <3>2, <2>2, <1>13, <1>14, <1>19
    <3> QED
      BY <3>1, <3>2
  <2>7. Flushed(s).left = (IF k + 1 = BlockCount(n) THEN 0 ELSE Left(n, k + 1 + 1))
    <3>1. k + 1 \in 1 .. BlockCount(n) /\ n \in Names
      BY <1>3, <1>14
    <3>2. /\ s.left \in Nat \ {0}
          /\ k + 1 < BlockCount(n) => s.left > BlockSize /\ Left(n, k + 1 + 1) = s.left - BlockSize
          /\ k + 1 = BlockCount(n) => s.left <= BlockSize
      BY <3>1, <1>14, Pieces
    <3>3. k + 1 < BlockCount(n) \/ k + 1 = BlockCount(n)
      BY <1>14, PackAssumption
    <3>4. BlockSize \in Nat
      BY PackAssumption
    <3> QED
      BY <3>2, <3>3, <3>4, <1>14, <1>19 DEF InBlock
  <2>8. k + 1 # 0 /\ k + 1 \in 0 .. BlockCount(n)
    BY <1>14
  <2> QED
    BY <2>1, <2>5, <2>6, <2>7, <2>8, <1>19 DEF Written
<1>23. ASSUME NEW l \in DOMAIN streams, streams'[l].block # 0
       PROVE  /\ Pending(streams'[l], m_head)
              /\ \A o \in DOMAIN stored : ~Overlap(o, stored[o].space, streams'[l].block, streams'[l].space)
              /\ \A j \in DOMAIN streams : j # l /\ streams'[j].block # 0 =>
                   ~Overlap(streams'[j].block, streams'[j].space, streams'[l].block, streams'[l].space)
  <2>1. l # n /\ streams'[l] = streams[l] /\ streams[l].block # 0
    BY <1>18, <1>19, <1>23
  <2>2. /\ Pending(streams[l], m_head)
        /\ \A o \in DOMAIN blocks : ~Overlap(o, blocks[o].space, streams[l].block, streams[l].space)
        /\ \A j \in DOMAIN streams : j # l /\ streams[j].block # 0 =>
             ~Overlap(streams[j].block, streams[j].space, streams[l].block, streams[l].space)
    BY <2>1, <1>3 DEF StreamsSound
  <2>3. \A o \in DOMAIN stored : ~Overlap(o, stored[o].space, streams[l].block, streams[l].space)
    BY <2>1, <2>2, <1>1, <1>9, <1>11
  <2>4. \A j \in DOMAIN streams : streams'[j].block # 0 => streams'[j] = streams[j]
    BY <1>18, <1>19
  <2> QED
    BY <2>1, <2>2, <2>3, <2>4
<1>24. StreamsSound'
  <2>1. \A l \in DOMAIN streams' : \E j \in 0 .. BlockCount(l) : Written(m_write_file'.blocks, l, streams'[l], j)
    BY <1>6, <1>18, <1>21, <1>22
  <2> QED
    BY <2>1, <1>1, <1>6, <1>18, <1>23 DEF StreamsSound
<1> QED
  BY <1>1, <1>3, <1>20, <1>24 DEF PackInv, Directory, Committed

LEMMA FinishEntryInv ==
  ASSUME PackInv, NEW n \in DOMAIN streams, FinishEntry(n)
  PROVE  PackInv'
<1> DEFINE s == streams[n]
           blocks == m_write_file.blocks
           entry == [name |-> n, first |-> s.first, size |-> Size[n]]
<1>1. /\ step = "writing" /\ s.left = 0
      /\ m_new_entries' = m_new_entries \cup {entry}
      /\ streams' = [l \in DOMAIN streams \ {n} |-> streams[l]]
      /\ path' = path /\ survivors' = survivors /\ step' = step /\ m_entries' = m_entries
      /\ m_write_file' = m_write_file /\ m_head' = m_head
  BY DEF FinishEntry, Restrict
<1>2. /\ Writing /\ StreamsSound /\ Directory
      /\ \A l \in DOMAIN streams : l \in Names /\ streams[l] \in Stream
  BY <1>1, WritingFacts
<1>3. entry \in Entry /\ entry.name = n /\ entry.first = s.first
  <2>1. Size[n] \in Nat /\ n \in Names /\ s.first \in Nat
    BY <1>2, PackAssumption DEF Names, Stream
  <2> HIDE DEF s
  <2> QED
    BY <2>1 DEF Entry
<1>4. ReadsWhole(blocks, entry)
  <2>1. PICK k \in 0 .. BlockCount(n) : Written(blocks, n, s, k)
    BY <1>2 DEF StreamsSound
  <2>2. PICK place \in [1 .. k -> DOMAIN blocks] :
          /\ Chain(blocks, n, k, place)
          /\ s.first = IF k = 0 THEN s.block ELSE place[1]
    BY <2>1 DEF Written
  <2>3. k = BlockCount(n) /\ BlockCount(n) \in Nat \ {0}
    <3>1. BlockCount(n) \in Nat \ {0} /\ (k # BlockCount(n) => k + 1 \in 1 .. BlockCount(n) /\ s.left = Left(n, k + 1))
      BY <2>1, <1>2, Pieces DEF Written
    <3>2. \A i \in 1 .. BlockCount(n) : Left(n, i) # 0
      BY <1>2, Pieces
    <3> QED
      BY <3>1, <3>2, <1>1
  <2>4. ASSUME NEW i \in 1 .. k
        PROVE  NextBlock(blocks[place[i]]) = IF i = k THEN NoLink ELSE place[i + 1]
    <3>1. /\ blocks[place[i]].size = InBlock(Left(n, i))
          /\ blocks[place[i]].next = IF i = k THEN NoLink ELSE place[i + 1]
      BY <2>2 DEF Chain
    <3>2. CASE i = k
      BY <3>1, <3>2 DEF NextBlock
    <3>3. CASE i # k
      <4>1. Left(n, i) \in Nat /\ Left(n, i) > BlockSize /\ BlockSize \in Nat
        <5>1. i \in 1 .. BlockCount(n) /\ i < BlockCount(n) /\ n \in Names
          BY <2>3, <3>3, <1>2
        <5> QED
          BY <5>1, Pieces, PackAssumption
      <4>2. blocks[place[i]].size = BlockSize
        BY <3>1, <4>1 DEF InBlock
      <4> QED
        BY <3>1, <3>3, <4>1, <4>2 DEF NextBlock
    <3> QED
      BY <3>2, <3>3
  <2>5. place \in [1 .. BlockCount(n) -> DOMAIN blocks] /\ place[1] = entry.first
    BY <2>2, <2>3, <1>3
  <2>6. \A i \in 1 .. BlockCount(n) :
          /\ blocks[place[i]].name = n /\ blocks[place[i]].from = Left(n, i)
          /\ NextBlock(blocks[place[i]]) = IF i = BlockCount(n) THEN NoLink ELSE place[i + 1]
    BY <2>2, <2>3, <2>4 DEF Chain
  <2> HIDE DEF entry
  <2> QED
    BY <2>5, <2>6, <1>3 DEF ReadsWhole
<1> HIDE DEF entry
<1>5. DOMAIN streams' = DOMAIN streams \ {n} /\ \A l \in DOMAIN streams' : streams'[l] = streams[l]
  BY <1>1
<1>6. Writing'
  <2>1. m_new_entries' \subseteq Entry /\ IsFiniteSet(m_new_entries')
    BY <1>1, <1>2, <1>3, FS_AddElement DEF Writing
  <2>2. AllRead(blocks, m_new_entries', {})
    BY <1>1, <1>2, <1>4 DEF Writing, AllRead
  <2>3. streams' \in [DOMAIN streams' -> Stream]
    BY <1>1, <1>2, <1>5
  <2>4. EntryNames(m_new_entries') = EntryNames(m_new_entries) \cup {n}
    BY <1>1, <1>3 DEF EntryNames
  <2>5. \A l \in DOMAIN streams' : l \notin EntryNames(m_entries') /\ l \notin EntryNames(m_new_entries')
    BY <1>1, <1>2, <1>5, <2>4 DEF Writing
  <2>6. m_new_entries' # {}
    BY <1>1
  <2> QED
    BY <1>1, <1>2, <1>5, <2>1, <2>2, <2>3, <2>5, <2>6 DEF Writing
<1>7. StreamsSound'
  BY <1>1, <1>2, <1>5 DEF StreamsSound
<1> QED
  BY <1>1, <1>2, <1>6, <1>7 DEF PackInv, Directory, Committed

LEMMA FinishInv ==
  ASSUME PackInv, Finish
  PROVE  PackInv'
<1> DEFINE blocks == m_write_file.blocks
           table == m_entries \cup m_new_entries
           over == Overwritten(blocks, 0, HeaderSize)
           end == m_write_file.end + Cardinality(table)
<1>1. /\ step = "writing" /\ streams = <<>> /\ step' = "finished" /\ m_entries' = table
      /\ m_write_file' = [m_write_file EXCEPT !.table = table, !.blocks = over, !.end = end]
      /\ path' = path /\ survivors' = survivors
  BY DEF Finish
<1>2. /\ Writing /\ Directory /\ m_write_file.end \in Nat /\ HeaderSize \in Nat \ {0}
      /\ BlocksWithin(blocks, m_write_file.end) /\ FileTyped(m_write_file) /\ Committed(path)
  BY <1>1, WritingFacts, PackAssumption DEF Writing, Directory
<1>3. DOMAIN streams = {}
  BY <1>1
<1>4. /\ table \subseteq Entry /\ IsFiniteSet(table) /\ Cardinality(table) \in Nat /\ m_new_entries # {}
      /\ AllRead(blocks, table, m_write_file.cut) /\ AllRead(blocks, m_new_entries, {}) /\ m_new_entries \subseteq table
  <2>1. m_entries \subseteq Entry /\ IsFiniteSet(m_entries)
    BY <1>2 DEF Writing, Committed, FileTyped
  <2>2. IsFiniteSet(table)
    BY <1>2, <2>1, FS_Union DEF Writing
  <2> QED
    BY <1>2, <1>3, <2>1, <2>2, FS_CardinalityType DEF Writing, AllRead
<1>5. \A o \in DOMAIN blocks : ~Overlap(o, blocks[o].space, 0, HeaderSize)
  BY <1>2, BlockFacts DEF Overlap
<1>6. DOMAIN over = DOMAIN blocks /\ \A o \in DOMAIN blocks : over[o] = blocks[o]
  BY <1>5, OverwrittenFacts
<1>7. over = [o \in DOMAIN over |-> over[o]]
  BY DEF Overwritten, Restrict
<1> HIDE DEF over, end, table
<1>8. m_write_file' = [blocks |-> over, table |-> table, end |-> end,
                       synced |-> m_write_file.synced, cut |-> m_write_file.cut]
  BY <1>1, <1>2 DEF FileTyped
<1>9. end \in Nat /\ m_write_file.end <= end
  BY <1>2, <1>4 DEF end
<1>10. BlocksWithin(over, end)
  <2>1. \A o \in DOMAIN over : o \in Nat /\ over[o] \in Block /\ HeaderSize <= o /\ o + over[o].space <= end
    <3>1. ASSUME NEW o \in DOMAIN blocks
          PROVE  o \in Nat /\ blocks[o] \in Block /\ HeaderSize <= o /\ o + blocks[o].space <= end
      <4>1. /\ o \in Nat /\ blocks[o] \in Block /\ HeaderSize <= o /\ o + blocks[o].space <= m_write_file.end
            /\ blocks[o].space \in Nat \ {0}
        BY <1>2, BlockFacts
      <4> QED
        BY <4>1, <1>2, <1>9
    <3> QED
      BY <3>1, <1>6
  <2>2. over \in [DOMAIN over -> Block]
    BY <2>1, <1>7
  <2> QED
    BY <2>1, <2>2 DEF BlocksWithin
<1>11. AllRead(over, table, m_write_file.cut)
  BY <1>4, <1>6, ReadsSame DEF AllRead
<1>12. HeaderSize <= end
  <2>1. PICK entry \in m_new_entries : entry \in table /\ ReadsWhole(blocks, entry)
    BY <1>4 DEF AllRead
  <2>2. BlockCount(entry.name) \in Nat \ {0}
    BY <2>1, <1>4, Pieces DEF Entry
  <2>3. PICK o \in DOMAIN over : TRUE
    BY <2>1, <2>2, <1>6 DEF ReadsWhole
  <2> QED
    BY <2>3, <1>2, <1>9, <1>10, BlockFacts
<1>13. EntryNames(path'.table) \subseteq EntryNames(table)
  BY <1>1, <1>2 DEF Writing, EntryNames, table
<1>14. Replaces'
  <2>1. FileTyped(m_write_file')
    BY <1>2, <1>4, <1>8, <1>9 DEF FileTyped
  <2> QED
    BY <2>1, <1>1, <1>8, <1>10, <1>11, <1>12, <1>13 DEF Replaces
<1> QED
  BY <1>1, <1>2, <1>14 DEF PackInv, Directory, Committed

(* The steps that commit the file, and those that start anew. *)
LEMMA CommitInv ==
  ASSUME PackInv, Sync \/ Unlink \/ Link \/ SyncParent
  PROVE  PackInv'
<1>1. CASE Sync
  <2>1. /\ step = "finished" /\ step' = "synced" /\ m_write_file' = [m_write_file EXCEPT !.synced = TRUE]
        /\ path' = path /\ survivors' = survivors
    BY <1>1 DEF Sync
  <2>2. Replaces /\ FileTyped(m_write_file) /\ Directory
    BY <2>1 DEF PackInv, Replaces
  <2>3. /\ m_write_file' = [blocks |-> m_write_file.blocks, table |-> m_write_file.table,
                            end |-> m_write_file.end, synced |-> TRUE, cut |-> m_write_file.cut]
    BY <2>1, <2>2 DEF FileTyped
  <2>4. FileTyped(m_write_file')
    BY <2>2, <2>3 DEF FileTyped
  <2>5. Replaces'
    BY <2>1, <2>2, <2>3, <2>4 DEF Replaces
  <2> QED
    BY <2>1, <2>2, <2>5 DEF PackInv, Directory
<1>2. CASE Unlink
  <2>1. /\ step = "synced" /\ step' = "unlinked" /\ path' = Absent /\ survivors' = survivors \cup {Absent}
        /\ m_write_file' = m_write_file
    BY <1>2 DEF Unlink, writer
  <2>2. Replaces /\ Directory
    BY <2>1 DEF PackInv
  <2>3. EntryNames(path'.table) = {}
    BY <2>1 DEF EntryNames, Absent
  <2>4. Replaces'
    BY <2>1, <2>2, <2>3 DEF Replaces
  <2>5. Directory'
    BY <2>1, <2>2, AbsentCommitted DEF Directory
  <2> QED
    BY <2>1, <2>4, <2>5 DEF PackInv
<1>3. CASE Link
  <2>1. /\ step = "unlinked" /\ step' = "linked" /\ path' = m_write_file
        /\ survivors' = survivors \cup {m_write_file}
    BY <1>3 DEF Link
  <2>2. Replaces /\ Directory
    BY <2>1 DEF PackInv
  <2>3. Committed(m_write_file)
    BY <2>1, <2>2 DEF Replaces, Committed
  <2>4. Directory'
    BY <2>1, <2>2, <2>3 DEF Directory
  <2> QED
    BY <2>1, <2>4 DEF PackInv
<1>4. CASE SyncParent
  BY <1>4 DEF SyncParent, PackInv, Directory
<1> QED
  BY <1>1, <1>2, <1>3, <1>4

LEMMA StopInv ==
  ASSUME PackInv, ProgramEnds \/ MachineStops
  PROVE  PackInv'
<1>1. step' = "start"
  BY DEF ProgramEnds, MachineStops, Forgotten
<1>2. CASE ProgramEnds
  BY <1>1, <1>2 DEF ProgramEnds, PackInv, Directory
<1>3. CASE MachineStops
  <2>1. PICK file \in survivors :
          path' = (IF file.synced THEN file ELSE [file EXCEPT !.blocks = <<>>]) /\ survivors' = {path'}
    BY <1>3 DEF MachineStops
  <2>2. Committed(file) /\ file.synced
    BY <2>1 DEF PackInv, Directory, Committed
  <2>3. path' = file /\ survivors' = {file}
    BY <2>1, <2>2
  <2> QED
    BY <1>1, <2>2, <2>3 DEF PackInv, Directory
<1> QED
  BY <1>2, <1>3

LEMMA PackStepInv == PackInv /\ [PackNext]_packVars => PackInv'
<1> SUFFICES ASSUME PackInv, [PackNext]_packVars
             PROVE  PackInv'
  OBVIOUS
<1>1. CASE UNCHANGED packVars
  BY <1>1 DEF packVars, PackInv, Directory, Committed, Writing, StreamsSound, Replaces
<1>2. ASSUME NEW adding \in SUBSET Names, MakeWriter(adding)
      PROVE  PackInv'
  BY <1>2, MakeWriterInv
<1>3. ASSUME NEW n \in DOMAIN streams,
             (\E compressed \in Compressed : AllocateSpace(n, compressed)) \/ WriteBlock(n) \/ FinishEntry(n)
      PROVE  PackInv'
  BY <1>3, AllocateSpaceInv, WriteBlockInv, FinishEntryInv
<1>4. CASE Finish
  BY <1>4, FinishInv
<1>5. CASE Sync \/ Unlink \/ Link \/ SyncParent
  BY <1>5, CommitInv
<1>6. CASE ProgramEnds \/ MachineStops
  BY <1>6, StopInv
<1> QED
  BY <1>1, <1>2, <1>3, <1>4, <1>5, <1>6 DEF PackNext

LEMMA PackInvIntact == PackInv => PackageIntact
<1> SUFFICES ASSUME PackInv PROVE PackageIntact
  OBVIOUS
<1>1. \A file \in {path} \cup survivors : Complete(file)
  BY DEF PackInv, Directory, Committed, AllRead, Complete
<1>2. step \in {"synced", "unlinked"} =>
        Complete(m_write_file) /\ EntryNames(path.table) \subseteq EntryNames(m_write_file.table)
  BY DEF PackInv, Replaces, AllRead, Complete
<1> QED
  BY <1>1, <1>2 DEF PackageIntact

(* vpak: whatever program or machine stops at whatever point, with any     *)
(* number of write streams side by side, and wherever copy_file_range()    *)
(* stops, what is found under the name of a package is nothing or a        *)
(* package of which every entry reads back whole, but for those that a     *)
(* short copy has cut, and the old one is only removed when its            *)
(* replacement is on the disk and has all its entries.                     *)
THEOREM PackageSurvives == PackSpec => []PackageIntact
<1>1. PackInit => PackInv
  BY PackInitInv
<1>2. PackInv /\ [PackNext]_packVars => PackInv'
  BY PackStepInv
<1>3. PackInv => PackageIntact
  BY PackInvIntact
<1> QED
  BY <1>1, <1>2, <1>3, PTL DEF PackSpec

-----------------------------------------------------------------------------
(* Handles. *)

AnyHandle == [index : Nat, version : Nat]

Slots(list) == 1 .. Len(list)
Vacant(list, k) == list[k].index # k

(* Something leads to slot k: the head of the list, or a vacant slot. *)
LedTo(head, list, k) == head = k \/ \E l \in Slots(list) : Vacant(list, l) /\ list[l].index = k

(* The handles given that are valid, as IsValid() finds them. *)
Valid(list, handles) ==
  {i \in 1 .. Len(handles) : handles[i].index \in DOMAIN list /\ list[handles[i].index] = handles[i]}

(* The slots are handles whose index leads to a slot or nowhere. *)
TypeOK ==
  /\ m_entity_list \in Seq(AnyHandle)
  /\ m_free_head \in {NullIndex} \cup Slots(m_entity_list)
  /\ \A k \in Slots(m_entity_list) : m_entity_list[k].index \in {NullIndex} \cup Slots(m_entity_list)
  /\ given \in Seq(AnyHandle)
  /\ \A i \in 1 .. Len(given) : given[i].index \in Slots(m_entity_list)
  /\ gone \in Nat

ListSound ==
  /\ \A k \in Slots(m_entity_list) : LedTo(m_free_head, m_entity_list, k) => Vacant(m_entity_list, k)
  /\ \A k \in Slots(m_entity_list) :
       Vacant(m_entity_list, k) /\ m_entity_list[k].index = m_free_head => m_free_head = NullIndex
  /\ \A k, l \in Slots(m_entity_list) :
       Vacant(m_entity_list, k) /\ Vacant(m_entity_list, l) /\ m_entity_list[k].index = m_entity_list[l].index
         => k = l \/ m_entity_list[k].index = NullIndex

(* The version a slot has is the last one given, or follows it. *)
Fresh ==
  \A i \in 1 .. Len(given) :
    /\ LedTo(m_free_head, m_entity_list, given[i].index)
         => given[i].version < m_entity_list[given[i].index].version
    /\ ~Vacant(m_entity_list, given[i].index)
         => given[i].version <= m_entity_list[given[i].index].version

Distinct == \A i, j \in 1 .. Len(given) : i # j => given[i] # given[j]

Counted == Cardinality(Valid(m_entity_list, given)) = Len(given) - gone

Inv == TypeOK /\ ListSound /\ Fresh /\ Distinct /\ Counted

LEMMA HandleOf ==
  ASSUME NEW handles \in Seq(AnyHandle), NEW k \in 1 .. Len(handles)
  PROVE  handles[k] \in AnyHandle /\ handles[k].index \in Nat /\ handles[k].version \in Nat
<1>1. handles[k] \in AnyHandle
  OBVIOUS
<1> QED
  BY <1>1 DEF AnyHandle

(* The handles given that are valid are finitely many. *)
LEMMA ValidFinite ==
  ASSUME NEW list, NEW handles \in Seq(AnyHandle)
  PROVE  IsFiniteSet(Valid(list, handles)) /\ Cardinality(Valid(list, handles)) \in Nat
<1>1. IsFiniteSet(1 .. Len(handles))
  BY FS_Interval
<1>2. Valid(list, handles) \in SUBSET (1 .. Len(handles))
  BY DEF Valid
<1> QED
  BY <1>1, <1>2, FS_Subset, FS_CardinalityType

(* One more handle, for a slot that held no handle given before: the       *)
(* others are as valid as they were.                                       *)
LEMMA GiveCounts ==
  ASSUME NEW list \in Seq(AnyHandle), NEW new \in Seq(AnyHandle), NEW handles \in Seq(AnyHandle),
         NEW h \in AnyHandle, h.index \in DOMAIN new, new[h.index] = h,
         \A i \in 1 .. Len(handles) :
           (handles[i].index \in DOMAIN new /\ new[handles[i].index] = handles[i])
           <=> (handles[i].index \in DOMAIN list /\ list[handles[i].index] = handles[i])
  PROVE  Cardinality(Valid(new, Append(handles, h))) = Cardinality(Valid(list, handles)) + 1
<1>1. Valid(new, Append(handles, h)) = Valid(list, handles) \cup {Len(handles) + 1}
  <2> DEFINE g == Len(handles) + 1
             longer == Append(handles, h)
  <2>1. /\ 1 .. Len(longer) = (1 .. Len(handles)) \cup {g}
        /\ longer[g] = h /\ \A i \in 1 .. Len(handles) : longer[i] = handles[i]
    OBVIOUS
  <2> HIDE DEF g, longer
  <2>2. Valid(new, longer) = Valid(list, handles) \cup {g}
    <3>1. \A i \in 1 .. Len(handles) : i \in Valid(new, longer) <=> i \in Valid(list, handles)
      BY <2>1 DEF Valid
    <3>2. g \in Valid(new, longer)
      BY <2>1 DEF Valid
    <3>3. \A i : i \in Valid(new, longer) => i \in (1 .. Len(handles)) \cup {g}
      BY <2>1 DEF Valid
    <3>4. \A i : i \in Valid(list, handles) => i \in 1 .. Len(handles)
      BY DEF Valid
    <3> QED
      BY <3>1, <3>2, <3>3, <3>4
  <2> QED
    BY <2>2 DEF g, longer
<1>2. Len(handles) + 1 \notin Valid(list, handles)
  BY DEF Valid
<1> QED
  BY <1>1, <1>2, ValidFinite, FS_AddElement

(* One handle less. *)
LEMMA TakeCounts ==
  ASSUME NEW list, NEW new, NEW handles \in Seq(AnyHandle), NEW j \in Valid(list, handles),
         \A i \in 1 .. Len(handles) :
           (handles[i].index \in DOMAIN new /\ new[handles[i].index] = handles[i])
           <=> (i # j /\ handles[i].index \in DOMAIN list /\ list[handles[i].index] = handles[i])
  PROVE  Cardinality(Valid(new, handles)) = Cardinality(Valid(list, handles)) - 1
<1>1. Valid(new, handles) = Valid(list, handles) \ {j}
  BY DEF Valid
<1> QED
  BY <1>1, ValidFinite, FS_RemoveElement

LEMMA InitInv == Init => Inv
<1> SUFFICES ASSUME Init PROVE Inv
  OBVIOUS
<1>1. Slots(m_entity_list) = {} /\ 1 .. Len(given) = {} /\ Valid(m_entity_list, given) = {}
  BY DEF Init, Slots, Valid
<1>2. TypeOK /\ ListSound /\ Fresh /\ Distinct
  BY <1>1 DEF Init, TypeOK, ListSound, Fresh, Distinct
<1>3. Counted
  BY <1>1, FS_EmptySet DEF Counted, Init
<1> QED
  BY <1>2, <1>3 DEF Inv

(* create() with no free index: a new slot, to which nothing leads. *)
LEMMA CreateNewInv ==
  ASSUME Inv, Create, m_free_head = NullIndex
  PROVE  Inv'
<1>a. PICK n \in Nat : n = Len(m_entity_list) + 1
  BY DEF Inv, TypeOK
<1>b. PICK g \in Nat : g = Len(given) + 1
  BY DEF Inv, TypeOK
<1>c. PICK h \in AnyHandle : h = Handle(n, 0)
  BY DEF AnyHandle, Handle
<1> USE <1>a, <1>b, <1>c
<1>1. /\ m_entity_list' = Append(m_entity_list, h) /\ given' = Append(given, h)
      /\ m_free_head' = m_free_head /\ gone' = gone
  BY DEF Create
<1>2. /\ Len(m_entity_list) \in Nat /\ Len(given) \in Nat
      /\ Len(m_entity_list') = n /\ Len(given') = g
      /\ \A k \in Slots(m_entity_list) : m_entity_list'[k] = m_entity_list[k]
      /\ m_entity_list'[n] = h /\ h.index = n /\ h.version = 0
      /\ \A i \in 1 .. Len(given) : given'[i] = given[i]
      /\ given'[g] = h
  BY <1>1 DEF Inv, TypeOK, Handle, Slots
<1>3. /\ Slots(m_entity_list') = Slots(m_entity_list) \cup {n} /\ n \notin Slots(m_entity_list)
      /\ 1 .. Len(given') = (1 .. Len(given)) \cup {g} /\ g \notin 1 .. Len(given)
      /\ NullIndex \notin Slots(m_entity_list) /\ n # NullIndex
  BY <1>2 DEF Slots, NullIndex
<1>4. TypeOK'
  <2>1. m_entity_list' \in Seq(AnyHandle) /\ given' \in Seq(AnyHandle)
    BY <1>1, <1>2 DEF Inv, TypeOK
  <2>2. \A k \in Slots(m_entity_list') : m_entity_list'[k].index \in {NullIndex} \cup Slots(m_entity_list')
    BY <1>2, <1>3 DEF Inv, TypeOK
  <2>3. \A i \in 1 .. Len(given') : given'[i].index \in Slots(m_entity_list')
    BY <1>2, <1>3 DEF Inv, TypeOK
  <2>4. m_free_head' \in {NullIndex} \cup Slots(m_entity_list') /\ gone' \in Nat
    BY <1>1, <1>3 DEF Inv, TypeOK
  <2> QED
    BY <2>1, <2>2, <2>3, <2>4 DEF TypeOK
<1>5. ~Vacant(m_entity_list', n) /\ (\A k \in Slots(m_entity_list) : Vacant(m_entity_list', k) <=> Vacant(m_entity_list, k))
  BY <1>2 DEF Vacant
<1>6. /\ ~LedTo(m_free_head', m_entity_list', n)
      /\ \A k \in Slots(m_entity_list) :
           LedTo(m_free_head', m_entity_list', k) <=> LedTo(m_free_head, m_entity_list, k)
  <2>1. m_free_head' # n
    BY <1>1, <1>3 DEF Inv, TypeOK
  <2>2. \A l \in Slots(m_entity_list) : m_entity_list'[l].index # n
    BY <1>2, <1>3 DEF Inv, TypeOK
  <2>3. ~LedTo(m_free_head', m_entity_list', n)
    BY <2>1, <2>2, <1>3, <1>5 DEF LedTo
  <2>4. \A k \in Slots(m_entity_list) :
          LedTo(m_free_head', m_entity_list', k) <=> LedTo(m_free_head, m_entity_list, k)
    BY <1>1, <1>2, <1>3, <1>5 DEF LedTo
  <2> QED
    BY <2>3, <2>4
<1>7. ListSound'
  <2>1. \A k \in Slots(m_entity_list') : LedTo(m_free_head', m_entity_list', k) => Vacant(m_entity_list', k)
    BY <1>3, <1>5, <1>6 DEF ListSound, Inv
  <2>2. \A k \in Slots(m_entity_list') : Vacant(m_entity_list', k) =>
          k \in Slots(m_entity_list) /\ Vacant(m_entity_list, k) /\ m_entity_list'[k] = m_entity_list[k]
    BY <1>2, <1>3, <1>5
  <2>3. \A k \in Slots(m_entity_list') :
          Vacant(m_entity_list', k) /\ m_entity_list'[k].index = m_free_head' => m_free_head' = NullIndex
    BY <2>2, <1>1
  <2>4. \A k, l \in Slots(m_entity_list') :
          Vacant(m_entity_list', k) /\ Vacant(m_entity_list', l) /\ m_entity_list'[k].index = m_entity_list'[l].index
            => k = l \/ m_entity_list'[k].index = NullIndex
    BY <2>2 DEF ListSound, Inv
  <2> QED
    BY <2>1, <2>3, <2>4 DEF ListSound
<1>8. Fresh'
  <2> SUFFICES ASSUME NEW i \in 1 .. Len(given')
               PROVE  /\ LedTo(m_free_head', m_entity_list', given'[i].index)
                            => given'[i].version < m_entity_list'[given'[i].index].version
                      /\ ~Vacant(m_entity_list', given'[i].index)
                            => given'[i].version <= m_entity_list'[given'[i].index].version
    BY DEF Fresh
  <2>1. CASE i = g
    BY <2>1, <1>2, <1>6
  <2>2. CASE i \in 1 .. Len(given)
    <3>1. given'[i] = given[i] /\ given[i].index \in Slots(m_entity_list)
      BY <2>2, <1>2 DEF Inv, TypeOK
    <3> QED
      BY <3>1, <2>2, <1>2, <1>5, <1>6 DEF Fresh, Inv
  <2> QED
    BY <2>1, <2>2, <1>3
<1>9. Distinct'
  <2>1. \A i \in 1 .. Len(given) : given'[i] # h
    BY <1>2, <1>3 DEF Inv, TypeOK
  <2> QED
    BY <2>1, <1>2, <1>3 DEF Distinct, Inv
<1>10. Counted'
  <2>1. Cardinality(Valid(m_entity_list', given')) = Cardinality(Valid(m_entity_list, given)) + 1
    <3>1. h.index \in DOMAIN m_entity_list' /\ m_entity_list'[h.index] = h
      BY <1>2, <1>4 DEF TypeOK
    <3>2. \A i \in 1 .. Len(given) :
            (given[i].index \in DOMAIN m_entity_list' /\ m_entity_list'[given[i].index] = given[i])
            <=> (given[i].index \in DOMAIN m_entity_list /\ m_entity_list[given[i].index] = given[i])
      BY <1>2, <1>3, <1>4 DEF Inv, TypeOK, Slots
    <3>3. m_entity_list \in Seq(AnyHandle) /\ m_entity_list' \in Seq(AnyHandle) /\ given \in Seq(AnyHandle)
      BY <1>4 DEF Inv, TypeOK
    <3>4. Cardinality(Valid(m_entity_list', Append(given, h))) = Cardinality(Valid(m_entity_list, given)) + 1
      BY ONLY <3>1, <3>2, <3>3, h \in AnyHandle, GiveCounts
    <3> QED
      BY <3>4, <1>1
  <2> QED
    BY <2>1, <1>1, <1>2, ValidFinite DEF Counted, Inv, TypeOK
<1> QED
  BY <1>4, <1>7, <1>8, <1>9, <1>10 DEF Inv

(* create() with a free index: the head of the list becomes an entity. *)
LEMMA CreateAgainInv ==
  ASSUME Inv, Create, m_free_head # NullIndex
  PROVE  Inv'
<1>a. PICK k \in Slots(m_entity_list) : k = m_free_head
  BY DEF Inv, TypeOK
<1>b. PICK g \in Nat : g = Len(given) + 1
  BY DEF Inv, TypeOK
<1>c. PICK h \in AnyHandle : h = Handle(k, m_entity_list[k].version)
  <2>1. k \in Nat /\ m_entity_list[k].version \in Nat
    BY HandleOf DEF Slots, Inv, TypeOK
  <2> QED
    BY <2>1 DEF AnyHandle, Handle
<1> USE <1>a, <1>b, <1>c
<1>1. /\ m_entity_list' = [m_entity_list EXCEPT ![k] = h] /\ given' = Append(given, h)
      /\ m_free_head' = m_entity_list[k].index /\ gone' = gone
  BY DEF Create
<1>2. /\ Len(m_entity_list') = Len(m_entity_list) /\ Len(given) \in Nat /\ Len(given') = g
      /\ \A l \in Slots(m_entity_list) : m_entity_list'[l] = IF l = k THEN h ELSE m_entity_list[l]
      /\ h.index = k /\ h.version = m_entity_list[k].version
      /\ \A i \in 1 .. Len(given) : given'[i] = given[i]
      /\ given'[g] = h
  BY <1>1 DEF Inv, TypeOK, Handle, Slots
<1>3. /\ Slots(m_entity_list') = Slots(m_entity_list)
      /\ 1 .. Len(given') = (1 .. Len(given)) \cup {g} /\ g \notin 1 .. Len(given)
      /\ NullIndex \notin Slots(m_entity_list)
  BY <1>2 DEF Slots, NullIndex
<1>4. TypeOK'
  <2>1. m_entity_list' \in Seq(AnyHandle) /\ given' \in Seq(AnyHandle)
    BY <1>1, <1>2 DEF Inv, TypeOK, Slots
  <2>2. \A l \in Slots(m_entity_list') : m_entity_list'[l].index \in {NullIndex} \cup Slots(m_entity_list')
    BY <1>2, <1>3 DEF Inv, TypeOK
  <2>3. \A i \in 1 .. Len(given') : given'[i].index \in Slots(m_entity_list')
    BY <1>2, <1>3 DEF Inv, TypeOK
  <2>4. m_free_head' \in {NullIndex} \cup Slots(m_entity_list') /\ gone' \in Nat
    BY <1>1, <1>3 DEF Inv, TypeOK
  <2> QED
    BY <2>1, <2>2, <2>3, <2>4 DEF TypeOK
<1>5. /\ LedTo(m_free_head, m_entity_list, k) /\ Vacant(m_entity_list, k)
      /\ \A l \in Slots(m_entity_list) : Vacant(m_entity_list', l) <=> l # k /\ Vacant(m_entity_list, l)
  BY <1>2 DEF Vacant, LedTo, Inv, ListSound
<1>6. /\ ~LedTo(m_free_head', m_entity_list', k)
      /\ \A l \in Slots(m_entity_list) :
           LedTo(m_free_head', m_entity_list', l) => LedTo(m_free_head, m_entity_list, l)
  <2>1. \A l \in Slots(m_entity_list) : Vacant(m_entity_list, l) => m_entity_list[l].index # k
    BY <1>3 DEF Inv, ListSound
  <2>2. m_free_head' # k
    BY <1>1, <1>5 DEF Vacant
  <2>3. ~LedTo(m_free_head', m_entity_list', k)
    BY <2>1, <2>2, <1>2, <1>3, <1>5 DEF LedTo
  <2>4. \A l \in Slots(m_entity_list) : l = m_free_head' => LedTo(m_free_head, m_entity_list, l)
    BY <1>1, <1>5 DEF LedTo
  <2>5. \A l, m \in Slots(m_entity_list) : Vacant(m_entity_list', m) /\ m_entity_list'[m].index = l
          => Vacant(m_entity_list, m) /\ m_entity_list[m].index = l
    BY <1>2, <1>5
  <2> QED
    BY <2>3, <2>4, <2>5, <1>3 DEF LedTo
<1>7. ListSound'
  <2>1. \A l \in Slots(m_entity_list) :
          Vacant(m_entity_list', l) /\ m_entity_list'[l].index = m_free_head' => m_free_head' = NullIndex
    BY <1>1, <1>2, <1>5 DEF Inv, ListSound
  <2> QED
    BY <2>1, <1>2, <1>3, <1>5, <1>6 DEF ListSound, Inv
<1>8. Fresh'
  <2> SUFFICES ASSUME NEW i \in 1 .. Len(given')
               PROVE  /\ LedTo(m_free_head', m_entity_list', given'[i].index)
                            => given'[i].version < m_entity_list'[given'[i].index].version
                      /\ ~Vacant(m_entity_list', given'[i].index)
                            => given'[i].version <= m_entity_list'[given'[i].index].version
    BY DEF Fresh
  <2>1. CASE i = g
    BY <2>1, <1>2, <1>6 DEF AnyHandle
  <2>2. CASE i \in 1 .. Len(given)
    <3>1. given'[i] = given[i] /\ given[i].index \in Slots(m_entity_list) /\ given[i].version \in Nat
      BY <2>2, <1>2, HandleOf DEF Inv, TypeOK
    <3>2. CASE given[i].index = k
      <4>1. given[i].version < m_entity_list[k].version /\ m_entity_list'[k].version = m_entity_list[k].version
        BY <3>2, <2>2, <1>2, <1>5 DEF Fresh, Inv
      <4>2. m_entity_list[k].version \in Nat
        BY HandleOf DEF Inv, TypeOK, Slots
      <4> QED
        BY <4>1, <4>2, <3>1, <3>2, <1>6
    <3>3. CASE given[i].index # k
      BY <3>1, <3>3, <2>2, <1>2, <1>5, <1>6 DEF Fresh, Inv
    <3> QED
      BY <3>2, <3>3
  <2> QED
    BY <2>1, <2>2, <1>3
<1>9. \A i \in 1 .. Len(given) : given[i] # h
  <2> SUFFICES ASSUME NEW i \in 1 .. Len(given), given[i] = h
               PROVE  FALSE
    OBVIOUS
  <2>1. given[i].index = k /\ given[i].version = m_entity_list[k].version
    BY <1>2
  <2>2. given[i].version < m_entity_list[k].version
    BY <2>1, <1>5 DEF Inv, Fresh
  <2>3. m_entity_list[k].version \in Nat
    BY HandleOf DEF Inv, TypeOK, Slots
  <2> QED
    BY <2>1, <2>2, <2>3
<1>10. Distinct'
  BY <1>9, <1>2, <1>3 DEF Distinct, Inv
<1>11. Counted'
  <2>1. h.index \in DOMAIN m_entity_list' /\ m_entity_list'[h.index] = h
    BY <1>2, <1>3, <1>4 DEF TypeOK, Slots
  <2>2. \A i \in 1 .. Len(given) :
          (given[i].index \in DOMAIN m_entity_list' /\ m_entity_list'[given[i].index] = given[i])
          <=> (given[i].index \in DOMAIN m_entity_list /\ m_entity_list[given[i].index] = given[i])
    <3> SUFFICES ASSUME NEW i \in 1 .. Len(given)
                 PROVE  m_entity_list'[given[i].index] = given[i] <=> m_entity_list[given[i].index] = given[i]
      BY <1>2, <1>3, <1>4 DEF Inv, TypeOK, Slots
    <3>1. given[i].index \in Slots(m_entity_list)
      BY DEF Inv, TypeOK
    <3>2. given[i].index = k => m_entity_list[k] # given[i] /\ m_entity_list'[k] # given[i]
      BY <1>2, <1>5, <1>9 DEF Vacant
    <3> QED
      BY <3>1, <3>2, <1>2
  <2>3. m_entity_list \in Seq(AnyHandle) /\ m_entity_list' \in Seq(AnyHandle) /\ given \in Seq(AnyHandle)
    BY <1>4 DEF Inv, TypeOK
  <2>4. Cardinality(Valid(m_entity_list', Append(given, h))) = Cardinality(Valid(m_entity_list, given)) + 1
    BY ONLY <2>1, <2>2, <2>3, h \in AnyHandle, GiveCounts
  <2> QED
    BY <2>3, <2>4, <1>1, <1>2, ValidFinite DEF Counted, Inv, TypeOK
<1> QED
  BY <1>4, <1>7, <1>8, <1>10, <1>11 DEF Inv

(* destroy() of a handle that was given. *)
LEMMA DestroyInv ==
  ASSUME Inv, NEW j \in 1 .. Len(given), Destroy(given[j])
  PROVE  Inv'
<1>a. PICK k \in Slots(m_entity_list) : k = given[j].index /\ m_entity_list[k] = given[j]
  BY DEF Destroy, IsValid, Inv, TypeOK
<1>b. PICK new \in AnyHandle :
        /\ m_entity_list' = [m_entity_list EXCEPT ![k] = new]
        /\ \/ new.index = NullIndex /\ m_free_head' = m_free_head
           \/ new.index = m_free_head /\ new.version = m_entity_list[k].version + 1 /\ m_free_head' = k
  <2>1. given[j].version \in Nat /\ m_free_head \in Nat
    BY HandleOf DEF Inv, TypeOK, Slots, NullIndex
  <2>2. CASE given[j].version = NullVersion
    BY <2>1, <2>2, <1>a, Null \in AnyHandle, Null.index = NullIndex DEF Destroy, Null, AnyHandle, NullIndex
  <2>3. CASE given[j].version # NullVersion
    BY <2>1, <2>3, <1>a, Handle(m_free_head, given[j].version + 1) \in AnyHandle DEF Destroy, Handle, AnyHandle
  <2> QED
    BY <2>2, <2>3
<1>1. given' = given /\ gone' = gone + 1
  BY DEF Destroy
<1>2. /\ Slots(m_entity_list') = Slots(m_entity_list)
      /\ \A l \in Slots(m_entity_list) : m_entity_list'[l] = IF l = k THEN new ELSE m_entity_list[l]
      /\ NullIndex \notin Slots(m_entity_list)
  BY <1>b DEF Slots, Inv, TypeOK, NullIndex
<1>3. TypeOK'
  <2>1. m_entity_list' \in Seq(AnyHandle)
    BY <1>b DEF Inv, TypeOK, Slots
  <2>2. \A l \in Slots(m_entity_list') : m_entity_list'[l].index \in {NullIndex} \cup Slots(m_entity_list')
    BY <1>b, <1>2 DEF Inv, TypeOK
  <2> QED
    BY <2>1, <2>2, <1>1, <1>2, <1>b DEF Inv, TypeOK
<1>4. /\ ~Vacant(m_entity_list, k) /\ ~LedTo(m_free_head, m_entity_list, k) /\ k # m_free_head
      /\ \A l \in Slots(m_entity_list) : Vacant(m_entity_list', l) <=> l = k \/ Vacant(m_entity_list, l)
  <2>1. ~Vacant(m_entity_list, k) /\ ~LedTo(m_free_head, m_entity_list, k)
    BY <1>a DEF Vacant, Inv, ListSound
  <2>2. k # m_free_head /\ k # NullIndex
    BY <2>1, <1>2 DEF LedTo
  <2> QED
    BY <2>1, <2>2, <1>2, <1>b DEF Vacant
<1>5. \A l \in Slots(m_entity_list) :
        LedTo(m_free_head', m_entity_list', l) => LedTo(m_free_head, m_entity_list, l) \/ (l = k /\ m_free_head' = k)
  BY <1>b, <1>2, <1>4 DEF LedTo
<1>6. ListSound'
  <2>1. \A l \in Slots(m_entity_list) : Vacant(m_entity_list, l) => m_entity_list[l].index # k
    BY <1>4 DEF LedTo
  <2>2. \A l \in Slots(m_entity_list) : LedTo(m_free_head', m_entity_list', l) => Vacant(m_entity_list', l)
    BY <1>4, <1>5 DEF Inv, ListSound
  <2>3. \A l \in Slots(m_entity_list) :
          Vacant(m_entity_list', l) /\ m_entity_list'[l].index = m_free_head' => m_free_head' = NullIndex
    BY <2>1, <1>b, <1>2, <1>4 DEF Inv, ListSound
  <2>4. \A l, m \in Slots(m_entity_list) :
          Vacant(m_entity_list', l) /\ Vacant(m_entity_list', m) /\ m_entity_list'[l].index = m_entity_list'[m].index
            => l = m \/ m_entity_list'[l].index = NullIndex
    BY <1>b, <1>2, <1>4 DEF Inv, ListSound
  <2> QED
    BY <2>2, <2>3, <2>4, <1>2 DEF ListSound
<1>7. Fresh'
  <2> SUFFICES ASSUME NEW i \in 1 .. Len(given)
               PROVE  /\ LedTo(m_free_head', m_entity_list', given[i].index)
                            => given[i].version < m_entity_list'[given[i].index].version
                      /\ ~Vacant(m_entity_list', given[i].index)
                            => given[i].version <= m_entity_list'[given[i].index].version
    BY <1>1 DEF Fresh
  <2>1. given[i].index \in Slots(m_entity_list) /\ given[i].version \in Nat /\ m_entity_list[k].version \in Nat
    BY HandleOf DEF Inv, TypeOK, Slots
  <2>2. CASE given[i].index = k
    <3>1. given[i].version <= m_entity_list[k].version
      BY <2>2, <1>4 DEF Inv, Fresh
    <3>2. m_free_head' = k => new.version = m_entity_list[k].version + 1
      BY <1>b, <1>4
    <3> QED
      BY <3>1, <3>2, <2>1, <2>2, <1>2, <1>4, <1>5
  <2>3. CASE given[i].index # k
    BY <2>1, <2>3, <1>2, <1>4, <1>5 DEF Inv, Fresh
  <2> QED
    BY <2>2, <2>3
<1>8. Distinct'
  BY <1>1 DEF Distinct, Inv
<1>9. Counted'
  <2>1. j \in Valid(m_entity_list, given)
    BY <1>a DEF Valid, Slots, Inv, TypeOK
  <2>2. \A i \in 1 .. Len(given) :
          (given[i].index \in DOMAIN m_entity_list' /\ m_entity_list'[given[i].index] = given[i])
          <=> (i # j /\ given[i].index \in DOMAIN m_entity_list /\ m_entity_list[given[i].index] = given[i])
    <3>0. \A i \in 1 .. Len(given) : given[i].index \in DOMAIN m_entity_list' /\ given[i].index \in DOMAIN m_entity_list
      BY <1>2, <1>3 DEF Inv, TypeOK, Slots
    <3> SUFFICES ASSUME NEW i \in 1 .. Len(given)
                 PROVE  (m_entity_list'[given[i].index] = given[i])
                        <=> (i # j /\ m_entity_list[given[i].index] = given[i])
      BY <3>0
    <3>1. CASE given[i].index = k
      <4>1. m_entity_list'[k] # given[i]
        BY <3>1, <1>2, <1>4 DEF Vacant
      <4>2. i # j => m_entity_list[k] # given[i]
        BY <1>a DEF Inv, Distinct
      <4> QED
        BY <4>1, <4>2, <3>1
    <3>2. CASE given[i].index # k
      BY <3>2, <1>a, <1>2 DEF Inv, TypeOK
    <3> QED
      BY <3>1, <3>2
  <2>3. given \in Seq(AnyHandle) /\ Len(given) \in Nat /\ gone \in Nat
    BY DEF Inv, TypeOK
  <2>4. Cardinality(Valid(m_entity_list', given)) = Cardinality(Valid(m_entity_list, given)) - 1
    BY ONLY <2>1, <2>2, <2>3, TakeCounts
  <2>5. Cardinality(Valid(m_entity_list, given)) = Len(given) - gone
    BY DEF Inv, Counted
  <2> QED
    BY <2>3, <2>4, <2>5, <1>1 DEF Counted
<1> QED
  BY <1>3, <1>6, <1>7, <1>8, <1>9 DEF Inv

LEMMA StepInv == Inv /\ [Next]_vars => Inv'
<1> SUFFICES ASSUME Inv, [Next]_vars PROVE Inv'
  OBVIOUS
<1>1. CASE Create
  BY <1>1, CreateNewInv, CreateAgainInv
<1>2. CASE \E i \in DOMAIN given : Destroy(given[i])
  BY <1>2, DestroyInv DEF Inv, TypeOK
<1>3. CASE UNCHANGED vars
  BY <1>3 DEF vars, Inv, TypeOK, ListSound, Fresh, Distinct, Counted
<1> QED
  BY <1>1, <1>2, <1>3 DEF Next

LEMMA InvDistinct == Inv => HandlesDistinct
<1> SUFFICES ASSUME Inv PROVE HandlesDistinct
  OBVIOUS
<1>1. DOMAIN given = 1 .. Len(given)
  BY DEF Inv, TypeOK
<1>2. {i \in DOMAIN given : IsValid(given[i])} = Valid(m_entity_list, given)
  BY <1>1 DEF Valid, IsValid
<1> QED
  BY <1>1, <1>2 DEF Inv, Distinct, Counted, HandlesDistinct

(* No handle is returned twice, for any width of the version: once the     *)
(* last version of an index is destroyed the index is not used again.      *)
THEOREM NoHandleTwice == Spec => []HandlesDistinct
<1>1. Init => Inv
  BY InitInv
<1>2. Inv /\ [Next]_vars => Inv'
  BY StepInv
<1>3. Inv => HandlesDistinct
  BY InvDistinct
<1> QED
  BY <1>1, <1>2, <1>3, PTL DEF Spec

-----------------------------------------------------------------------------
(* Packages made from glTF documents. *)

Stages == {"parse", "materials", "meshes", "await assets", "scenes", "await scenes", "converted", "committed", "failed"}
Places == {"none", "material", "albedo path", "normal", "normal path", "primitive", "bounds", "scene", "serialise", "done", "error"}
AssetJobs == MaterialJobs \cup PrimitiveJobs

GoodPart(m, p) ==
  [mesh |-> MeshEntry(m, p), bounds |-> TRUE, material |-> Expected(Document.meshes[m].primitives[p])]
GoodParts == UNION {{GoodPart(m, p) : p \in Primitives(m)} : m \in Meshes}
AnyEntity == [parent : Nat, parts : Seq(GoodParts)]
AnyCall == [parent : Nat, node : 1 .. Len(Document.nodes)]

(* Every part of every world is as it ought to be. *)
GltfTyped ==
  /\ stage \in Stages /\ item \in Nat \ {0} /\ part \in Nat \ {0}
  /\ futures \in Seq(AllJobs)
  /\ job \in [AllJobs -> Places]
  /\ calls \in [Scenes -> Seq(AnyCall)]
  /\ worlds \in [Scenes -> Seq(AnyEntity)]

(* What convert() has scheduled is in futures, and what it has gone past   *)
(* there is done.                                                          *)
InFutures(j) == \E k \in 1 .. Len(futures) : futures[k] = j
Scheduled ==
  /\ stage = "materials" => \A i \in Materials : i < item => InFutures(<<"material", i>>)
  /\ stage = "meshes" =>
       /\ \A i \in Materials : InFutures(<<"material", i>>)
       /\ \A m \in Meshes : \A p \in Primitives(m) :
            m < item \/ (m = item /\ p < part) => InFutures(<<"primitive", m, p>>)
  /\ stage = "await assets" => \A j \in AssetJobs : InFutures(j)
  /\ stage = "scenes" => \A s \in Scenes : s < item => InFutures(<<"scene", s>>)
  /\ stage = "await scenes" => \A s \in Scenes : InFutures(<<"scene", s>>)
  /\ stage \in {"await assets", "await scenes"} =>
       \A k \in 1 .. Len(futures) : k < item => job[futures[k]] = "done"

(* No scene is begun before all assets are done. *)
AssetsDone == \A j \in AssetJobs : job[j] = "done"
ScenesLast ==
  /\ stage \in {"parse", "materials", "meshes", "await assets"} => \A s \in Scenes : job[<<"scene", s>>] = "none"
  /\ stage \in {"scenes", "await scenes", "converted", "committed"} => AssetsDone
  /\ \A s \in Scenes : job[<<"scene", s>>] # "none" => AssetsDone
  /\ stage \in {"converted", "committed"} => \A s \in Scenes : job[<<"scene", s>>] = "done"

(* What the tasklets have left behind, by how far they are. *)
MaterialsKept ==
  /\ \A i \in DOMAIN m_albedo_paths :
       i \in Materials /\ Document.materials[i].albedo /\ m_albedo_paths[i] = Albedo(i)
  /\ \A i \in DOMAIN m_normal_paths :
       i \in Materials /\ Document.materials[i].normal /\ m_normal_paths[i] = Normal(i)
  /\ \A i \in Materials : Document.materials[i].albedo =>
       /\ job[<<"material", i>>] \in {"albedo path", "normal", "normal path", "done"} => <<Albedo(i), <<"material", i>>>> \in entries
       /\ job[<<"material", i>>] \in {"normal", "normal path", "done"} => i \in DOMAIN m_albedo_paths
  /\ \A i \in Materials : Document.materials[i].normal =>
       /\ job[<<"material", i>>] \in {"normal path", "done"} => <<Normal(i), <<"material", i>>>> \in entries
       /\ job[<<"material", i>>] = "done" => i \in DOMAIN m_normal_paths
PrimitivesKept == \A m \in Meshes : \A p \in Primitives(m) :
  /\ job[<<"primitive", m, p>>] \in {"bounds", "done"} => <<MeshEntry(m, p), <<"primitive", m, p>>>> \in entries
  /\ job[<<"primitive", m, p>>] = "done" => MeshName(m, p) \in m_mesh_bounds
ScenesKept == \A s \in Scenes :
  /\ job[<<"scene", s>>] \in {"serialise", "done"} => calls[s] = <<>>
  /\ job[<<"scene", s>>] = "done" => <<SceneEntry(s), <<"scene", s>>>> \in entries

(* An entry was made by the job that it is named after. *)
EntryOf(e) ==
  \/ \E i \in Materials : e = <<Albedo(i), <<"material", i>>>> \/ e = <<Normal(i), <<"material", i>>>>
  \/ \E m \in Meshes : \E p \in Primitives(m) : e = <<MeshEntry(m, p), <<"primitive", m, p>>>>
  \/ \E s \in Scenes : e = <<SceneEntry(s), <<"scene", s>>>>
EntriesKnown == \A e \in entries : EntryOf(e)

(* Parents come first. *)
ParentsFirst == \A s \in Scenes :
  /\ \A i \in 1 .. Len(worlds[s]) : worlds[s][i].parent < i
  /\ \A c \in 1 .. Len(calls[s]) : calls[s][c].parent <= Len(worlds[s])

GltfInv ==
  /\ GltfTyped /\ Scheduled /\ ScenesLast /\ MaterialsKept /\ PrimitivesKept /\ ScenesKept
  /\ EntriesKnown /\ ParentsFirst

LEMMA ElementOf == ASSUME NEW S, NEW s \in Seq(S), NEW i \in 1 .. Len(s) PROVE s[i] \in S
OBVIOUS

LEMMA TheDocument ==
  /\ Materials = 1 .. Len(Document.materials) /\ Meshes = 1 .. Len(Document.meshes) /\ Scenes = 1 .. Len(Document.scenes)
  /\ Len(Document.materials) \in Nat /\ Len(Document.meshes) \in Nat /\ Len(Document.scenes) \in Nat /\ Len(Document.nodes) \in Nat
  /\ \A i \in Materials : Document.materials[i] \in [name : STRING, albedo : BOOLEAN, normal : BOOLEAN]
  /\ \A m \in Meshes :
       /\ Document.meshes[m].name \in STRING
       /\ Document.meshes[m].primitives \in Seq(0 .. Len(Document.materials))
       /\ Primitives(m) = 1 .. Len(Document.meshes[m].primitives)
       /\ Len(Document.meshes[m].primitives) \in Nat
  /\ \A s \in Scenes : Document.scenes[s].roots \in Seq(1 .. Len(Document.nodes))
  /\ \A n \in 1 .. Len(Document.nodes) :
       Document.nodes[n].mesh \in 0 .. Len(Document.meshes) /\ Document.nodes[n].children \in Seq(1 .. Len(Document.nodes))
<1>1. Materials = 1 .. Len(Document.materials) /\ Meshes = 1 .. Len(Document.meshes) /\ Scenes = 1 .. Len(Document.scenes)
  BY DocumentAssumption DEF Materials, Meshes, Scenes
<1>2. Len(Document.materials) \in Nat /\ Len(Document.meshes) \in Nat /\ Len(Document.scenes) \in Nat /\ Len(Document.nodes) \in Nat
  BY DocumentAssumption
<1>3. \A i \in Materials : Document.materials[i] \in [name : STRING, albedo : BOOLEAN, normal : BOOLEAN]
  BY <1>1, DocumentAssumption, ElementOf, Zenon
<1>4. ASSUME NEW m \in Meshes
      PROVE  /\ Document.meshes[m].name \in STRING
             /\ Document.meshes[m].primitives \in Seq(0 .. Len(Document.materials))
             /\ Primitives(m) = 1 .. Len(Document.meshes[m].primitives)
             /\ Len(Document.meshes[m].primitives) \in Nat
  <2>1. Document.meshes[m] \in [name : STRING, primitives : Seq(0 .. Len(Document.materials))]
    BY <1>1, DocumentAssumption, ElementOf, Zenon
  <2> QED
    BY <2>1 DEF Primitives
<1>5. ASSUME NEW s \in Scenes PROVE Document.scenes[s].roots \in Seq(1 .. Len(Document.nodes))
  <2>1. Document.scenes[s] \in [name : STRING, roots : Seq(1 .. Len(Document.nodes))]
    BY <1>1, DocumentAssumption, ElementOf, Zenon
  <2> QED
    BY <2>1
<1>6. ASSUME NEW n \in 1 .. Len(Document.nodes)
      PROVE  Document.nodes[n].mesh \in 0 .. Len(Document.meshes) /\ Document.nodes[n].children \in Seq(1 .. Len(Document.nodes))
  <2>1. Document.nodes[n] \in [mesh : 0 .. Len(Document.meshes), children : Seq(1 .. Len(Document.nodes))]
    BY DocumentAssumption, ElementOf, Zenon
  <2> QED
    BY <2>1
<1> QED
  BY <1>1, <1>2, <1>3, <1>4, <1>5, <1>6

LEMMA Numbers ==
  /\ \A i \in Materials : i \in Nat \ {0} /\ i <= Len(Document.materials)
  /\ \A m \in Meshes : m \in Nat \ {0} /\ m <= Len(Document.meshes)
  /\ \A s \in Scenes : s \in Nat \ {0} /\ s <= Len(Document.scenes)
  /\ Len(Document.materials) \in Nat /\ Len(Document.meshes) \in Nat /\ Len(Document.scenes) \in Nat
<1>1. Materials = 1 .. Len(Document.materials) /\ Meshes = 1 .. Len(Document.meshes) /\ Scenes = 1 .. Len(Document.scenes)
  BY TheDocument
<1>2. Len(Document.materials) \in Nat /\ Len(Document.meshes) \in Nat /\ Len(Document.scenes) \in Nat
  BY TheDocument
<1> QED
  BY <1>1, <1>2

(* Jobs of different kinds, and of different items, differ. *)
LEMMA JobsDiffer ==
  /\ \A i, k : <<"material", i>> = <<"material", k>> => i = k
  /\ \A s, k : <<"scene", s>> = <<"scene", k>> => s = k
  /\ \A m, p, n, q : <<"primitive", m, p>> = <<"primitive", n, q>> => m = n /\ p = q
  /\ \A i, m, p : <<"material", i>> # <<"primitive", m, p>>
  /\ \A i, s : <<"material", i>> # <<"scene", s>>
  /\ \A s, m, p : <<"scene", s>> # <<"primitive", m, p>>
OBVIOUS

LEMMA JobsAre ==
  /\ \A i \in Materials : <<"material", i>> \in AllJobs /\ <<"material", i>> \in AssetJobs
  /\ \A m \in Meshes : \A p \in Primitives(m) : <<"primitive", m, p>> \in AllJobs /\ <<"primitive", m, p>> \in AssetJobs
  /\ \A s \in Scenes : <<"scene", s>> \in AllJobs /\ <<"scene", s>> \notin AssetJobs
  /\ AssetJobs \subseteq AllJobs
  /\ \A j \in AllJobs : j \in AssetJobs \/ \E s \in Scenes : j = <<"scene", s>>
  /\ \A j \in AssetJobs : (\E i \in Materials : j = <<"material", i>>) \/ (\E m \in Meshes : \E p \in Primitives(m) : j = <<"primitive", m, p>>)
BY JobsDiffer DEF AllJobs, AssetJobs, MaterialJobs, PrimitiveJobs, SceneJobs

(* Nodes become calls. *)
LEMMA CallsAreCalls ==
  ASSUME NEW parent \in Nat, NEW nodes \in Seq(1 .. Len(Document.nodes))
  PROVE  /\ CallsFor(parent, nodes) \in Seq(AnyCall)
         /\ Len(CallsFor(parent, nodes)) = Len(nodes)
         /\ \A c \in 1 .. Len(nodes) : CallsFor(parent, nodes)[c].parent = parent
<1> DEFINE made == [n \in DOMAIN nodes |-> [parent |-> parent, node |-> nodes[n]]]
<1>1. DOMAIN nodes = 1 .. Len(nodes) /\ Len(nodes) \in Nat
  OBVIOUS
<1>2. \A n \in 1 .. Len(nodes) : made[n] \in AnyCall /\ made[n].parent = parent
  BY <1>1 DEF AnyCall
<1>3. DOMAIN made = 1 .. Len(nodes)
  BY <1>1
<1>4. made \in Seq(AnyCall)
  BY <1>1, <1>2, <1>3
<1>5. Len(made) = Len(nodes)
  BY <1>1, <1>3, <1>4
<1> QED
  BY <1>2, <1>4, <1>5 DEF CallsFor

LEMMA GltfBegins == GltfInit => GltfInv
<1> SUFFICES ASSUME GltfInit PROVE GltfInv
  OBVIOUS
<1> USE DEF GltfInit
<1>1. GltfTyped
  <2>1. calls \in [Scenes -> Seq(AnyCall)]
    BY TheDocument, CallsAreCalls
  <2>2. worlds \in [Scenes -> Seq(AnyEntity)]
    OBVIOUS
  <2>3. job \in [AllJobs -> Places]
    BY DEF Places
  <2>4. futures \in Seq(AllJobs)
    OBVIOUS
  <2>5. stage \in Stages /\ item \in Nat \ {0} /\ part \in Nat \ {0}
    BY DEF Stages
  <2> QED
    BY <2>1, <2>2, <2>3, <2>4, <2>5 DEF GltfTyped
<1>2. Scheduled /\ ScenesLast
  BY JobsAre DEF Scheduled, ScenesLast
<1>3. MaterialsKept
  <2>1. DOMAIN m_albedo_paths = {} /\ DOMAIN m_normal_paths = {}
    OBVIOUS
  <2>2. \A i \in Materials : job[<<"material", i>>] = "none"
    BY JobsAre
  <2> QED
    BY <2>1, <2>2 DEF MaterialsKept
<1>6. PrimitivesKept
  BY JobsAre DEF PrimitivesKept
<1>4. ScenesKept /\ EntriesKnown
  BY JobsAre DEF ScenesKept, EntriesKnown
<1>5. ParentsFirst
  <2> SUFFICES ASSUME NEW s \in Scenes
               PROVE  /\ \A i \in 1 .. Len(worlds[s]) : worlds[s][i].parent < i
                      /\ \A c \in 1 .. Len(calls[s]) : calls[s][c].parent <= Len(worlds[s])
    BY DEF ParentsFirst
  <2> QED
    BY TheDocument, CallsAreCalls
<1> QED
  BY <1>1, <1>2, <1>3, <1>4, <1>5, <1>6 DEF GltfInv

-----------------------------------------------------------------------------
(* What every tasklet has left is kept while convert() goes on. *)
Kept == MaterialsKept /\ PrimitivesKept /\ ScenesKept /\ EntriesKnown /\ ParentsFirst

LEMMA StutterKeeps ==
  ASSUME Kept, UNCHANGED <<job, maps, entries, scenes>> PROVE Kept'
<1>1. job' = job /\ entries' = entries /\ calls' = calls /\ worlds' = worlds
      /\ m_albedo_paths' = m_albedo_paths /\ m_normal_paths' = m_normal_paths /\ m_mesh_bounds' = m_mesh_bounds
  BY DEF maps, scenes
<1> QED
  BY <1>1 DEF Kept, MaterialsKept, PrimitivesKept, ScenesKept, EntriesKnown, ParentsFirst

LEMMA ScheduleKeeps ==
  ASSUME GltfInv, NEW j \in AllJobs, j[1] \in {"material", "primitive", "scene"}, Schedules(j),
         UNCHANGED <<maps, entries, scenes>>
  PROVE  Kept'
<1>1. /\ entries' = entries /\ calls' = calls /\ worlds' = worlds
      /\ m_albedo_paths' = m_albedo_paths /\ m_normal_paths' = m_normal_paths /\ m_mesh_bounds' = m_mesh_bounds
  BY DEF maps, scenes
<1>2. \A k \in AllJobs : job'[k] = job[k] \/ job'[k] \in {"material", "primitive", "scene"}
  BY DEF GltfInv, GltfTyped, Schedules
<1>3. MaterialsKept'
  BY <1>1, <1>2, JobsAre DEF GltfInv, MaterialsKept
<1>4. PrimitivesKept'
  BY <1>1, <1>2, JobsAre DEF GltfInv, PrimitivesKept
<1>5. ScenesKept'
  BY <1>1, <1>2, JobsAre DEF GltfInv, ScenesKept
<1>6. EntriesKnown' /\ ParentsFirst'
  BY <1>1 DEF GltfInv, EntriesKnown, ParentsFirst
<1> QED
  BY <1>3, <1>4, <1>5, <1>6 DEF Kept

(* A job that is scheduled is the last of the futures. *)
LEMMA ScheduleAppends ==
  ASSUME GltfInv, NEW j \in AllJobs, j[1] \in Places, Schedules(j)
  PROVE  /\ futures' \in Seq(AllJobs) /\ job' \in [AllJobs -> Places]
         /\ InFutures(j)'
         /\ \A k \in AllJobs : InFutures(k) => InFutures(k)'
<1>1. futures' = Append(futures, j) /\ futures \in Seq(AllJobs) /\ job \in [AllJobs -> Places]
  BY DEF GltfInv, GltfTyped, Schedules
<1>2. Len(futures) \in Nat /\ Len(futures') = Len(futures) + 1 /\ futures'[Len(futures) + 1] = j
      /\ \A k \in 1 .. Len(futures) : futures'[k] = futures[k]
  BY <1>1
<1>3. job' \in [AllJobs -> Places]
  BY <1>1 DEF Schedules
<1>4. InFutures(j)'
  BY <1>2 DEF InFutures
<1>5. \A k \in AllJobs : InFutures(k) => InFutures(k)'
  BY <1>2 DEF InFutures
<1> QED
  BY <1>1, <1>3, <1>4, <1>5

LEMMA InvOf == ASSUME GltfTyped', Scheduled', ScenesLast', Kept' PROVE GltfInv'
BY DEF GltfInv, Kept

LEMMA InvIs == ASSUME GltfInv PROVE GltfTyped /\ Scheduled /\ ScenesLast /\ Kept
BY DEF GltfInv, Kept

LEMMA GoesTyped ==
  ASSUME GltfTyped, NEW to \in Stages, GoesTo(to), futures' \in Seq(AllJobs), UNCHANGED <<job, scenes>>
  PROVE  GltfTyped'
<1>1. stage' \in Stages /\ item' = 1 /\ part' = 1 /\ job' = job /\ calls' = calls /\ worlds' = worlds
  BY DEF GoesTo, scenes
<1>2. item' \in Nat \ {0} /\ part' \in Nat \ {0}
  BY <1>1
<1>3. job' \in [AllJobs -> Places] /\ calls' \in [Scenes -> Seq(AnyCall)] /\ worlds' \in [Scenes -> Seq(AnyEntity)]
  BY <1>1 DEF GltfTyped
<1> QED
  BY <1>1, <1>2, <1>3 DEF GltfTyped

(* An error, or a phase that begins with nothing to be scheduled. *)
LEMMA FailsKeeps == ASSUME GltfInv, Fails, UNCHANGED <<maps, entries, scenes>> PROVE GltfInv'
<1>0. GltfTyped /\ Scheduled /\ ScenesLast /\ Kept
  BY InvIs
<1>1. stage' = "failed" /\ item' = 1 /\ part' = 1 /\ futures' = futures /\ job' = job /\ calls' = calls /\ worlds' = worlds
  BY DEF Fails, GoesTo, scenes
<1>2. GltfTyped'
  <2>1. "failed" \in Stages /\ GoesTo("failed") /\ UNCHANGED <<job, scenes>> /\ futures' \in Seq(AllJobs)
    BY <1>0 DEF Fails, Stages, GltfTyped
  <2> QED
    BY <1>0, <2>1, GoesTyped
<1>3. Scheduled'
  BY <1>1 DEF Scheduled
<1>4. ScenesLast'
  BY <1>0, <1>1 DEF ScenesLast, AssetsDone
<1>5. Kept'
  BY <1>0, <1>1, StutterKeeps
<1> QED
  BY <1>2, <1>3, <1>4, <1>5, InvOf

LEMMA ParseKeeps == ASSUME GltfInv, Parse PROVE GltfInv'
<1>0. GltfTyped /\ Scheduled /\ ScenesLast /\ Kept
  BY InvIs
<1>1. /\ stage = "parse" /\ stage' \in {"materials", "failed"} /\ item' = 1 /\ part' = 1
      /\ futures' = futures /\ job' = job /\ calls' = calls /\ worlds' = worlds
  BY DEF Parse, GoesTo, scenes
<1>2. GltfTyped'
  <2>1. PICK to \in Stages : GoesTo(to)
    BY DEF Parse, Stages
  <2>2. UNCHANGED <<job, scenes>> /\ futures' \in Seq(AllJobs)
    BY <1>0, <1>1 DEF GltfTyped, scenes
  <2> QED
    BY <1>0, <2>1, <2>2, GoesTyped
<1>3. Scheduled'
  <2>1. \A i \in Materials : ~(i < item')
    BY <1>1, TheDocument
  <2> QED
    BY <1>1, <2>1 DEF Scheduled
<1>4. ScenesLast'
  BY <1>0, <1>1 DEF ScenesLast, AssetsDone
<1>5. Kept'
  BY <1>0, <1>1, StutterKeeps DEF Parse
<1> QED
  BY <1>2, <1>3, <1>4, <1>5, InvOf

LEMMA CommitKeeps == ASSUME GltfInv, CommitPackage PROVE GltfInv'
<1>0. GltfTyped /\ Scheduled /\ ScenesLast /\ Kept
  BY InvIs
<1>1. /\ stage = "converted" /\ stage' = "committed" /\ item' = 1 /\ part' = 1
      /\ futures' = futures /\ job' = job /\ calls' = calls /\ worlds' = worlds
  BY DEF CommitPackage, GoesTo, scenes
<1>2. GltfTyped'
  <2>1. "committed" \in Stages /\ GoesTo("committed") /\ UNCHANGED <<job, scenes>> /\ futures' \in Seq(AllJobs)
    BY <1>0 DEF CommitPackage, Stages, GltfTyped
  <2> QED
    BY <1>0, <2>1, GoesTyped
<1>3. Scheduled'
  BY <1>1 DEF Scheduled
<1>4. ScenesLast'
  BY <1>0, <1>1 DEF ScenesLast, AssetsDone
<1>5. Kept'
  BY <1>0, <1>1, StutterKeeps DEF CommitPackage
<1> QED
  BY <1>2, <1>3, <1>4, <1>5, InvOf

LEMMA ScheduleMaterialKeeps == ASSUME GltfInv, ScheduleMaterial PROVE GltfInv'
<1>1. stage = "materials" /\ UNCHANGED <<maps, entries, scenes>> /\ calls' = calls /\ worlds' = worlds
  BY DEF ScheduleMaterial, scenes
<1>2. GltfTyped /\ Scheduled /\ ScenesLast /\ Kept
  BY InvIs
<1>3. CASE item > Len(Document.materials) /\ GoesTo("meshes") /\ UNCHANGED <<futures, job>>
  <2>1. stage' = "meshes" /\ item' = 1 /\ part' = 1 /\ futures' = futures /\ job' = job
    BY <1>3 DEF GoesTo
  <2>2. GltfTyped'
    <3>1. "meshes" \in Stages /\ UNCHANGED <<job, scenes>> /\ futures' \in Seq(AllJobs)
      BY <1>1, <1>2, <2>1 DEF Stages, GltfTyped, scenes
    <3> QED
      BY <1>2, <1>3, <3>1, GoesTyped
  <2>3. \A i \in Materials : InFutures(<<"material", i>>)'
    <3> SUFFICES ASSUME NEW i \in Materials PROVE InFutures(<<"material", i>>)'
      OBVIOUS
    <3>1. i < item
      BY <1>2, <1>3, TheDocument DEF GltfTyped
    <3> QED
      BY <1>1, <1>2, <2>1, <3>1 DEF Scheduled, InFutures
  <2>4. Scheduled'
    <3>1. \A m \in Meshes : \A p \in Primitives(m) : ~(m < item' \/ (m = item' /\ p < part'))
      BY <2>1, TheDocument
    <3> QED
      BY <2>1, <2>3, <3>1 DEF Scheduled
  <2>5. ScenesLast'
    BY <1>1, <1>2, <2>1 DEF ScenesLast, AssetsDone
  <2>6. Kept'
    BY <1>1, <1>2, <2>1, StutterKeeps
  <2> QED
    BY <2>2, <2>4, <2>5, <2>6, InvOf
<1>4. CASE Fails
  BY <1>1, <1>4, FailsKeeps
<1>5. CASE ~(item > Len(Document.materials)) /\ Schedules(<<"material", item>>) /\ item' = item + 1 /\ UNCHANGED <<stage, part>>
  <2>1. item \in Materials
    BY <1>2, <1>5, TheDocument DEF GltfTyped
  <2>2. PICK j \in AllJobs : j = <<"material", item>> /\ j[1] = "material"
    BY <2>1, JobsAre
  <2>8. Schedules(j)
    BY <1>5, <2>2
  <2>3. /\ futures' \in Seq(AllJobs) /\ job' \in [AllJobs -> Places] /\ InFutures(j)'
        /\ \A k \in AllJobs : InFutures(k) => InFutures(k)'
    BY <2>2, <2>8, ScheduleAppends DEF Places
  <2>4. GltfTyped'
    BY <1>1, <1>2, <1>5, <2>3 DEF GltfTyped
  <2>5. Scheduled'
    <3> SUFFICES ASSUME NEW i \in Materials, i < item + 1 PROVE InFutures(<<"material", i>>)'
      BY <1>1, <1>5 DEF Scheduled
    <3>1. CASE i = item
      BY <2>2, <2>3, <3>1
    <3>2. CASE i < item
      <4>1. InFutures(<<"material", i>>)
        BY <1>1, <1>2, <3>2 DEF Scheduled
      <4>2. <<"material", i>> \in AllJobs
        BY JobsAre
      <4> QED
        BY <2>3, <4>1, <4>2, Zenon
    <3> QED
      BY <1>2, <3>1, <3>2, TheDocument DEF GltfTyped
  <2>6. ScenesLast'
    <3>1. \A s \in Scenes : job'[<<"scene", s>>] = job[<<"scene", s>>]
      BY <1>2, <2>2, <2>8, JobsAre, JobsDiffer DEF Schedules, GltfTyped
    <3> QED
      BY <1>1, <1>2, <1>5, <3>1 DEF ScenesLast
  <2>7. Kept'
    BY <1>1, <2>2, <2>8, ScheduleKeeps
  <2> QED
    BY <2>4, <2>5, <2>6, <2>7, InvOf
<1> QED
  BY <1>3, <1>4, <1>5 DEF ScheduleMaterial

(* Scenes are not begun by a job of another kind. *)
LEMMA NotScenes ==
  ASSUME GltfInv, NEW j \in AssetJobs, Schedules(j), stage' = stage, stage = "materials" \/ stage = "meshes"
  PROVE  ScenesLast'
<1>1. \A s \in Scenes : job'[<<"scene", s>>] = job[<<"scene", s>>]
  BY JobsAre, JobsDiffer DEF Schedules, GltfTyped, GltfInv
<1> QED
  BY <1>1 DEF GltfInv, ScenesLast

LEMMA SchedulePrimitiveKeeps == ASSUME GltfInv, SchedulePrimitive PROVE GltfInv'
<1>1. stage = "meshes" /\ UNCHANGED <<maps, entries, scenes>> /\ calls' = calls /\ worlds' = worlds
  BY DEF SchedulePrimitive, scenes
<1>2. GltfTyped /\ Scheduled /\ ScenesLast /\ Kept /\ item \in Nat \ {0} /\ part \in Nat \ {0}
  BY InvIs DEF GltfTyped
<1>3. /\ \A i \in Materials : InFutures(<<"material", i>>)
      /\ \A m \in Meshes : \A p \in Primitives(m) :
           m < item \/ (m = item /\ p < part) => InFutures(<<"primitive", m, p>>)
  BY <1>1, <1>2 DEF Scheduled
<1>4. CASE item > Len(Document.meshes) /\ GoesTo("await assets") /\ UNCHANGED <<futures, job>>
  <2>1. stage' = "await assets" /\ item' = 1 /\ part' = 1 /\ futures' = futures /\ job' = job
    BY <1>4 DEF GoesTo
  <2>2. GltfTyped'
    <3>1. "await assets" \in Stages /\ UNCHANGED <<job, scenes>> /\ futures' \in Seq(AllJobs)
      BY <1>1, <1>2, <2>1 DEF Stages, GltfTyped, scenes
    <3> QED
      BY <1>2, <1>4, <3>1, GoesTyped
  <2>3. \A j \in AssetJobs : InFutures(j)'
    <3>0. item \in Nat /\ item > Len(Document.meshes)
      BY <1>2, <1>4
    <3>1. \A m \in Meshes : m < item
      BY <3>0, Numbers
    <3>2. \A j \in AssetJobs : InFutures(j)
      BY <1>3, <3>1, JobsAre
    <3> QED
      BY <2>1, <3>2 DEF InFutures
  <2>4. Scheduled'
    <3>1. \A k \in 1 .. Len(futures') : ~(k < item')
      <4>1. futures' \in Seq(AllJobs) /\ item' = 1
        BY <1>2, <2>1 DEF GltfTyped
      <4>2. Len(futures') \in Nat
        BY <4>1
      <4> QED
        BY <4>1, <4>2
    <3> QED
      BY <2>1, <2>3, <3>1 DEF Scheduled
  <2>5. ScenesLast'
    BY <1>1, <1>2, <2>1 DEF ScenesLast, AssetsDone
  <2>6. Kept'
    BY <1>1, <1>2, <2>1, StutterKeeps
  <2> QED
    BY <2>2, <2>4, <2>5, <2>6, InvOf
<1>5. CASE Fails
  BY <1>1, <1>5, FailsKeeps
<1>6. CASE item \in Meshes /\ part \notin Primitives(item) /\ item' = item + 1 /\ part' = 1 /\ UNCHANGED <<stage, futures, job>>
  <2>1. GltfTyped'
    BY <1>1, <1>2, <1>6 DEF GltfTyped
  <2>2. Scheduled'
    <3> SUFFICES ASSUME NEW m \in Meshes, NEW p \in Primitives(m), m < item + 1 \/ (m = item + 1 /\ p < 1)
                 PROVE  InFutures(<<"primitive", m, p>>)
      BY <1>1, <1>3, <1>6 DEF Scheduled, InFutures
    <3>1. m \in Nat /\ p \in Nat \ {0} /\ Primitives(m) = 1 .. Len(Document.meshes[m].primitives)
      BY TheDocument
    <3>2. CASE m < item
      BY <1>3, <3>2
    <3>3. CASE m = item
      <4>1. p < part
        BY <1>2, <1>6, <3>1, <3>3, TheDocument
      <4> QED
        BY <1>3, <3>3, <4>1
    <3> QED
      BY <1>2, <3>1, <3>2, <3>3
  <2>3. ScenesLast'
    BY <1>1, <1>2, <1>6 DEF ScenesLast, AssetsDone
  <2>4. Kept'
    BY <1>1, <1>2, <1>6, StutterKeeps
  <2> QED
    BY <2>1, <2>2, <2>3, <2>4, InvOf
<1>7. CASE item \in Meshes /\ part \in Primitives(item) /\ Schedules(<<"primitive", item, part>>) /\ part' = part + 1 /\ UNCHANGED <<stage, item>>
  <2>1. PICK j \in AssetJobs : j = <<"primitive", item, part>> /\ j[1] = "primitive" /\ j \in AllJobs
    BY <1>7, JobsAre
  <2>2. Schedules(j)
    BY <1>7, <2>1
  <2>3. /\ futures' \in Seq(AllJobs) /\ job' \in [AllJobs -> Places] /\ InFutures(j)'
        /\ \A k \in AllJobs : InFutures(k) => InFutures(k)'
    BY <2>1, <2>2, ScheduleAppends DEF Places
  <2>4. GltfTyped'
    BY <1>1, <1>2, <1>7, <2>3 DEF GltfTyped
  <2>5. \A i \in Materials : InFutures(<<"material", i>>)'
    BY <1>3, <2>3, JobsAre
  <2>6. Scheduled'
    <3> SUFFICES ASSUME NEW m \in Meshes, NEW p \in Primitives(m), m < item \/ (m = item /\ p < part + 1)
                 PROVE  InFutures(<<"primitive", m, p>>)'
      BY <1>1, <1>7, <2>5 DEF Scheduled
    <3>1. p \in Nat
      <4>1. Primitives(m) = 1 .. Len(Document.meshes[m].primitives)
        BY TheDocument
      <4> QED
        BY <4>1
    <3>2. CASE m < item \/ (m = item /\ p < part)
      <4>1. InFutures(<<"primitive", m, p>>)
        BY <1>3, <3>2
      <4>2. <<"primitive", m, p>> \in AllJobs
        BY JobsAre
      <4> QED
        BY <2>3, <4>1, <4>2, Zenon
    <3>3. CASE m = item /\ p = part
      BY <2>1, <2>3, <3>3
    <3> QED
      BY <1>2, <3>1, <3>2, <3>3
  <2>7. ScenesLast'
    BY <1>1, <1>7, <2>2, NotScenes
  <2>8. Kept'
    BY <1>1, <2>1, <2>2, ScheduleKeeps
  <2> QED
    BY <2>4, <2>6, <2>7, <2>8, InvOf
<1>8. item > Len(Document.meshes) \/ item \in Meshes
  BY <1>2, TheDocument
<1>9. ~(item > Len(Document.meshes) /\ item \in Meshes)
  BY <1>2, TheDocument
<1> QED
  BY <1>4, <1>5, <1>6, <1>7, <1>8, <1>9 DEF SchedulePrimitive

LEMMA ScheduleSceneKeeps == ASSUME GltfInv, ScheduleScene PROVE GltfInv'
<1>1. stage = "scenes" /\ UNCHANGED <<maps, entries, scenes>> /\ calls' = calls /\ worlds' = worlds
  BY DEF ScheduleScene, scenes
<1>2. GltfTyped /\ Scheduled /\ ScenesLast /\ Kept /\ item \in Nat \ {0}
  BY InvIs DEF GltfTyped
<1>3. CASE item > Len(Document.scenes) /\ GoesTo("await scenes") /\ UNCHANGED <<futures, job>>
  <2>1. stage' = "await scenes" /\ item' = 1 /\ part' = 1 /\ futures' = futures /\ job' = job
    BY <1>3 DEF GoesTo
  <2>2. GltfTyped'
    <3>1. "await scenes" \in Stages /\ UNCHANGED <<job, scenes>> /\ futures' \in Seq(AllJobs)
      BY <1>1, <1>2, <2>1 DEF Stages, GltfTyped, scenes
    <3> QED
      BY <1>2, <1>3, <3>1, GoesTyped
  <2>3. \A s \in Scenes : InFutures(<<"scene", s>>)'
    <3>0. item \in Nat /\ item > Len(Document.scenes)
      BY <1>2, <1>3
    <3>1. \A s \in Scenes : s < item
      BY <3>0, Numbers
    <3> QED
      BY <1>1, <1>2, <2>1, <3>1 DEF Scheduled, InFutures
  <2>4. Scheduled'
    <3>1. \A k \in 1 .. Len(futures') : ~(k < item')
      <4>1. futures' \in Seq(AllJobs) /\ item' = 1
        BY <1>2, <2>1 DEF GltfTyped
      <4>2. Len(futures') \in Nat
        BY <4>1
      <4> QED
        BY <4>1, <4>2
    <3> QED
      BY <2>1, <2>3, <3>1 DEF Scheduled
  <2>5. ScenesLast'
    BY <1>1, <1>2, <2>1 DEF ScenesLast, AssetsDone
  <2>6. Kept'
    BY <1>1, <1>2, <2>1, StutterKeeps
  <2> QED
    BY <2>2, <2>4, <2>5, <2>6, InvOf
<1>4. CASE Fails
  BY <1>1, <1>4, FailsKeeps
<1>5. CASE ~(item > Len(Document.scenes)) /\ Schedules(<<"scene", item>>) /\ item' = item + 1 /\ UNCHANGED <<stage, part>>
  <2>1. item \in Scenes
    BY <1>2, <1>5, TheDocument
  <2>2. PICK j \in AllJobs : j = <<"scene", item>> /\ j[1] = "scene" /\ j \notin AssetJobs
    BY <2>1, JobsAre
  <2>3. Schedules(j)
    BY <1>5, <2>2
  <2>4. /\ futures' \in Seq(AllJobs) /\ job' \in [AllJobs -> Places] /\ InFutures(j)'
        /\ \A k \in AllJobs : InFutures(k) => InFutures(k)'
    BY <2>2, <2>3, ScheduleAppends DEF Places
  <2>5. GltfTyped'
    BY <1>1, <1>2, <1>5, <2>4 DEF GltfTyped
  <2>6. Scheduled'
    <3> SUFFICES ASSUME NEW s \in Scenes, s < item + 1 PROVE InFutures(<<"scene", s>>)'
      BY <1>1, <1>5 DEF Scheduled
    <3>1. CASE s = item
      BY <2>2, <2>4, <3>1
    <3>2. CASE s < item
      <4>1. InFutures(<<"scene", s>>)
        BY <1>1, <1>2, <3>2 DEF Scheduled
      <4>2. <<"scene", s>> \in AllJobs
        BY JobsAre
      <4> QED
        BY <2>4, <4>1, <4>2, Zenon
    <3> QED
      BY <1>2, <3>1, <3>2, TheDocument
  <2>7. ScenesLast'
    <3>1. AssetsDone
      BY <1>1, <1>2 DEF ScenesLast
    <3>2. \A k \in AssetJobs : job'[k] = job[k]
      BY <1>2, <2>2, <2>3, JobsAre DEF Schedules, GltfTyped
    <3>3. AssetsDone'
      BY <3>1, <3>2 DEF AssetsDone
    <3> QED
      BY <1>1, <1>5, <3>3 DEF ScenesLast
  <2>8. Kept'
    BY <1>1, <2>2, <2>3, ScheduleKeeps
  <2> QED
    BY <2>5, <2>6, <2>7, <2>8, InvOf
<1> QED
  BY <1>3, <1>4, <1>5 DEF ScheduleScene

LEMMA AwaitKeeps == ASSUME GltfInv, Await PROVE GltfInv'
<1>1. stage \in {"await assets", "await scenes"} /\ UNCHANGED <<maps, entries, scenes>> /\ calls' = calls /\ worlds' = worlds
  BY DEF Await, scenes
<1>2. /\ GltfTyped /\ Scheduled /\ ScenesLast /\ Kept
      /\ item \in Nat \ {0} /\ futures \in Seq(AllJobs) /\ Len(futures) \in Nat
  BY InvIs DEF GltfTyped
<1>3. \A k \in 1 .. Len(futures) : k < item => job[futures[k]] = "done"
  BY <1>1, <1>2 DEF Scheduled
<1>4. CASE item > Len(futures) /\ GoesTo(AfterAwait) /\ futures' = <<>> /\ UNCHANGED job
  <2>1. stage' = AfterAwait /\ item' = 1 /\ part' = 1 /\ futures' = <<>> /\ job' = job
    BY <1>4 DEF GoesTo
  <2>2. AfterAwait = (IF stage = "await assets" THEN "scenes" ELSE "converted")
    BY DEF AfterAwait
  <2>3. GltfTyped'
    <3>1. AfterAwait \in Stages
      BY <2>2 DEF Stages
    <3>2. UNCHANGED <<job, scenes>>
      BY <1>1, <2>1 DEF scenes
    <3>3. futures' \in Seq(AllJobs)
      BY <2>1
    <3> QED
      BY <1>2, <1>4, <3>1, <3>2, <3>3, GoesTyped
  <2>4. \A k \in 1 .. Len(futures) : job[futures[k]] = "done"
    BY <1>2, <1>3, <1>4
  <2>5. \A j : InFutures(j) => job[j] = "done"
    BY <2>4 DEF InFutures
  <2>6. CASE stage = "await assets"
    <3>1. AssetsDone
      BY <1>2, <2>5, <2>6 DEF Scheduled, AssetsDone
    <3>5. \A s \in Scenes : ~(s < item')
      BY <2>1, Numbers
    <3>2. stage' = "scenes" /\ \A s \in Scenes : ~(s < item')
      BY <2>1, <2>2, <2>6, <3>5
    <3>3. Scheduled'
      BY <3>2 DEF Scheduled
    <3>4. ScenesLast'
      BY <2>1, <3>1, <3>2 DEF ScenesLast, AssetsDone
    <3> QED
      BY <1>1, <1>2, <2>1, <2>3, <3>3, <3>4, InvOf, StutterKeeps
  <2>7. CASE stage = "await scenes"
    <3>1. \A s \in Scenes : job[<<"scene", s>>] = "done"
      BY <1>2, <2>5, <2>7 DEF Scheduled
    <3>2. stage' = "converted"
      BY <2>1, <2>2, <2>7
    <3>3. Scheduled'
      BY <3>2 DEF Scheduled
    <3>4. ScenesLast'
      BY <1>2, <2>1, <2>7, <3>1, <3>2 DEF ScenesLast, AssetsDone
    <3> QED
      BY <1>1, <1>2, <2>1, <2>3, <3>3, <3>4, InvOf, StutterKeeps
  <2> QED
    BY <1>1, <2>6, <2>7
<1>5. CASE Fails
  BY <1>1, <1>5, FailsKeeps
<1>6. CASE ~(item > Len(futures)) /\ job[futures[item]] = "done" /\ item' = item + 1 /\ UNCHANGED <<stage, part, futures, job>>
  <2>1. GltfTyped'
    <3>1. item' \in Nat \ {0}
      BY <1>2, <1>6
    <3> QED
      BY <1>1, <1>2, <1>6, <3>1 DEF GltfTyped
  <2>2. \A k \in 1 .. Len(futures') : k < item' => job'[futures'[k]] = "done"
    BY <1>2, <1>3, <1>6
  <2>3. Scheduled'
    BY <1>1, <1>2, <1>6, <2>2 DEF Scheduled, InFutures
  <2>4. ScenesLast'
    BY <1>2, <1>6 DEF ScenesLast, AssetsDone
  <2>5. Kept'
    BY <1>1, <1>2, <1>6, StutterKeeps
  <2> QED
    BY <2>1, <2>3, <2>4, <2>5, InvOf
<1> QED
  BY <1>4, <1>5, <1>6 DEF Await

-----------------------------------------------------------------------------
(* A step of a tasklet. *)
LEMMA StepIs ==
  ASSUME GltfInv, NEW j \in AllJobs, NEW place, NEW then \in Places, Step(j, place, then)
  PROVE  /\ job[j] = place /\ job'[j] = then /\ (\A k \in AllJobs : k # j => job'[k] = job[k])
         /\ job' \in [AllJobs -> Places]
         /\ stage' = stage /\ item' = item /\ part' = part /\ futures' = futures
<1>1. job \in [AllJobs -> Places]
  BY DEF GltfInv, GltfTyped
<1>2. job[j] = place /\ job' = [job EXCEPT ![j] = then] /\ futures' = futures /\ stage' = stage /\ item' = item /\ part' = part
  BY DEF Step, progress
<1> QED
  BY <1>1, <1>2

(* A tasklet ends once, and leaves what convert() has awaited alone. *)
LEMMA StepFrame ==
  ASSUME GltfInv, NEW j \in AllJobs, NEW place \in Places \ {"none", "done"}, NEW then \in Places, Step(j, place, then),
         calls' \in [Scenes -> Seq(AnyCall)], worlds' \in [Scenes -> Seq(AnyEntity)]
  PROVE  GltfTyped' /\ Scheduled' /\ ScenesLast'
<1>1. /\ job[j] = place /\ job'[j] = then /\ (\A k \in AllJobs : k # j => job'[k] = job[k])
      /\ job' \in [AllJobs -> Places]
      /\ stage' = stage /\ item' = item /\ part' = part /\ futures' = futures
  BY StepIs
<1>2. GltfTyped /\ Scheduled /\ ScenesLast
  BY DEF GltfInv
<1>3. GltfTyped'
  BY <1>1, <1>2 DEF GltfTyped
<1>4. \A k \in AllJobs : job[k] = "done" => job'[k] = "done"
  BY <1>1
<1>5. \A k \in AllJobs : job[k] = "none" => job'[k] = "none"
  BY <1>1
<1>6. \A k \in AllJobs : job'[k] # "none" => job[k] # "none"
  BY <1>5
<1>7. Scheduled'
  <2>1. \A k \in 1 .. Len(futures) : futures[k] \in AllJobs
    BY <1>2 DEF GltfTyped
  <2>2. \A k : InFutures(k)' <=> InFutures(k)
    BY <1>1 DEF InFutures
  <2>3. stage \in {"await assets", "await scenes"} => \A k \in 1 .. Len(futures) : k < item => job'[futures[k]] = "done"
    BY <1>2, <1>4, <2>1 DEF Scheduled
  <2> QED
    BY <1>1, <1>2, <2>2, <2>3 DEF Scheduled
<1>8. ScenesLast'
  <2>1. AssetsDone => AssetsDone'
    BY <1>4, JobsAre DEF AssetsDone
  <2>2. \A s \in Scenes : <<"scene", s>> \in AllJobs
    BY JobsAre
  <2> QED
    BY <1>1, <1>2, <1>4, <1>5, <1>6, <2>1, <2>2 DEF ScenesLast
<1> QED
  BY <1>3, <1>7, <1>8

(* What a step of another kind of job keeps. *)
LEMMA MaterialsStay ==
  ASSUME MaterialsKept, entries \subseteq entries', m_albedo_paths' = m_albedo_paths, m_normal_paths' = m_normal_paths,
         \A i \in Materials : job'[<<"material", i>>] \in {job[<<"material", i>>], "error"}
  PROVE  MaterialsKept'
<1>1. \A i \in Materials : job'[<<"material", i>>] = job[<<"material", i>>] \/ job'[<<"material", i>>] = "error"
  OBVIOUS
<1>2. \A e : e \in entries => e \in entries'
  OBVIOUS
<1>3. ASSUME NEW i \in Materials, Document.materials[i].albedo
      PROVE  /\ job'[<<"material", i>>] \in {"albedo path", "normal", "normal path", "done"} => <<Albedo(i), <<"material", i>>>> \in entries'
             /\ job'[<<"material", i>>] \in {"normal", "normal path", "done"} => i \in DOMAIN m_albedo_paths'
  BY <1>1, <1>2, <1>3 DEF MaterialsKept
<1>4. ASSUME NEW i \in Materials, Document.materials[i].normal
      PROVE  /\ job'[<<"material", i>>] \in {"normal path", "done"} => <<Normal(i), <<"material", i>>>> \in entries'
             /\ job'[<<"material", i>>] = "done" => i \in DOMAIN m_normal_paths'
  BY <1>1, <1>2, <1>4 DEF MaterialsKept
<1> QED
  BY <1>3, <1>4 DEF MaterialsKept, Albedo, Normal

LEMMA PrimitivesStay ==
  ASSUME PrimitivesKept, entries \subseteq entries', m_mesh_bounds' = m_mesh_bounds,
         \A m \in Meshes : \A p \in Primitives(m) : job'[<<"primitive", m, p>>] \in {job[<<"primitive", m, p>>], "error"}
  PROVE  PrimitivesKept'
<1>1. \A m \in Meshes : \A p \in Primitives(m) :
        job'[<<"primitive", m, p>>] = job[<<"primitive", m, p>>] \/ job'[<<"primitive", m, p>>] = "error"
  OBVIOUS
<1>2. \A e : e \in entries => e \in entries'
  OBVIOUS
<1> QED
  BY <1>1, <1>2 DEF PrimitivesKept

LEMMA ScenesStay ==
  ASSUME ScenesKept, entries \subseteq entries', calls' = calls,
         \A s \in Scenes : job'[<<"scene", s>>] \in {job[<<"scene", s>>], "error"}
  PROVE  ScenesKept'
<1>1. \A s \in Scenes : job'[<<"scene", s>>] = job[<<"scene", s>>] \/ job'[<<"scene", s>>] = "error"
  OBVIOUS
<1>2. \A e : e \in entries => e \in entries'
  OBVIOUS
<1> QED
  BY <1>1, <1>2 DEF ScenesKept

LEMMA EntryOfStays == \A f : EntryOf(f)' <=> EntryOf(f)
BY DEF EntryOf, Albedo, Normal, MeshEntry, MeshName, SceneEntry, Materials, Meshes, Primitives, Scenes

LEMMA EntriesStay == ASSUME EntriesKnown, NEW e, entries' \in {entries, entries \cup {e}}, EntryOf(e) PROVE EntriesKnown'
<1>1. \A f : EntryOf(f)' <=> EntryOf(f)
  BY EntryOfStays
<1>2. \A f \in entries' : f \in entries \/ f = e
  OBVIOUS
<1> QED
  BY <1>1, <1>2 DEF EntriesKnown

LEMMA WorldsStay == ASSUME ParentsFirst, calls' = calls, worlds' = worlds PROVE ParentsFirst'
BY DEF ParentsFirst

LEMMA KeptIs ==
  ASSUME MaterialsKept', PrimitivesKept', ScenesKept', EntriesKnown', ParentsFirst', GltfTyped' /\ Scheduled' /\ ScenesLast'
  PROVE  GltfInv'
BY DEF GltfInv

LEMMA JobFailsKeeps == ASSUME GltfInv, NEW j \in AllJobs, JobFails(j) PROVE GltfInv'
<1>1. PICK place \in {"material", "normal", "primitive", "scene", "serialise"} :
        Step(j, place, "error") /\ UNCHANGED <<maps, entries, scenes>>
  BY DEF JobFails
<1>2. /\ entries' = entries /\ calls' = calls /\ worlds' = worlds
      /\ m_albedo_paths' = m_albedo_paths /\ m_normal_paths' = m_normal_paths /\ m_mesh_bounds' = m_mesh_bounds
  BY <1>1 DEF maps, scenes
<1>3. place \in Places \ {"none", "done"} /\ "error" \in Places
  BY DEF Places
<1>4. GltfTyped' /\ Scheduled' /\ ScenesLast'
  <2>1. calls' \in [Scenes -> Seq(AnyCall)] /\ worlds' \in [Scenes -> Seq(AnyEntity)]
    BY <1>2 DEF GltfInv, GltfTyped
  <2> QED
    BY <1>1, <1>3, <2>1, StepFrame
<1>5. \A k \in AllJobs : job'[k] \in {job[k], "error"}
  BY <1>1, <1>3, StepIs
<1>6. MaterialsKept'
  BY <1>2, <1>5, JobsAre, MaterialsStay DEF GltfInv
<1>7. PrimitivesKept'
  BY <1>2, <1>5, JobsAre, PrimitivesStay DEF GltfInv
<1>8. ScenesKept'
  BY <1>2, <1>5, JobsAre, ScenesStay DEF GltfInv
<1>9. EntriesKnown' /\ ParentsFirst'
  BY <1>2 DEF GltfInv, EntriesKnown, ParentsFirst, EntryOf
<1> QED
  BY <1>4, <1>6, <1>7, <1>8, <1>9, KeptIs

(* The texture tasklets' steps: an entry and a path for each image. *)
LEMMA TextureKeeps ==
  ASSUME GltfInv, NEW i \in Materials, NEW place \in Places \ {"none", "done"}, NEW then \in Places, NEW wanted, NEW name,
         Texture(<<"material", i>>, place, wanted, name, then), EntryOf(<<name, <<"material", i>>>>)
  PROVE  /\ GltfTyped' /\ Scheduled' /\ ScenesLast' /\ PrimitivesKept' /\ ScenesKept' /\ EntriesKnown' /\ ParentsFirst'
         /\ m_albedo_paths' = m_albedo_paths /\ m_normal_paths' = m_normal_paths
         /\ entries \subseteq entries' /\ (wanted => <<name, <<"material", i>>>> \in entries')
         /\ job[<<"material", i>>] = place /\ job'[<<"material", i>>] = then
         /\ \A k \in Materials : k # i => job'[<<"material", k>>] = job[<<"material", k>>]
<1>1. PICK j \in AllJobs : j = <<"material", i>>
  BY JobsAre
<1>2. /\ Step(j, place, then) /\ entries' = (IF wanted THEN entries \cup {<<name, j>>} ELSE entries)
      /\ calls' = calls /\ worlds' = worlds
      /\ m_albedo_paths' = m_albedo_paths /\ m_normal_paths' = m_normal_paths /\ m_mesh_bounds' = m_mesh_bounds
  BY <1>1 DEF Texture, maps, scenes
<1>3. job[j] = place /\ job'[j] = then /\ \A k \in AllJobs : k # j => job'[k] = job[k]
  BY <1>2, StepIs
<1>4. GltfTyped' /\ Scheduled' /\ ScenesLast'
  <2>1. calls' \in [Scenes -> Seq(AnyCall)] /\ worlds' \in [Scenes -> Seq(AnyEntity)]
    BY <1>2 DEF GltfInv, GltfTyped
  <2> QED
    BY <1>2, <2>1, StepFrame
<1>5. entries \subseteq entries'
  BY <1>2
<1>6. PrimitivesKept'
  <2>1. \A m \in Meshes : \A p \in Primitives(m) : <<"primitive", m, p>> \in AllJobs /\ <<"primitive", m, p>> # j
    BY <1>1, JobsAre, JobsDiffer
  <2> QED
    BY <1>2, <1>3, <1>5, <2>1, PrimitivesStay DEF GltfInv
<1>7. ScenesKept'
  <2>1. \A s \in Scenes : <<"scene", s>> \in AllJobs /\ <<"scene", s>> # j
    BY <1>1, JobsAre, JobsDiffer
  <2> QED
    BY <1>2, <1>3, <1>5, <2>1, ScenesStay DEF GltfInv
<1>8. EntriesKnown' /\ ParentsFirst'
  <2>1. entries' \in {entries, entries \cup {<<name, j>>}} /\ EntryOf(<<name, j>>)
    BY <1>1, <1>2
  <2> QED
    BY <1>2, <2>1, EntriesStay, WorldsStay DEF GltfInv
<1>9. \A k \in Materials : k # i => job'[<<"material", k>>] = job[<<"material", k>>]
  BY <1>1, <1>3, JobsAre, JobsDiffer
<1> QED
  BY <1>1, <1>2, <1>3, <1>4, <1>5, <1>6, <1>7, <1>8, <1>9

LEMMA AddAlbedoKeeps == ASSUME GltfInv, NEW i \in Materials, AddAlbedo(i) PROVE GltfInv'
<1>1. Texture(<<"material", i>>, "material", Document.materials[i].albedo, Albedo(i), "albedo path")
  BY DEF AddAlbedo
<1>2. EntryOf(<<Albedo(i), <<"material", i>>>>)
  BY DEF EntryOf
<1>3. "material" \in Places \ {"none", "done"} /\ "albedo path" \in Places
  BY DEF Places
<1>4. /\ GltfTyped' /\ Scheduled' /\ ScenesLast' /\ PrimitivesKept' /\ ScenesKept' /\ EntriesKnown' /\ ParentsFirst'
      /\ m_albedo_paths' = m_albedo_paths /\ m_normal_paths' = m_normal_paths
      /\ entries \subseteq entries' /\ (Document.materials[i].albedo => <<Albedo(i), <<"material", i>>>> \in entries')
      /\ job[<<"material", i>>] = "material" /\ job'[<<"material", i>>] = "albedo path"
      /\ \A k \in Materials : k # i => job'[<<"material", k>>] = job[<<"material", k>>]
  BY <1>1, <1>2, <1>3, TextureKeeps
<1>5. MaterialsKept'
  <2>1. MaterialsKept
    BY DEF GltfInv
  <2>2. \A k \in Materials : Document.materials[k].albedo =>
       /\ job'[<<"material", k>>] \in {"albedo path", "normal", "normal path", "done"} => <<Albedo(k), <<"material", k>>>> \in entries'
       /\ job'[<<"material", k>>] \in {"normal", "normal path", "done"} => k \in DOMAIN m_albedo_paths
    BY <1>4, <2>1 DEF MaterialsKept
  <2>3. \A k \in Materials : Document.materials[k].normal =>
       /\ job'[<<"material", k>>] \in {"normal path", "done"} => <<Normal(k), <<"material", k>>>> \in entries'
       /\ job'[<<"material", k>>] = "done" => k \in DOMAIN m_normal_paths
    BY <1>4, <2>1 DEF MaterialsKept
  <2> QED
    BY <1>4, <2>1, <2>2, <2>3 DEF MaterialsKept, Albedo, Normal
<1> QED
  BY <1>4, <1>5, KeptIs

LEMMA AddNormalKeeps == ASSUME GltfInv, NEW i \in Materials, AddNormal(i) PROVE GltfInv'
<1>1. Texture(<<"material", i>>, "normal", Document.materials[i].normal, Normal(i), "normal path")
  BY DEF AddNormal
<1>2. EntryOf(<<Normal(i), <<"material", i>>>>)
  BY DEF EntryOf
<1>3. "normal" \in Places \ {"none", "done"} /\ "normal path" \in Places
  BY DEF Places
<1>4. /\ GltfTyped' /\ Scheduled' /\ ScenesLast' /\ PrimitivesKept' /\ ScenesKept' /\ EntriesKnown' /\ ParentsFirst'
      /\ m_albedo_paths' = m_albedo_paths /\ m_normal_paths' = m_normal_paths
      /\ entries \subseteq entries' /\ (Document.materials[i].normal => <<Normal(i), <<"material", i>>>> \in entries')
      /\ job[<<"material", i>>] = "normal" /\ job'[<<"material", i>>] = "normal path"
      /\ \A k \in Materials : k # i => job'[<<"material", k>>] = job[<<"material", k>>]
  BY <1>1, <1>2, <1>3, TextureKeeps
<1>5. MaterialsKept'
  <2>1. MaterialsKept
    BY DEF GltfInv
  <2>2. \A k \in Materials : Document.materials[k].albedo =>
       /\ job'[<<"material", k>>] \in {"albedo path", "normal", "normal path", "done"} => <<Albedo(k), <<"material", k>>>> \in entries'
       /\ job'[<<"material", k>>] \in {"normal", "normal path", "done"} => k \in DOMAIN m_albedo_paths
    BY <1>4, <2>1 DEF MaterialsKept
  <2>3. \A k \in Materials : Document.materials[k].normal =>
       /\ job'[<<"material", k>>] \in {"normal path", "done"} => <<Normal(k), <<"material", k>>>> \in entries'
       /\ job'[<<"material", k>>] = "done" => k \in DOMAIN m_normal_paths
    BY <1>4, <2>1 DEF MaterialsKept
  <2> QED
    BY <1>4, <2>1, <2>2, <2>3 DEF MaterialsKept, Albedo, Normal
<1> QED
  BY <1>4, <1>5, KeptIs

(* A path that is set has its value, and the others keep theirs. *)
LEMMA WithPathIs ==
  ASSUME NEW paths, NEW wanted, NEW i, NEW name
  PROVE  /\ DOMAIN paths \subseteq DOMAIN WithPath(paths, wanted, i, name)
         /\ wanted => i \in DOMAIN WithPath(paths, wanted, i, name)
         /\ \A k \in DOMAIN WithPath(paths, wanted, i, name) :
              \/ k \in DOMAIN paths /\ WithPath(paths, wanted, i, name)[k] = paths[k]
              \/ wanted /\ k = i /\ WithPath(paths, wanted, i, name)[k] = name
<1>1. CASE wanted
  BY <1>1 DEF WithPath
<1>2. CASE ~wanted
  BY <1>2 DEF WithPath
<1> QED
  BY <1>1, <1>2

(* What a step that sets a path keeps, but for the materials. *)
LEMMA PathKeeps ==
  ASSUME GltfInv, NEW i \in Materials, NEW place \in Places \ {"none", "done"}, NEW then \in Places,
         Step(<<"material", i>>, place, then), m_mesh_bounds' = m_mesh_bounds, UNCHANGED <<entries, scenes>>
  PROVE  /\ GltfTyped' /\ Scheduled' /\ ScenesLast' /\ PrimitivesKept' /\ ScenesKept' /\ EntriesKnown' /\ ParentsFirst'
         /\ job[<<"material", i>>] = place /\ job'[<<"material", i>>] = then
         /\ \A k \in Materials : k # i => job'[<<"material", k>>] = job[<<"material", k>>]
<1>1. PICK j \in AllJobs : j = <<"material", i>>
  BY JobsAre
<1>2. Step(j, place, then) /\ entries' = entries /\ calls' = calls /\ worlds' = worlds /\ entries \subseteq entries'
  BY <1>1 DEF scenes
<1>3. job[j] = place /\ job'[j] = then /\ \A k \in AllJobs : k # j => job'[k] = job[k]
  BY <1>2, StepIs
<1>4. GltfTyped' /\ Scheduled' /\ ScenesLast'
  <2>1. calls' \in [Scenes -> Seq(AnyCall)] /\ worlds' \in [Scenes -> Seq(AnyEntity)]
    BY <1>2 DEF GltfInv, GltfTyped
  <2> QED
    BY <1>2, <2>1, StepFrame
<1>5. PrimitivesKept'
  <2>1. \A m \in Meshes : \A p \in Primitives(m) : <<"primitive", m, p>> \in AllJobs /\ <<"primitive", m, p>> # j
    BY <1>1, JobsAre, JobsDiffer
  <2> QED
    BY <1>2, <1>3, <2>1, PrimitivesStay DEF GltfInv
<1>6. ScenesKept'
  <2>1. \A s \in Scenes : <<"scene", s>> \in AllJobs /\ <<"scene", s>> # j
    BY <1>1, JobsAre, JobsDiffer
  <2> QED
    BY <1>2, <1>3, <2>1, ScenesStay DEF GltfInv
<1>7. EntriesKnown' /\ ParentsFirst'
  BY <1>2 DEF GltfInv, EntriesKnown, ParentsFirst, EntryOf
<1>8. \A k \in Materials : k # i => job'[<<"material", k>>] = job[<<"material", k>>]
  BY <1>1, <1>3, JobsAre, JobsDiffer
<1> QED
  BY <1>1, <1>3, <1>4, <1>5, <1>6, <1>7, <1>8

LEMMA SetAlbedoPathKeeps == ASSUME GltfInv, NEW i \in Materials, SetAlbedoPath(i) PROVE GltfInv'
<1> DEFINE textured == Document.materials[i].albedo
           paths == WithPath(m_albedo_paths, textured, i, Albedo(i))
<1>1. /\ Step(<<"material", i>>, "albedo path", "normal") /\ m_albedo_paths' = paths
      /\ m_normal_paths' = m_normal_paths /\ m_mesh_bounds' = m_mesh_bounds /\ entries' = entries /\ UNCHANGED <<entries, scenes>>
  BY DEF SetAlbedoPath
<1>2. "albedo path" \in Places \ {"none", "done"} /\ "normal" \in Places
  BY DEF Places
<1>3. /\ GltfTyped' /\ Scheduled' /\ ScenesLast' /\ PrimitivesKept' /\ ScenesKept' /\ EntriesKnown' /\ ParentsFirst'
      /\ job[<<"material", i>>] = "albedo path" /\ job'[<<"material", i>>] = "normal"
      /\ \A k \in Materials : k # i => job'[<<"material", k>>] = job[<<"material", k>>]
  BY <1>1, <1>2, PathKeeps
<1>4. /\ DOMAIN m_albedo_paths \subseteq DOMAIN paths /\ (textured => i \in DOMAIN paths)
      /\ \A k \in DOMAIN paths : (k \in DOMAIN m_albedo_paths /\ paths[k] = m_albedo_paths[k]) \/ (textured /\ k = i /\ paths[k] = Albedo(i))
  BY WithPathIs
<1> HIDE DEF paths
<1>5. MaterialsKept'
  <2>1. MaterialsKept
    BY DEF GltfInv
  <2>2. \A k \in DOMAIN paths : k \in Materials /\ Document.materials[k].albedo /\ paths[k] = Albedo(k)
    BY <1>4, <2>1 DEF MaterialsKept
  <2>3. \A k \in Materials : Document.materials[k].albedo =>
       /\ job'[<<"material", k>>] \in {"albedo path", "normal", "normal path", "done"} => <<Albedo(k), <<"material", k>>>> \in entries
       /\ job'[<<"material", k>>] \in {"normal", "normal path", "done"} => k \in DOMAIN paths
    BY <1>3, <1>4, <2>1 DEF MaterialsKept
  <2>4. \A k \in Materials : Document.materials[k].normal =>
       /\ job'[<<"material", k>>] \in {"normal path", "done"} => <<Normal(k), <<"material", k>>>> \in entries
       /\ job'[<<"material", k>>] = "done" => k \in DOMAIN m_normal_paths
    BY <1>3, <2>1 DEF MaterialsKept
  <2>5. \A k \in DOMAIN m_normal_paths :
          k \in Materials /\ Document.materials[k].normal /\ m_normal_paths[k] = Normal(k)
    BY <2>1 DEF MaterialsKept
  <2> QED
    BY <1>1, <2>2, <2>3, <2>4, <2>5 DEF MaterialsKept, Albedo, Normal
<1> QED
  BY <1>3, <1>5, KeptIs

LEMMA SetNormalPathKeeps == ASSUME GltfInv, NEW i \in Materials, SetNormalPath(i) PROVE GltfInv'
<1> DEFINE textured == Document.materials[i].normal
           paths == WithPath(m_normal_paths, textured, i, Normal(i))
<1>1. /\ Step(<<"material", i>>, "normal path", "done") /\ m_normal_paths' = paths
      /\ m_albedo_paths' = m_albedo_paths /\ m_mesh_bounds' = m_mesh_bounds /\ entries' = entries /\ UNCHANGED <<entries, scenes>>
  BY DEF SetNormalPath
<1>2. "normal path" \in Places \ {"none", "done"} /\ "done" \in Places
  BY DEF Places
<1>3. /\ GltfTyped' /\ Scheduled' /\ ScenesLast' /\ PrimitivesKept' /\ ScenesKept' /\ EntriesKnown' /\ ParentsFirst'
      /\ job[<<"material", i>>] = "normal path" /\ job'[<<"material", i>>] = "done"
      /\ \A k \in Materials : k # i => job'[<<"material", k>>] = job[<<"material", k>>]
  BY <1>1, <1>2, PathKeeps
<1>4. /\ DOMAIN m_normal_paths \subseteq DOMAIN paths /\ (textured => i \in DOMAIN paths)
      /\ \A k \in DOMAIN paths : (k \in DOMAIN m_normal_paths /\ paths[k] = m_normal_paths[k]) \/ (textured /\ k = i /\ paths[k] = Normal(i))
  BY WithPathIs
<1> HIDE DEF paths
<1>5. MaterialsKept'
  <2>1. MaterialsKept
    BY DEF GltfInv
  <2>2. \A k \in DOMAIN paths : k \in Materials /\ Document.materials[k].normal /\ paths[k] = Normal(k)
    BY <1>4, <2>1 DEF MaterialsKept
  <2>3. \A k \in Materials : Document.materials[k].albedo =>
       /\ job'[<<"material", k>>] \in {"albedo path", "normal", "normal path", "done"} => <<Albedo(k), <<"material", k>>>> \in entries
       /\ job'[<<"material", k>>] \in {"normal", "normal path", "done"} => k \in DOMAIN m_albedo_paths
    BY <1>3, <2>1 DEF MaterialsKept
  <2>4. \A k \in Materials : Document.materials[k].normal =>
       /\ job'[<<"material", k>>] \in {"normal path", "done"} => <<Normal(k), <<"material", k>>>> \in entries
       /\ job'[<<"material", k>>] = "done" => k \in DOMAIN paths
    BY <1>3, <1>4, <2>1 DEF MaterialsKept
  <2>5. \A k \in DOMAIN m_albedo_paths :
          k \in Materials /\ Document.materials[k].albedo /\ m_albedo_paths[k] = Albedo(k)
    BY <2>1 DEF MaterialsKept
  <2> QED
    BY <1>1, <2>2, <2>3, <2>4, <2>5 DEF MaterialsKept, Albedo, Normal
<1> QED
  BY <1>3, <1>5, KeptIs

(* What a step of a primitive's tasklet keeps, but for the primitives. *)
LEMMA PrimitiveStepKeeps ==
  ASSUME GltfInv, NEW m \in Meshes, NEW p \in Primitives(m), NEW place \in Places \ {"none", "done"}, NEW then \in Places,
         Step(<<"primitive", m, p>>, place, then), m_albedo_paths' = m_albedo_paths, m_normal_paths' = m_normal_paths,
         UNCHANGED scenes, entries' \in {entries, entries \cup {<<MeshEntry(m, p), <<"primitive", m, p>>>>}}
  PROVE  /\ GltfTyped' /\ Scheduled' /\ ScenesLast' /\ MaterialsKept' /\ ScenesKept' /\ EntriesKnown' /\ ParentsFirst'
         /\ job[<<"primitive", m, p>>] = place /\ job'[<<"primitive", m, p>>] = then
         /\ entries \subseteq entries'
         /\ \A n \in Meshes : \A q \in Primitives(n) :
              ~(n = m /\ q = p) => job'[<<"primitive", n, q>>] = job[<<"primitive", n, q>>]
<1>1. PICK j \in AllJobs : j = <<"primitive", m, p>>
  BY JobsAre
<1>2. Step(j, place, then) /\ calls' = calls /\ worlds' = worlds /\ entries \subseteq entries'
  BY <1>1 DEF scenes
<1>3. job[j] = place /\ job'[j] = then /\ \A k \in AllJobs : k # j => job'[k] = job[k]
  BY <1>2, StepIs
<1>4. GltfTyped' /\ Scheduled' /\ ScenesLast'
  <2>1. calls' \in [Scenes -> Seq(AnyCall)] /\ worlds' \in [Scenes -> Seq(AnyEntity)]
    BY <1>2 DEF GltfInv, GltfTyped
  <2> QED
    BY <1>2, <2>1, StepFrame
<1>5. MaterialsKept'
  <2>1. \A i \in Materials : <<"material", i>> \in AllJobs /\ <<"material", i>> # j
    BY <1>1, JobsAre, JobsDiffer
  <2> QED
    BY <1>2, <1>3, <2>1, MaterialsStay DEF GltfInv
<1>6. ScenesKept'
  <2>1. \A s \in Scenes : <<"scene", s>> \in AllJobs /\ <<"scene", s>> # j
    BY <1>1, JobsAre, JobsDiffer
  <2> QED
    BY <1>2, <1>3, <2>1, ScenesStay DEF GltfInv
<1>7. EntriesKnown' /\ ParentsFirst'
  <2>1. EntryOf(<<MeshEntry(m, p), <<"primitive", m, p>>>>)
    BY DEF EntryOf
  <2> QED
    BY <1>2, <2>1, EntriesStay, WorldsStay DEF GltfInv
<1>8. \A n \in Meshes : \A q \in Primitives(n) :
        ~(n = m /\ q = p) => job'[<<"primitive", n, q>>] = job[<<"primitive", n, q>>]
  BY <1>1, <1>3, JobsAre, JobsDiffer
<1> QED
  BY <1>1, <1>2, <1>3, <1>4, <1>5, <1>6, <1>7, <1>8

LEMMA AddMeshKeeps == ASSUME GltfInv, NEW m \in Meshes, NEW p \in Primitives(m), AddMesh(m, p) PROVE GltfInv'
<1>1. /\ Step(<<"primitive", m, p>>, "primitive", "bounds")
      /\ entries' = entries \cup {<<MeshEntry(m, p), <<"primitive", m, p>>>>} /\ UNCHANGED scenes
      /\ m_albedo_paths' = m_albedo_paths /\ m_normal_paths' = m_normal_paths /\ m_mesh_bounds' = m_mesh_bounds
  BY DEF AddMesh, maps
<1>2. "primitive" \in Places \ {"none", "done"} /\ "bounds" \in Places
  BY DEF Places
<1>3. /\ GltfTyped' /\ Scheduled' /\ ScenesLast' /\ MaterialsKept' /\ ScenesKept' /\ EntriesKnown' /\ ParentsFirst'
      /\ job'[<<"primitive", m, p>>] = "bounds" /\ entries \subseteq entries'
      /\ \A n \in Meshes : \A q \in Primitives(n) :
           ~(n = m /\ q = p) => job'[<<"primitive", n, q>>] = job[<<"primitive", n, q>>]
  BY <1>1, <1>2, PrimitiveStepKeeps
<1>4. PrimitivesKept'
  <2> SUFFICES ASSUME NEW n \in Meshes, NEW q \in Primitives(n)
               PROVE  /\ job'[<<"primitive", n, q>>] \in {"bounds", "done"} => <<MeshEntry(n, q), <<"primitive", n, q>>>> \in entries'
                      /\ job'[<<"primitive", n, q>>] = "done" => MeshName(n, q) \in m_mesh_bounds
    BY <1>1 DEF PrimitivesKept, MeshEntry, MeshName, Meshes, Primitives
  <2>1. CASE n = m /\ q = p
    BY <1>1, <1>3, <2>1
  <2>2. CASE ~(n = m /\ q = p)
    BY <1>3, <2>2 DEF GltfInv, PrimitivesKept
  <2> QED
    BY <2>1, <2>2
<1> QED
  BY <1>3, <1>4, KeptIs

LEMMA SetBoundsKeeps == ASSUME GltfInv, NEW m \in Meshes, NEW p \in Primitives(m), SetBounds(m, p) PROVE GltfInv'
<1>1. /\ Step(<<"primitive", m, p>>, "bounds", "done") /\ entries' = entries /\ UNCHANGED scenes
      /\ m_albedo_paths' = m_albedo_paths /\ m_normal_paths' = m_normal_paths
      /\ m_mesh_bounds' = m_mesh_bounds \cup {MeshName(m, p)}
  BY DEF SetBounds
<1>2. "bounds" \in Places \ {"none", "done"} /\ "done" \in Places
  BY DEF Places
<1>3. /\ GltfTyped' /\ Scheduled' /\ ScenesLast' /\ MaterialsKept' /\ ScenesKept' /\ EntriesKnown' /\ ParentsFirst'
      /\ job[<<"primitive", m, p>>] = "bounds"
      /\ \A n \in Meshes : \A q \in Primitives(n) :
           ~(n = m /\ q = p) => job'[<<"primitive", n, q>>] = job[<<"primitive", n, q>>]
  BY <1>1, <1>2, PrimitiveStepKeeps
<1>4. PrimitivesKept'
  <2> SUFFICES ASSUME NEW n \in Meshes, NEW q \in Primitives(n)
               PROVE  /\ job'[<<"primitive", n, q>>] \in {"bounds", "done"} => <<MeshEntry(n, q), <<"primitive", n, q>>>> \in entries
                      /\ job'[<<"primitive", n, q>>] = "done" => MeshName(n, q) \in m_mesh_bounds'
    BY <1>1 DEF PrimitivesKept, MeshEntry, MeshName, Meshes, Primitives
  <2>1. CASE n = m /\ q = p
    BY <1>1, <1>3, <2>1 DEF GltfInv, PrimitivesKept
  <2>2. CASE ~(n = m /\ q = p)
    BY <1>1, <1>3, <2>2 DEF GltfInv, PrimitivesKept
  <2> QED
    BY <2>1, <2>2
<1> QED
  BY <1>3, <1>4, KeptIs

(* What a step of a scene's tasklet keeps, but for the scenes. *)
LEMMA SceneStepKeeps ==
  ASSUME GltfInv, NEW s \in Scenes, NEW place \in Places \ {"none", "done"}, NEW then \in Places,
         Step(<<"scene", s>>, place, then), UNCHANGED maps,
         calls' \in [Scenes -> Seq(AnyCall)], worlds' \in [Scenes -> Seq(AnyEntity)],
         entries' \in {entries, entries \cup {<<SceneEntry(s), <<"scene", s>>>>}}
  PROVE  /\ GltfTyped' /\ Scheduled' /\ ScenesLast' /\ MaterialsKept' /\ PrimitivesKept' /\ EntriesKnown'
         /\ job[<<"scene", s>>] = place /\ job'[<<"scene", s>>] = then
         /\ entries \subseteq entries'
         /\ \A k \in Scenes : k # s => job'[<<"scene", k>>] = job[<<"scene", k>>]
<1>1. PICK j \in AllJobs : j = <<"scene", s>>
  BY JobsAre
<1>2. /\ Step(j, place, then) /\ entries \subseteq entries'
      /\ m_albedo_paths' = m_albedo_paths /\ m_normal_paths' = m_normal_paths /\ m_mesh_bounds' = m_mesh_bounds
  BY <1>1 DEF maps
<1>3. job[j] = place /\ job'[j] = then /\ \A k \in AllJobs : k # j => job'[k] = job[k]
  BY <1>2, StepIs
<1>4. GltfTyped' /\ Scheduled' /\ ScenesLast'
  BY <1>2, StepFrame
<1>5. MaterialsKept'
  <2>1. \A i \in Materials : <<"material", i>> \in AllJobs /\ <<"material", i>> # j
    BY <1>1, JobsAre, JobsDiffer
  <2> QED
    BY <1>2, <1>3, <2>1, MaterialsStay DEF GltfInv
<1>6. PrimitivesKept'
  <2>1. \A m \in Meshes : \A p \in Primitives(m) : <<"primitive", m, p>> \in AllJobs /\ <<"primitive", m, p>> # j
    BY <1>1, JobsAre, JobsDiffer
  <2> QED
    BY <1>2, <1>3, <2>1, PrimitivesStay DEF GltfInv
<1>7. EntriesKnown'
  <2>1. EntryOf(<<SceneEntry(s), <<"scene", s>>>>)
    BY DEF EntryOf
  <2>2. \A f \in entries' : f \in entries \/ f = <<SceneEntry(s), <<"scene", s>>>>
    OBVIOUS
  <2>3. \A f \in entries : EntryOf(f)
    BY DEF GltfInv, EntriesKnown
  <2>4. \A f \in entries' : EntryOf(f)
    BY <2>1, <2>2, <2>3, Zenon
  <2> QED
    BY <2>4, EntryOfStays DEF EntriesKnown
<1>8. \A k \in Scenes : k # s => job'[<<"scene", k>>] = job[<<"scene", k>>]
  BY <1>1, <1>3, JobsAre, JobsDiffer
<1> QED
  BY <1>1, <1>2, <1>3, <1>4, <1>5, <1>6, <1>7, <1>8

LEMMA EndVisitKeeps == ASSUME GltfInv, NEW s \in Scenes, EndVisit(s) PROVE GltfInv'
<1>1. /\ Step(<<"scene", s>>, "scene", "serialise") /\ calls[s] = <<>> /\ UNCHANGED maps
      /\ entries' = entries /\ calls' = calls /\ worlds' = worlds
  BY DEF EndVisit, scenes
<1>2. "scene" \in Places \ {"none", "done"} /\ "serialise" \in Places
  BY DEF Places
<1>3. calls' \in [Scenes -> Seq(AnyCall)] /\ worlds' \in [Scenes -> Seq(AnyEntity)]
  BY <1>1 DEF GltfInv, GltfTyped
<1>4. /\ GltfTyped' /\ Scheduled' /\ ScenesLast' /\ MaterialsKept' /\ PrimitivesKept' /\ EntriesKnown'
      /\ job'[<<"scene", s>>] = "serialise" /\ \A k \in Scenes : k # s => job'[<<"scene", k>>] = job[<<"scene", k>>]
  BY <1>1, <1>2, <1>3, SceneStepKeeps
<1>5. ScenesKept'
  BY <1>1, <1>4 DEF GltfInv, ScenesKept
<1>6. ParentsFirst'
  BY <1>1, WorldsStay DEF GltfInv
<1> QED
  BY <1>4, <1>5, <1>6, KeptIs

LEMMA SerialiseKeeps == ASSUME GltfInv, NEW s \in Scenes, Serialise(s) PROVE GltfInv'
<1>1. /\ Step(<<"scene", s>>, "serialise", "done") /\ UNCHANGED maps
      /\ entries' = entries \cup {<<SceneEntry(s), <<"scene", s>>>>} /\ calls' = calls /\ worlds' = worlds
  BY DEF Serialise, scenes
<1>2. "serialise" \in Places \ {"none", "done"} /\ "done" \in Places
  BY DEF Places
<1>3. calls' \in [Scenes -> Seq(AnyCall)] /\ worlds' \in [Scenes -> Seq(AnyEntity)]
  BY <1>1 DEF GltfInv, GltfTyped
<1>4. /\ GltfTyped' /\ Scheduled' /\ ScenesLast' /\ MaterialsKept' /\ PrimitivesKept' /\ EntriesKnown'
      /\ job[<<"scene", s>>] = "serialise" /\ \A k \in Scenes : k # s => job'[<<"scene", k>>] = job[<<"scene", k>>]
  BY <1>1, <1>2, <1>3, SceneStepKeeps
<1>5. ScenesKept'
  <2> SUFFICES ASSUME NEW k \in Scenes
               PROVE  /\ job'[<<"scene", k>>] \in {"serialise", "done"} => calls[k] = <<>>
                      /\ job'[<<"scene", k>>] = "done" => <<SceneEntry(k), <<"scene", k>>>> \in entries'
    BY <1>1 DEF ScenesKept, SceneEntry, Scenes
  <2>1. CASE k = s
    BY <1>1, <1>4, <2>1 DEF GltfInv, ScenesKept
  <2>2. CASE k # s
    BY <1>1, <1>4, <2>2 DEF GltfInv, ScenesKept
  <2> QED
    BY <2>1, <2>2
<1>6. ParentsFirst'
  BY <1>1, WorldsStay DEF GltfInv
<1> QED
  BY <1>4, <1>5, <1>6, KeptIs

(* What is built when the assets are done is as it ought to be. *)
LEMMA PartsAreGood ==
  ASSUME GltfInv, AssetsDone, NEW m \in 0 .. Len(Document.meshes) PROVE BuiltParts(m) \in Seq(GoodParts)
<1>1. CASE m = 0
  BY <1>1 DEF BuiltParts
<1>2. CASE m # 0
  <2>1. m \in Meshes
    BY <1>2, TheDocument
  <2>2. Primitives(m) = 1 .. Len(Document.meshes[m].primitives) /\ Len(Document.meshes[m].primitives) \in Nat
        /\ Document.meshes[m].primitives \in Seq(0 .. Len(Document.materials))
    BY <2>1, TheDocument
  <2>3. ASSUME NEW p \in Primitives(m) PROVE Built(m, p) \in GoodParts
    <3> DEFINE i == Document.meshes[m].primitives[p]
    <3>1. MeshName(m, p) \in m_mesh_bounds
      BY <2>1, JobsAre DEF AssetsDone, GltfInv, PrimitivesKept
    <3>2. i \in 0 .. Len(Document.materials)
      BY <2>2, ElementOf, Zenon
    <3>3. CASE i = 0
      <4>1. Built(m, p) = GoodPart(m, p)
        BY <3>1, <3>3 DEF Built, GoodPart, Expected
      <4> QED
        BY <2>1, <4>1 DEF GoodParts
    <3>4. CASE i # 0
      <4>1. i \in Materials
        BY <3>2, <3>4, TheDocument
      <4>2. job[<<"material", i>>] = "done" /\ MaterialsKept
        BY <4>1, JobsAre DEF AssetsDone, GltfInv
      <4>3. PathOf(m_albedo_paths, i) = IF Document.materials[i].albedo THEN Albedo(i) ELSE <<>>
        BY <4>1, <4>2 DEF MaterialsKept, PathOf
      <4>4. PathOf(m_normal_paths, i) = IF Document.materials[i].normal THEN Normal(i) ELSE <<>>
        BY <4>1, <4>2 DEF MaterialsKept, PathOf
      <4>5. Built(m, p) = GoodPart(m, p)
        BY <3>1, <3>4, <4>3, <4>4 DEF Built, GoodPart, Expected
      <4> QED
        BY <2>1, <4>5 DEF GoodParts
    <3> QED
      BY <3>3, <3>4
  <2>4. BuiltParts(m) = [p \in Primitives(m) |-> Built(m, p)]
    BY <1>2 DEF BuiltParts
  <2> QED
    BY <2>2, <2>3, <2>4
<1> QED
  BY <1>1, <1>2

LEMMA JoinIs ==
  ASSUME NEW S, NEW s \in Seq(S), NEW t \in Seq(S)
  PROVE  /\ s \o t \in Seq(S) /\ Len(s \o t) = Len(s) + Len(t)
         /\ \A n \in 1 .. Len(s) : (s \o t)[n] = s[n]
         /\ \A n \in 1 .. Len(s \o t) : n > Len(s) => n - Len(s) \in 1 .. Len(t) /\ (s \o t)[n] = t[n - Len(s)]
OBVIOUS

LEMMA TailIs ==
  ASSUME NEW S, NEW s \in Seq(S), s # <<>>
  PROVE  /\ Head(s) = s[1] /\ s[1] \in S /\ 1 \in 1 .. Len(s)
         /\ Tail(s) \in Seq(S) /\ Len(Tail(s)) = Len(s) - 1
         /\ \A n \in 1 .. Len(Tail(s)) : n + 1 \in 1 .. Len(s) /\ Tail(s)[n] = s[n + 1]
OBVIOUS

(* The entities of a node: the first below the parent, the others below it. *)
LEMMA EntitiesAre ==
  ASSUME NEW parent \in Nat, NEW entity \in Nat, NEW parts \in Seq(GoodParts)
  PROVE  /\ EntitiesOf(parent, entity, parts) \in Seq(AnyEntity)
         /\ Len(EntitiesOf(parent, entity, parts)) \in Nat \ {0}
         /\ EntitiesOf(parent, entity, parts)[1].parent = parent
         /\ \A n \in 1 .. Len(EntitiesOf(parent, entity, parts)) :
              n > 1 => EntitiesOf(parent, entity, parts)[n].parent = entity
<1> DEFINE All == [parent : Nat, parts : Seq(GoodParts)]
<1>0. AnyEntity = All
  BY DEF AnyEntity
<1>1. CASE Len(parts) = 1
  <2>1. EntitiesOf(parent, entity, parts) = <<[parent |-> parent, parts |-> parts]>>
    BY <1>1 DEF EntitiesOf
  <2> QED
    BY <1>0, <2>1
<1>2. CASE Len(parts) # 1
  <2> DEFINE first == <<[parent |-> parent, parts |-> <<>>]>>
             others == [p \in DOMAIN parts |-> [parent |-> entity, parts |-> <<parts[p]>>]]
  <2>1. EntitiesOf(parent, entity, parts) = first \o others
    BY <1>2 DEF EntitiesOf
  <2>2. first \in Seq(All) /\ Len(first) = 1 /\ first[1].parent = parent
    OBVIOUS
  <2>3. DOMAIN parts = 1 .. Len(parts) /\ Len(parts) \in Nat
    OBVIOUS
  <2>4. \A p \in 1 .. Len(parts) : others[p] \in All /\ others[p].parent = entity
    BY <2>3
  <2>5. DOMAIN others = 1 .. Len(parts)
    BY <2>3
  <2>6. others \in Seq(All)
    BY <2>3, <2>4, <2>5
  <2>7. Len(others) = Len(parts)
    BY <2>3, <2>5, <2>6
  <2> HIDE DEF first, others, All
  <2>8. /\ first \o others \in Seq(All) /\ Len(first \o others) = Len(first) + Len(others)
        /\ \A n \in 1 .. Len(first) : (first \o others)[n] = first[n]
        /\ \A n \in 1 .. Len(first \o others) : n > Len(first) => n - Len(first) \in 1 .. Len(others) /\ (first \o others)[n] = others[n - Len(first)]
    BY <2>2, <2>6, JoinIs
  <2>9. Len(first \o others) \in Nat \ {0} /\ (first \o others)[1].parent = parent
    BY <2>2, <2>3, <2>7, <2>8
  <2>10. \A n \in 1 .. Len(first \o others) : n > 1 => (first \o others)[n].parent = entity
    BY <2>2, <2>3, <2>4, <2>7, <2>8
  <2> QED
    BY <1>0, <2>1, <2>8, <2>9, <2>10
<1> QED
  BY <1>1, <1>2

LEMMA VisitNodeKeeps == ASSUME GltfInv, NEW s \in Scenes, VisitNode(s) PROVE GltfInv'
<1> DEFINE call == Head(calls[s])
           node == Document.nodes[call.node]
           entity == Len(worlds[s]) + 1
           made == EntitiesOf(call.parent, entity, BuiltParts(node.mesh))
           children == CallsFor(entity, node.children)
<1>1. /\ Step(<<"scene", s>>, "scene", "scene") /\ calls[s] # <<>> /\ UNCHANGED maps /\ entries' = entries
      /\ worlds' = [worlds EXCEPT ![s] = @ \o made]
      /\ calls' = [calls EXCEPT ![s] = children \o Tail(@)]
  BY DEF VisitNode
<1>2. calls \in [Scenes -> Seq(AnyCall)] /\ worlds \in [Scenes -> Seq(AnyEntity)] /\ calls[s] \in Seq(AnyCall) /\ worlds[s] \in Seq(AnyEntity)
  BY DEF GltfInv, GltfTyped
<1>3. /\ call = calls[s][1] /\ call \in AnyCall /\ 1 \in 1 .. Len(calls[s])
      /\ Tail(calls[s]) \in Seq(AnyCall) /\ Len(Tail(calls[s])) = Len(calls[s]) - 1
      /\ \A n \in 1 .. Len(Tail(calls[s])) : n + 1 \in 1 .. Len(calls[s]) /\ Tail(calls[s])[n] = calls[s][n + 1]
  BY <1>1, <1>2, TailIs
<1>4. call.parent \in Nat /\ call.node \in 1 .. Len(Document.nodes)
  BY <1>3 DEF AnyCall
<1>5. node.mesh \in 0 .. Len(Document.meshes) /\ node.children \in Seq(1 .. Len(Document.nodes))
  BY <1>4, TheDocument
<1>6. Len(worlds[s]) \in Nat /\ entity \in Nat
  BY <1>2
<1>7. AssetsDone
  <2>1. job[<<"scene", s>>] = "scene"
    BY <1>1 DEF Step
  <2> QED
    BY <2>1 DEF GltfInv, ScenesLast
<1>8. /\ made \in Seq(AnyEntity) /\ Len(made) \in Nat \ {0} /\ made[1].parent = call.parent
      /\ \A n \in 1 .. Len(made) : n > 1 => made[n].parent = entity
  <2> DEFINE parts == BuiltParts(node.mesh)
  <2>1. parts \in Seq(GoodParts)
    BY <1>5, <1>7, PartsAreGood
  <2> HIDE DEF parts, entity
  <2>2. /\ EntitiesOf(call.parent, entity, parts) \in Seq(AnyEntity)
        /\ Len(EntitiesOf(call.parent, entity, parts)) \in Nat \ {0}
        /\ EntitiesOf(call.parent, entity, parts)[1].parent = call.parent
        /\ \A n \in 1 .. Len(EntitiesOf(call.parent, entity, parts)) :
              n > 1 => EntitiesOf(call.parent, entity, parts)[n].parent = entity
    BY <1>4, <1>6, <2>1, EntitiesAre
  <2> QED
    BY <2>2 DEF parts
<1>9. /\ children \in Seq(AnyCall) /\ Len(children) \in Nat
      /\ \A c \in 1 .. Len(children) : children[c].parent = entity
  <2>1. /\ children \in Seq(AnyCall) /\ Len(children) = Len(node.children)
        /\ \A c \in 1 .. Len(node.children) : children[c].parent = entity
    BY <1>5, <1>6, CallsAreCalls, Zenon
  <2>2. Len(node.children) \in Nat
    BY <1>5
  <2> QED
    BY <2>1, <2>2
<1>10. /\ \A i \in 1 .. Len(worlds[s]) : worlds[s][i].parent < i
       /\ \A c \in 1 .. Len(calls[s]) : calls[s][c].parent <= Len(worlds[s])
  BY DEF GltfInv, ParentsFirst
<1> HIDE DEF made, children, call, node
<1>11. /\ worlds[s] \o made \in Seq(AnyEntity) /\ Len(worlds[s] \o made) = Len(worlds[s]) + Len(made)
       /\ \A n \in 1 .. Len(worlds[s]) : (worlds[s] \o made)[n] = worlds[s][n]
       /\ \A n \in 1 .. Len(worlds[s] \o made) :
            n > Len(worlds[s]) => n - Len(worlds[s]) \in 1 .. Len(made) /\ (worlds[s] \o made)[n] = made[n - Len(worlds[s])]
  BY <1>2, <1>8, JoinIs
<1>12. /\ children \o Tail(calls[s]) \in Seq(AnyCall) /\ Len(children \o Tail(calls[s])) = Len(children) + Len(Tail(calls[s]))
       /\ \A n \in 1 .. Len(children) : (children \o Tail(calls[s]))[n] = children[n]
       /\ \A n \in 1 .. Len(children \o Tail(calls[s])) :
            n > Len(children) => n - Len(children) \in 1 .. Len(Tail(calls[s])) /\ (children \o Tail(calls[s]))[n] = Tail(calls[s])[n - Len(children)]
  BY <1>3, <1>9, JoinIs
<1>13. /\ calls' \in [Scenes -> Seq(AnyCall)] /\ calls'[s] = children \o Tail(calls[s]) /\ \A k \in Scenes : k # s => calls'[k] = calls[k]
       /\ worlds' \in [Scenes -> Seq(AnyEntity)] /\ worlds'[s] = worlds[s] \o made /\ \A k \in Scenes : k # s => worlds'[k] = worlds[k]
  BY <1>1, <1>2, <1>11, <1>12
<1>14. "scene" \in Places \ {"none", "done"} /\ "scene" \in Places
  BY DEF Places
<1>15. /\ GltfTyped' /\ Scheduled' /\ ScenesLast' /\ MaterialsKept' /\ PrimitivesKept' /\ EntriesKnown'
       /\ job'[<<"scene", s>>] = "scene" /\ \A k \in Scenes : k # s => job'[<<"scene", k>>] = job[<<"scene", k>>]
  BY <1>1, <1>13, <1>14, SceneStepKeeps
<1>16. ScenesKept'
  <2> SUFFICES ASSUME NEW k \in Scenes
               PROVE  /\ job'[<<"scene", k>>] \in {"serialise", "done"} => calls'[k] = <<>>
                      /\ job'[<<"scene", k>>] = "done" => <<SceneEntry(k), <<"scene", k>>>> \in entries
    BY <1>1 DEF ScenesKept, SceneEntry, Scenes
  <2>1. CASE k = s
    BY <1>15, <2>1
  <2>2. CASE k # s
    BY <1>13, <1>15, <2>2 DEF GltfInv, ScenesKept
  <2> QED
    BY <2>1, <2>2
<1>17. ParentsFirst'
  <2> SUFFICES ASSUME NEW k \in Scenes
               PROVE  /\ \A i \in 1 .. Len(worlds'[k]) : worlds'[k][i].parent < i
                      /\ \A c \in 1 .. Len(calls'[k]) : calls'[k][c].parent <= Len(worlds'[k])
    BY DEF ParentsFirst, Scenes
  <2>1. CASE k = s
    <3>1. ASSUME NEW i \in 1 .. Len(worlds[s] \o made) PROVE (worlds[s] \o made)[i].parent < i
      <4>1. CASE i <= Len(worlds[s])
        BY <1>6, <1>10, <1>11, <4>1
      <4>2. CASE i = Len(worlds[s]) + 1
        <5>1. (worlds[s] \o made)[i] = made[1]
          BY <1>6, <1>11, <4>2
        <5>2. call.parent <= Len(worlds[s])
          BY <1>3, <1>10
        <5> QED
          BY <1>4, <1>6, <1>8, <4>2, <5>1, <5>2
      <4>3. CASE i > Len(worlds[s]) + 1
        <5>1. i - Len(worlds[s]) \in 1 .. Len(made) /\ i - Len(worlds[s]) > 1 /\ (worlds[s] \o made)[i] = made[i - Len(worlds[s])]
          BY <1>6, <1>8, <1>11, <4>3
        <5>2. (worlds[s] \o made)[i].parent = entity
          BY <1>8, <5>1
        <5> QED
          BY <1>6, <4>3, <5>2
      <4> QED
        BY <1>6, <1>8, <1>11, <4>1, <4>2, <4>3
    <3>2. ASSUME NEW c \in 1 .. Len(children \o Tail(calls[s]))
          PROVE  (children \o Tail(calls[s]))[c].parent <= Len(worlds[s] \o made)
      <4>1. entity <= Len(worlds[s] \o made)
        BY <1>6, <1>8, <1>11
      <4>2. CASE c <= Len(children)
        <5>1. c \in 1 .. Len(children)
          BY <1>9, <4>2
        <5>2. (children \o Tail(calls[s]))[c].parent = entity
          BY <1>9, <1>12, <5>1
        <5> QED
          BY <4>1, <5>2
      <4>3. CASE c > Len(children)
        <5>1. PICK n \in 1 .. Len(Tail(calls[s])) : (children \o Tail(calls[s]))[c] = Tail(calls[s])[n]
          BY <1>12, <4>3
        <5>2. n + 1 \in 1 .. Len(calls[s]) /\ Tail(calls[s])[n] = calls[s][n + 1]
          BY <1>3
        <5>3. calls[s][n + 1] \in AnyCall
          BY <1>2, <5>2, ElementOf
        <5>4. calls[s][n + 1].parent \in Nat /\ calls[s][n + 1].parent <= Len(worlds[s])
          BY <1>10, <5>2, <5>3 DEF AnyCall
        <5>5. Len(worlds[s]) <= Len(worlds[s] \o made) /\ Len(worlds[s] \o made) \in Nat
          BY <1>6, <1>8, <1>11
        <5>6. (children \o Tail(calls[s]))[c] = calls[s][n + 1]
          BY <5>1, <5>2
        <5>7. (children \o Tail(calls[s]))[c].parent = calls[s][n + 1].parent
          BY <5>6
        <5>8. \A a, b, d \in Nat : a <= b /\ b <= d => a <= d
          OBVIOUS
        <5>9. calls[s][n + 1].parent <= Len(worlds[s] \o made)
          BY <1>6, <5>4, <5>5, <5>8, Zenon
        <5> QED
          BY <5>7, <5>9
      <4> QED
        BY <1>9, <1>12, <4>2, <4>3
    <3> QED
      BY <1>13, <2>1, <3>1, <3>2
  <2>2. CASE k # s
    BY <1>13, <2>2 DEF GltfInv, ParentsFirst
  <2> QED
    BY <2>1, <2>2
<1> QED
  BY <1>15, <1>16, <1>17, KeptIs

LEMMA GltfStutterKeeps == ASSUME GltfInv, UNCHANGED gltfVars PROVE GltfInv'
<1>1. /\ stage' = stage /\ item' = item /\ part' = part /\ futures' = futures /\ job' = job
      /\ UNCHANGED <<maps, entries, scenes>> /\ calls' = calls /\ worlds' = worlds
  BY DEF gltfVars, progress, scenes
<1>2. GltfTyped /\ Scheduled /\ ScenesLast /\ Kept
  BY InvIs
<1>3. GltfTyped'
  BY <1>1, <1>2 DEF GltfTyped
<1>4. Scheduled'
  BY <1>1, <1>2 DEF Scheduled, InFutures
<1>5. ScenesLast'
  BY <1>1, <1>2 DEF ScenesLast, AssetsDone
<1>6. Kept'
  BY <1>1, <1>2, StutterKeeps
<1> QED
  BY <1>3, <1>4, <1>5, <1>6, InvOf

LEMMA GltfSteps == GltfInv /\ [GltfNext]_gltfVars => GltfInv'
<1> SUFFICES ASSUME GltfInv, [GltfNext]_gltfVars PROVE GltfInv'
  OBVIOUS
<1>1. CASE Converting
  BY <1>1, ParseKeeps, ScheduleMaterialKeeps, SchedulePrimitiveKeeps, ScheduleSceneKeeps, AwaitKeeps, CommitKeeps DEF Converting
<1>2. CASE Processing
  <2>1. CASE \E j \in AllJobs : JobFails(j)
    BY <2>1, JobFailsKeeps
  <2>2. CASE \E i \in Materials : AddAlbedo(i) \/ SetAlbedoPath(i) \/ AddNormal(i) \/ SetNormalPath(i)
    BY <2>2, AddAlbedoKeeps, SetAlbedoPathKeeps, AddNormalKeeps, SetNormalPathKeeps
  <2>3. CASE \E m \in Meshes : \E p \in Primitives(m) : AddMesh(m, p) \/ SetBounds(m, p)
    BY <2>3, AddMeshKeeps, SetBoundsKeeps
  <2>4. CASE \E s \in Scenes : VisitNode(s) \/ EndVisit(s) \/ Serialise(s)
    BY <2>4, VisitNodeKeeps, EndVisitKeeps, SerialiseKeeps
  <2> QED
    BY <1>2, <2>1, <2>2, <2>3, <2>4 DEF Processing
<1>3. CASE UNCHANGED gltfVars
  BY <1>3, GltfStutterKeeps
<1> QED
  BY <1>1, <1>2, <1>3 DEF GltfNext

(* Entries of the same name were made by the same job. *)
LEMMA NamesTell ==
  /\ \A i, k \in Materials : Albedo(i) = Albedo(k) => i = k
  /\ \A i, k \in Materials : Normal(i) = Normal(k) => i = k
  /\ \A m, n \in Meshes : \A p, q : MeshEntry(m, p) = MeshEntry(n, q) => m = n /\ p = q
  /\ \A s, k \in Scenes : SceneEntry(s) = SceneEntry(k) => s = k
  /\ \A i, k : Albedo(i) # Normal(k)
  /\ \A i, m, p : Albedo(i) # MeshEntry(m, p) /\ Normal(i) # MeshEntry(m, p)
  /\ \A i, s : Albedo(i) # SceneEntry(s) /\ Normal(i) # SceneEntry(s)
  /\ \A s, m, p : SceneEntry(s) # MeshEntry(m, p)
<1>1. \A a, b, c, d : <<a, b>> = <<c, d>> => a = c /\ b = d
  OBVIOUS
<1>2. \A i, k \in Materials : Document.materials[i].name = Document.materials[k].name => i = k
  BY DocumentAssumption DEF NamesDiffer, Materials
<1>3. \A m, n \in Meshes : Document.meshes[m].name = Document.meshes[n].name => m = n
  BY DocumentAssumption DEF NamesDiffer, Meshes
<1>4. \A s, k \in Scenes : Document.scenes[s].name = Document.scenes[k].name => s = k
  BY DocumentAssumption DEF NamesDiffer, Scenes
<1>5. \A i, k \in Materials : Albedo(i) = Albedo(k) => i = k
  BY <1>1, <1>2, Zenon DEF Albedo
<1>6. \A i, k \in Materials : Normal(i) = Normal(k) => i = k
  BY <1>1, <1>2, Zenon DEF Normal
<1>7. \A m, n \in Meshes : \A p, q : MeshEntry(m, p) = MeshEntry(n, q) => m = n /\ p = q
  BY <1>1, <1>3, Zenon DEF MeshEntry, MeshName
<1>8. \A s, k \in Scenes : SceneEntry(s) = SceneEntry(k) => s = k
  BY <1>1, <1>4, Zenon DEF SceneEntry
<1>9. /\ \A i, k : Albedo(i) # Normal(k)
      /\ \A i, m, p : Albedo(i) # MeshEntry(m, p) /\ Normal(i) # MeshEntry(m, p)
      /\ \A i, s : Albedo(i) # SceneEntry(s) /\ Normal(i) # SceneEntry(s)
      /\ \A s, m, p : SceneEntry(s) # MeshEntry(m, p)
  BY DEF Albedo, Normal, MeshEntry, SceneEntry
<1> QED
  BY <1>5, <1>6, <1>7, <1>8, <1>9

LEMMA EntriesDiffer == ASSUME EntriesKnown, NEW e \in entries, NEW f \in entries, e[1] = f[1] PROVE e = f
<1> DEFINE AlbedoOf(x, i) == x = <<Albedo(i), <<"material", i>>>> /\ x[1] = Albedo(i)
           NormalOf(x, i) == x = <<Normal(i), <<"material", i>>>> /\ x[1] = Normal(i)
           MeshOf(x, m, p) == x = <<MeshEntry(m, p), <<"primitive", m, p>>>> /\ x[1] = MeshEntry(m, p)
           SceneOf(x, s) == x = <<SceneEntry(s), <<"scene", s>>>> /\ x[1] = SceneEntry(s)
           Known(x) ==
             \/ \E i \in Materials : AlbedoOf(x, i)
             \/ \E i \in Materials : NormalOf(x, i)
             \/ \E m \in Meshes : \E p \in Primitives(m) : MeshOf(x, m, p)
             \/ \E s \in Scenes : SceneOf(x, s)
<1>1. ASSUME NEW x, EntryOf(x) PROVE Known(x)
  <2>1. ASSUME NEW i \in Materials, x = <<Albedo(i), <<"material", i>>>> PROVE AlbedoOf(x, i)
    BY <2>1
  <2>2. ASSUME NEW i \in Materials, x = <<Normal(i), <<"material", i>>>> PROVE NormalOf(x, i)
    BY <2>2
  <2>3. ASSUME NEW m \in Meshes, NEW p \in Primitives(m), x = <<MeshEntry(m, p), <<"primitive", m, p>>>> PROVE MeshOf(x, m, p)
    BY <2>3
  <2>4. ASSUME NEW s \in Scenes, x = <<SceneEntry(s), <<"scene", s>>>> PROVE SceneOf(x, s)
    BY <2>4
  <2> QED
    BY <1>1, <2>1, <2>2, <2>3, <2>4, Zenon DEF EntryOf
<1>2. Known(e) /\ Known(f)
  BY <1>1 DEF EntriesKnown
<1>3. ASSUME NEW i, AlbedoOf(e, i) PROVE \A k, m, p : ~NormalOf(f, k) /\ ~MeshOf(f, m, p) /\ ~SceneOf(f, k)
  BY <1>3, NamesTell
<1>4. ASSUME NEW i, NormalOf(e, i) PROVE \A k, m, p : ~AlbedoOf(f, k) /\ ~MeshOf(f, m, p) /\ ~SceneOf(f, k)
  <2>1. f[1] = Normal(i)
    BY <1>4
  <2>2. \A k, m, p : Normal(i) # Albedo(k) /\ Normal(i) # MeshEntry(m, p) /\ Normal(i) # SceneEntry(k)
    BY NamesTell
  <2> QED
    BY <2>1, <2>2
<1>5. ASSUME NEW n, NEW q, MeshOf(e, n, q) PROVE \A k : ~AlbedoOf(f, k) /\ ~NormalOf(f, k) /\ ~SceneOf(f, k)
  BY <1>5, NamesTell
<1>6. ASSUME NEW s, SceneOf(e, s) PROVE \A k, m, p : ~AlbedoOf(f, k) /\ ~NormalOf(f, k) /\ ~MeshOf(f, m, p)
  BY <1>6, NamesTell
<1>7. CASE \E i \in Materials : AlbedoOf(e, i)
  <2>1. PICK i \in Materials : AlbedoOf(e, i)
    BY <1>7
  <2>2. PICK k \in Materials : AlbedoOf(f, k)
    BY <1>2, <1>3, <2>1, Zenon
  <2>3. i = k
    BY <2>1, <2>2, NamesTell, Zenon
  <2> QED
    BY <2>1, <2>2, <2>3
<1>8. CASE \E i \in Materials : NormalOf(e, i)
  <2>1. PICK i \in Materials : NormalOf(e, i)
    BY <1>8
  <2>2. PICK k \in Materials : NormalOf(f, k)
    BY <1>2, <1>4, <2>1, Zenon
  <2>3. i = k
    BY <2>1, <2>2, NamesTell, Zenon
  <2> QED
    BY <2>1, <2>2, <2>3
<1>9. CASE \E m \in Meshes : \E p \in Primitives(m) : MeshOf(e, m, p)
  <2>1. PICK m, p : m \in Meshes /\ p \in Primitives(m) /\ MeshOf(e, m, p)
    BY <1>9
  <2>2. PICK n, q : n \in Meshes /\ q \in Primitives(n) /\ MeshOf(f, n, q)
    BY <1>2, <1>5, <2>1, Zenon
  <2>3. m = n /\ p = q
    BY <2>1, <2>2, NamesTell
  <2> QED
    BY <2>1, <2>2, <2>3
<1>10. CASE \E s \in Scenes : SceneOf(e, s)
  <2>1. PICK s \in Scenes : SceneOf(e, s)
    BY <1>10
  <2>2. PICK k \in Scenes : SceneOf(f, k)
    BY <1>2, <1>6, <2>1, Zenon
  <2>3. s = k
    BY <2>1, <2>2, NamesTell, Zenon
  <2> QED
    BY <2>1, <2>2, <2>3
<1> QED
  BY <1>2, <1>7, <1>8, <1>9, <1>10

LEMMA GoodPartsResolve == ASSUME GltfInv, AssetsDone, NEW chunk \in GoodParts PROVE Resolves(chunk)
<1>1. PICK m \in Meshes : \E q \in Primitives(m) : chunk = GoodPart(m, q)
  BY DEF GoodParts
<1>2. PICK q \in Primitives(m) : chunk = GoodPart(m, q)
  BY <1>1
<1> DEFINE i == Document.meshes[m].primitives[q]
<1>3. chunk.bounds /\ chunk.mesh = MeshEntry(m, q) /\ chunk.material = Expected(i)
  BY <1>2 DEF GoodPart
<1>4. \A e \in entries : e[1] \in Finished
  BY DEF Finished
<1>5. chunk.mesh \in Finished
  <2>1. <<MeshEntry(m, q), <<"primitive", m, q>>>> \in entries
    BY JobsAre DEF AssetsDone, GltfInv, PrimitivesKept
  <2> QED
    BY <1>3, <1>4, <2>1
<1>6. i \in 0 .. Len(Document.materials)
  <2>1. Primitives(m) = 1 .. Len(Document.meshes[m].primitives) /\ Document.meshes[m].primitives \in Seq(0 .. Len(Document.materials))
    BY TheDocument
  <2> QED
    BY <2>1, ElementOf, Zenon
<1>7. \A k \in DOMAIN Expected(i) : Expected(i)[k] \in Finished \cup {<<>>}
  <2>1. CASE i = 0
    BY <2>1 DEF Expected
  <2>2. CASE i # 0
    <3>1. i \in Materials
      BY <1>6, <2>2, TheDocument
    <3>2. job[<<"material", i>>] = "done" /\ MaterialsKept
      BY <3>1, JobsAre DEF AssetsDone, GltfInv
    <3>3. Document.materials[i].albedo => Albedo(i) \in Finished
      <4>1. Document.materials[i].albedo => <<Albedo(i), <<"material", i>>>> \in entries
        BY <3>1, <3>2 DEF MaterialsKept
      <4> QED
        BY <1>4, <4>1
    <3>4. Document.materials[i].normal => Normal(i) \in Finished
      <4>1. Document.materials[i].normal => <<Normal(i), <<"material", i>>>> \in entries
        BY <3>1, <3>2 DEF MaterialsKept
      <4> QED
        BY <1>4, <4>1
    <3> DEFINE a == IF Document.materials[i].albedo THEN Albedo(i) ELSE <<>>
               n == IF Document.materials[i].normal THEN Normal(i) ELSE <<>>
    <3>5. a \in Finished \cup {<<>>} /\ n \in Finished \cup {<<>>}
      BY <3>3, <3>4
    <3>6. Expected(i) = <<a, n>>
      BY <2>2 DEF Expected
    <3> HIDE DEF a, n
    <3> QED
      BY <3>5, <3>6
  <2> QED
    BY <2>1, <2>2
<1> QED
  BY <1>3, <1>5, <1>7 DEF Resolves

LEMMA InvResolves == GltfInv => ScenesResolve
<1> SUFFICES ASSUME GltfInv, stage = "committed"
             PROVE  /\ \A j \in AllJobs : job[j] = "done"
                    /\ \A e, f \in entries : e[1] = f[1] => e = f
                    /\ \A s \in Scenes :
                         /\ SceneEntry(s) \in Finished /\ calls[s] = <<>>
                         /\ \A n \in DOMAIN worlds[s] :
                              /\ worlds[s][n].parent < n
                              /\ \A k \in DOMAIN worlds[s][n].parts : Resolves(worlds[s][n].parts[k])
  BY DEF ScenesResolve
<1>1. AssetsDone /\ \A s \in Scenes : job[<<"scene", s>>] = "done"
  BY DEF GltfInv, ScenesLast
<1>2. \A j \in AllJobs : job[j] = "done"
  BY <1>1, JobsAre DEF AssetsDone
<1>3. \A e, f \in entries : e[1] = f[1] => e = f
  BY EntriesDiffer DEF GltfInv
<1>4. ASSUME NEW s \in Scenes
      PROVE  /\ SceneEntry(s) \in Finished /\ calls[s] = <<>>
             /\ \A n \in DOMAIN worlds[s] :
                  /\ worlds[s][n].parent < n
                  /\ \A k \in DOMAIN worlds[s][n].parts : Resolves(worlds[s][n].parts[k])
  <2>1. calls[s] = <<>> /\ <<SceneEntry(s), <<"scene", s>>>> \in entries
    BY <1>1 DEF GltfInv, ScenesKept
  <2>2. SceneEntry(s) \in Finished
    BY <2>1 DEF Finished
  <2>3. worlds[s] \in Seq(AnyEntity)
    BY DEF GltfInv, GltfTyped
  <2>4. ASSUME NEW n \in DOMAIN worlds[s]
        PROVE  worlds[s][n].parent < n /\ \A k \in DOMAIN worlds[s][n].parts : Resolves(worlds[s][n].parts[k])
    <3>1. n \in 1 .. Len(worlds[s])
      BY <2>3
    <3>2. worlds[s][n] \in AnyEntity
      BY <2>3, <3>1, ElementOf, Zenon
    <3>3. worlds[s][n].parent < n
      BY <3>1 DEF GltfInv, ParentsFirst
    <3>4. worlds[s][n].parts \in Seq(GoodParts)
      BY <3>2 DEF AnyEntity
    <3>5. \A k \in DOMAIN worlds[s][n].parts : worlds[s][n].parts[k] \in GoodParts
      BY <3>4
    <3> QED
      BY <1>1, <3>3, <3>5, GoodPartsResolve
  <2> QED
    BY <2>1, <2>2, <2>4
<1> QED
  BY <1>2, <1>3, <1>4

(* The package that add-gltf commits: in whatever order the tasklets of a   *)
(* document run and fail, one that is committed has a single entry of each *)
(* name, and its scenes name only meshes and images that are in it.        *)
THEOREM PackageResolves == GltfSpec => []ScenesResolve
<1>1. GltfInit => GltfInv
  BY GltfBegins
<1>2. GltfInv /\ [GltfNext]_gltfVars => GltfInv'
  BY GltfSteps
<1>3. GltfInv => ScenesResolve
  BY InvResolves
<1> QED
  BY <1>1, <1>2, <1>3, PTL DEF GltfSpec

=============================================================================
