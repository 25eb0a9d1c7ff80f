------------------------------- MODULE PackFile -------------------------------
(***************************************************************************)
(* Package files (engine/sources/vpak): a package is opened, a writer      *)
(* copies it to a temporary file, write streams add entries to it side by  *)
(* side as chains of compressed blocks, and finish_writing() writes header *)
(* and table, syncs the file and puts it in the place of the old one, by   *)
(* an unlink and a link.  The program ends after that, or earlier with an  *)
(* error; it, or the machine, may crash at any point.                      *)
(*                                                                         *)
(* Offsets are in units of which a link takes one and the header HeaderSize. *)
(* Names are new to the package, and no entry is empty.                    *)
(***************************************************************************)
EXTENDS Integers, FiniteSets, Functions

CONSTANTS
  Size,         (* per name of an entry, the size of its data              *)
  BlockSize,    (* k_input_block_size                                      *)
  Compressed,   (* the sizes to which a block may be compressed            *)
  HeaderSize    (* k_header_size                                           *)

ASSUME PackAssumption ==
  /\ BlockSize \in Nat \ {0} /\ HeaderSize \in Nat \ {0} /\ Compressed \subseteq Nat
  /\ IsFiniteSet(DOMAIN Size) /\ \A n \in DOMAIN Size : Size[n] \in Nat \ {0}

Names == DOMAIN Size
Absent == [blocks |-> <<>>, table |-> {}, end |-> 0, synced |-> TRUE, cut |-> {}]
NoLink == 0

VARIABLES
  path,         (* the file under the name of the package                  *)
  survivors,    (* those that may be there after a crash of the machine    *)
  step,         (* how far the program is                                  *)
  m_entries,    (* the entries of the PackFile object                      *)
  m_write_file, (* the temporary file: blocks by offset, table, end; and,
                   as history, the entries that a short copy has cut       *)
  m_head,       (* where the writer allocates next                         *)
  streams,      (* the write streams, by name of their entry               *)
  m_new_entries

packVars == <<path, survivors, step, m_entries, m_write_file, m_head, streams, m_new_entries>>
writer == <<m_entries, m_write_file, m_head, streams, m_new_entries>>

PackInit ==
  /\ path = Absent /\ survivors = {Absent} /\ step = "start"
  /\ m_entries = {} /\ m_write_file = Absent /\ m_head = 0
  /\ streams = <<>> /\ m_new_entries = {}

EntryNames(table) == {entry.name : entry \in table}

(* The blocks that end at or before an offset. *)
BlocksBefore(blocks, end) == Restrict(blocks, {o \in DOMAIN blocks : o + blocks[o].space <= end})

(* What copy_to() leaves of a package: copy_file_range() is called once    *)
(* and may copy less than it was asked for, which is not an error.         *)
Copied(file, end) ==
  LET kept == BlocksBefore(file.blocks, end)
  IN  [blocks |-> kept, table |-> {}, end |-> end, synced |-> FALSE,
       cut |-> file.cut \cup {file.blocks[o].name : o \in DOMAIN file.blocks \ DOMAIN kept}]

(* open() and make_writer(): the table is read and what the file holds     *)
(* copied, as far as that comes; then the tool opens the streams of the    *)
(* names it adds.                                                          *)
MakeWriter(adding) ==
  /\ step = "start" /\ adding # {} /\ adding \cap EntryNames(path.table) = {}
  /\ step' = "writing"
  /\ m_entries' = path.table
  /\ IF path = Absent
     THEN m_head' = HeaderSize /\ m_write_file' = [Absent EXCEPT !.synced = FALSE]
     ELSE \E end \in HeaderSize .. path.end : m_head' = end /\ m_write_file' = Copied(path, end)
  /\ streams' = [n \in adding |-> [left |-> Size[n], first |-> 0, link |-> 0, block |-> 0, space |-> 0]]
  /\ m_new_entries' = {}
  /\ UNCHANGED <<path, survivors>>

InBlock(left) == IF left < BlockSize THEN left ELSE BlockSize

Allocated(s, offset, length) ==
  [s EXCEPT !.block = offset, !.space = length, !.first = IF @ = 0 THEN offset ELSE @]

(* Mutant of AllocateSpace: the link after the data is not counted. *)
AllocateSpaceForData(n, compressed) ==
  /\ step = "writing" /\ streams[n].block = 0 /\ streams[n].left > 0
  /\ m_head' = m_head + compressed
  /\ streams' = [streams EXCEPT ![n] = Allocated(@, m_head, compressed + 1)]
  /\ UNCHANGED <<path, survivors, step, m_entries, m_write_file, m_new_entries>>

(* flush_block(), to allocate_space(): one atomic addition. *)
AllocateSpace(n, compressed) ==
  /\ step = "writing" /\ streams[n].block = 0 /\ streams[n].left > 0
  /\ m_head' = m_head + compressed + 1
  /\ streams' = [streams EXCEPT ![n] = Allocated(@, m_head, compressed + 1)]
  /\ UNCHANGED <<path, survivors, step, m_entries, m_write_file, m_new_entries>>

Overlap(o1, l1, o2, l2) == o1 < o2 + l2 /\ o2 < o1 + l1

(* Bytes from offset on are overwritten: a block that had them is gone. *)
Overwritten(blocks, offset, length) ==
  Restrict(blocks, {o \in DOMAIN blocks : ~Overlap(o, blocks[o].space, offset, length)})

(* The link of the block at offset. *)
Linked(blocks, offset, next) ==
  IF offset \in DOMAIN blocks THEN [blocks EXCEPT ![offset].next = next] ELSE blocks

Flushed(s) == [s EXCEPT !.left = @ - InBlock(@), !.link = s.block, !.block = 0]

(* The rest of flush_block(): the link of the block before, the data and   *)
(* the sentinel.                                                           *)
WriteBlock(n) ==
  LET s == streams[n]
      data == [name |-> n, from |-> s.left, size |-> InBlock(s.left), space |-> s.space, next |-> NoLink]
      blocks == Overwritten(Linked(m_write_file.blocks, s.link, s.block), s.block, s.space)
  IN  /\ step = "writing" /\ s.block # 0
      /\ m_write_file' = [m_write_file EXCEPT !.blocks = [o \in DOMAIN blocks \cup {s.block} |-> IF o = s.block THEN data ELSE blocks[o]],
                                              !.end = IF @ < s.block + s.space THEN s.block + s.space ELSE @]
      /\ streams' = [streams EXCEPT ![n] = Flushed(@)]
      /\ UNCHANGED <<path, survivors, step, m_entries, m_head, m_new_entries>>

(* WriteStream::finish() after the last flush: add_finished_entry(). *)
FinishEntry(n) ==
  /\ step = "writing" /\ streams[n].left = 0
  /\ m_new_entries' = m_new_entries \cup {[name |-> n, first |-> streams[n].first, size |-> Size[n]]}
  /\ streams' = Restrict(streams, DOMAIN streams \ {n})
  /\ UNCHANGED <<path, survivors, step, m_entries, m_write_file, m_head>>

(* finish(): the table goes to the end of the file, the header to its start. *)
Finish ==
  /\ step = "writing" /\ streams = <<>>
  /\ step' = "finished"
  /\ m_entries' = m_entries \cup m_new_entries
  /\ m_write_file' = [m_write_file EXCEPT !.table = m_entries', !.blocks = Overwritten(@, 0, HeaderSize),
                                          !.end = @ + Cardinality(m_entries')]
  /\ UNCHANGED <<path, survivors, m_head, streams, m_new_entries>>

(* finish_writing() after that, step by step. *)
Sync ==
  /\ step = "finished" /\ step' = "synced"
  /\ m_write_file' = [m_write_file EXCEPT !.synced = TRUE]
  /\ UNCHANGED <<path, survivors, m_entries, m_head, streams, m_new_entries>>

Unlink ==
  /\ step = "synced" /\ step' = "unlinked"
  /\ path' = Absent
  /\ survivors' = survivors \cup {Absent}
  /\ UNCHANGED writer

Link ==
  /\ step = "unlinked" /\ step' = "linked"
  /\ path' = m_write_file
  /\ survivors' = survivors \cup {m_write_file}
  /\ UNCHANGED writer

SyncParent ==
  /\ step = "linked" /\ step' = "done"
  /\ survivors' = {path}
  /\ UNCHANGED <<path, writer>>

Forgotten ==
  /\ step' = "start" /\ m_entries' = {} /\ m_write_file' = Absent /\ m_head' = 0
  /\ streams' = <<>> /\ m_new_entries' = {}

(* The program is over: it is done, or an operation failed and the tool    *)
(* gives up, or it is killed.  The temporary file is gone with it unless   *)
(* it is linked; the directory reaches the disk before the next program.   *)
ProgramEnds ==
  /\ step # "start" /\ Forgotten
  /\ survivors' = {path}
  /\ UNCHANGED path

(* The machine stops: the name leads to one of the survivors, and data     *)
(* that was not synced may be lost.                                        *)
MachineStops ==
  /\ step # "start" /\ Forgotten
  /\ \E file \in survivors :
       /\ path' = IF file.synced THEN file ELSE [file EXCEPT !.blocks = <<>>]
       /\ survivors' = {path'}

PackNext ==
  \/ \E adding \in SUBSET Names : MakeWriter(adding)
  \/ \E n \in DOMAIN streams :
       \/ \E compressed \in Compressed : AllocateSpace(n, compressed)
       \/ WriteBlock(n)
       \/ FinishEntry(n)
  \/ Finish \/ Sync \/ Unlink \/ Link \/ SyncParent
  \/ ProgramEnds \/ MachineStops

PackSpec == PackInit /\ [][PackNext]_packVars

-----------------------------------------------------------------------------
(* What a reader finds *)

(* Where read_next_block() goes after a block: one that is not full is the *)
(* last, and so is a full one with the sentinel for a link.                *)
NextBlock(block) == IF block.size < BlockSize THEN NoLink ELSE block.next

(* The data of an entry is cut into blocks; piece i leads to the end.      *)
BlockCount(n) == (Size[n] + BlockSize - 1) \div BlockSize
Left(n, i) == Size[n] - (i - 1) * BlockSize

(* The blocks that read() finds, from the first to the one that is the     *)
(* last, hold the pieces of the entry.                                     *)
ReadsWhole(blocks, entry) ==
  LET count == BlockCount(entry.name)
  IN  \E place \in [1 .. count -> DOMAIN blocks] :
        /\ place[1] = entry.first
        /\ \A i \in 1 .. count :
             /\ blocks[place[i]].name = entry.name /\ blocks[place[i]].from = Left(entry.name, i)
             /\ NextBlock(blocks[place[i]]) = IF i = count THEN NoLink ELSE place[i + 1]

(* Every entry is on the disk, and reads back whole unless a copy of the   *)
(* package has been cut short in it.                                       *)
Complete(file) == \A entry \in file.table :
  file.synced /\ (entry.name \in file.cut \/ ReadsWhole(file.blocks, entry))

(* Whatever is under the name of the package, also after a crash, is       *)
(* nothing or a package of which every entry reads back whole, but for     *)
(* those that a short copy has cut, which spoils no other; and the old     *)
(* package is removed only when its replacement is on the disk, reads back *)
(* whole but for those, and has all entries of the old one.                *)
PackageIntact ==
  /\ \A file \in {path} \cup survivors : Complete(file)
  /\ step \in {"synced", "unlinked"} =>
       Complete(m_write_file) /\ EntryNames(path.table) \subseteq EntryNames(m_write_file.table)

(* pack_file.cc:105, "Copy existing entry data to write file": every entry *)
(* that a package ever had is in the package that replaces it.             *)
ExistingDataCopied ==
  \A file \in {path} \cup survivors : \A entry \in file.table : ReadsWhole(file.blocks, entry)

=============================================================================
