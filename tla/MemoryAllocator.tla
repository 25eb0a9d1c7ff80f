--------------------------- MODULE MemoryAllocator ---------------------------
(***************************************************************************)
(* What the device memory allocator promises to the resources it serves: a *)
(* resource gets a range of one chunk of device memory, as large and as    *)
(* aligned as it asked for, that overlaps the range of no other resource;  *)
(* and a chunk is given back to the driver only when no range lies in it.  *)
(***************************************************************************)
EXTENDS Integers

CONSTANTS Resources, Chunks, NoRange

VARIABLES
  chunks,   (* the size of every chunk the driver has given us             *)
  range     (* per resource, its range or NoRange                          *)

Within(r, sizes) ==
  /\ r.chunk \in DOMAIN sizes
  /\ r.offset >= 0 /\ r.offset + r.size <= sizes[r.chunk]
  /\ r.offset % r.alignment = 0

Overlap(r, s) ==
  /\ r.chunk = s.chunk
  /\ r.offset < s.offset + s.size
  /\ s.offset < r.offset + r.size

Unused(chunk, ranges) == \A a \in Resources : ranges[a] # NoRange => ranges[a].chunk # chunk

Init ==
  /\ chunks = <<>>
  /\ range = [a \in Resources |-> NoRange]

(* At most one chunk comes or goes in a step. *)
Same == chunks' = chunks

Grow ==
  \E c \in Chunks \ DOMAIN chunks :
    /\ DOMAIN chunks' = DOMAIN chunks \cup {c}
    /\ \A d \in DOMAIN chunks : chunks'[d] = chunks[d]

Shrink ==
  \E c \in DOMAIN chunks :
    /\ chunks' = [d \in DOMAIN chunks \ {c} |-> chunks[d]]
    /\ Unused(c, range')

Give(a) ==
  /\ range[a] = NoRange
  /\ \A b \in Resources \ {a} : range'[b] = range[b]
  /\ range'[a] # NoRange
  /\ Same \/ Grow
  /\ Within(range'[a], chunks')
  /\ \A b \in Resources \ {a} : range[b] # NoRange => ~Overlap(range'[a], range[b])

TakeBack(a) ==
  /\ range[a] # NoRange
  /\ range' = [range EXCEPT ![a] = NoRange]
  /\ Same \/ Shrink

Next ==
  \/ \E a \in Resources : Give(a) \/ TakeBack(a)
  \/ (Grow \/ Shrink) /\ UNCHANGED range

Spec == Init /\ [][Next]_<<chunks, range>>

=============================================================================
