------------------------------ MODULE MpmcQueue ------------------------------
(***************************************************************************)
(* MpmcQueue<T, SlotCountShift> (engine/include/vull/container): a ring of *)
(* slots, each with a turn counter; enqueue() and dequeue() draw a ticket  *)
(* from m_head or m_tail and spin until the slot of the ticket has their   *)
(* turn, try_enqueue() and try_dequeue() draw the ticket only if the slot  *)
(* is ready.  One action per atomic operation.                             *)
(*                                                                         *)
(* head and tail count all tickets ever drawn; the code sees them, and     *)
(* every turn, modulo WordSize (2^32).  The value enqueued with ticket n   *)
(* is named n.                                                             *)
(***************************************************************************)
EXTENDS Integers, FiniteSets

CONSTANTS
  Threads,      (* producers and consumers, any thread may be both         *)
  SlotCount,    (* k_slot_count, which divides WordSize                    *)
  WordSize,     (* number of values of a uint32_t                          *)
  MaxTickets    (* bound: tickets drawn from each counter                  *)

None == -1      (* a slot that was never written; no ticket                *)

(* Neither tickets nor turns wrap.  Past that a ring of more than two      *)
(* slots stops: the turns that tickets wait for start again at zero, those *)
(* of the slots go on.                                                     *)
NothingWraps ==
  /\ SlotCount \in Nat \ {0}
  /\ MaxTickets \in Nat
  /\ WordSize \in Nat
  /\ MaxTickets < WordSize
  /\ 2 * (MaxTickets \div SlotCount) + 2 < WordSize

ASSUME QueueAssumption == NothingWraps

VARIABLES
  head,         (* tickets drawn by producers                              *)
  tail,         (* tickets drawn by consumers                              *)
  turn,         (* m_slots[i].turn                                         *)
  value,        (* m_slots[i].value                                        *)
  ticket,       (* per thread, its ticket or the counter value it loaded   *)
  got,          (* per thread, the value dequeue() read                    *)
  pc

queueVars == <<head, tail, turn, value, ticket, got, pc>>

Locations == {"idle", "enq_spin", "enq_write", "enq_publish", "try_enq", "try_enq_cas",
              "deq_spin", "deq_read", "deq_release", "try_deq", "try_deq_cas"}

Slots == 0 .. SlotCount - 1

Uint32(n) == n % WordSize
SlotOf(n) == Uint32(n) % SlotCount
EnqueueTurn(n) == Uint32((Uint32(n) \div SlotCount) * 2)
DequeueTurn(n) == Uint32((Uint32(n) \div SlotCount) * 2 + 1)
NextLapTurn(n) == Uint32((Uint32(n) \div SlotCount) * 2 + 2)

EnqueueReady(n) == turn[SlotOf(n)] = EnqueueTurn(n)
DequeueReady(n) == turn[SlotOf(n)] = DequeueTurn(n)

Goto(p, l) == pc' = [pc EXCEPT ![p] = l]
Hold(p, n) == ticket' = [ticket EXCEPT ![p] = n]

QueueInit ==
  /\ head = 0
  /\ tail = 0
  /\ turn = [i \in Slots |-> 0]
  /\ value = [i \in Slots |-> None]
  /\ ticket = [p \in Threads |-> None]
  /\ got = [p \in Threads |-> None]
  /\ pc = [p \in Threads |-> "idle"]

-----------------------------------------------------------------------------
(* enqueue() *)

Enqueue(p) ==
  /\ pc[p] = "idle"
  /\ head < MaxTickets
  /\ Hold(p, head)
  /\ head' = head + 1
  /\ Goto(p, "enq_spin")
  /\ UNCHANGED <<tail, turn, value, got>>

(* The loop ends once the turn is right; yield_fn() changes nothing here.  *)
EnqueueTurnComes(p) ==
  /\ pc[p] = "enq_spin"
  /\ EnqueueReady(ticket[p])
  /\ Goto(p, "enq_write")
  /\ UNCHANGED <<head, tail, turn, value, ticket, got>>

Write(p) ==
  /\ pc[p] = "enq_write"
  /\ value' = [value EXCEPT ![SlotOf(ticket[p])] = ticket[p]]
  /\ Goto(p, "enq_publish")
  /\ UNCHANGED <<head, tail, turn, ticket, got>>

Publish(p) ==
  /\ pc[p] = "enq_publish"
  /\ turn' = [turn EXCEPT ![SlotOf(ticket[p])] = DequeueTurn(ticket[p])]
  /\ Hold(p, None)
  /\ Goto(p, "idle")
  /\ UNCHANGED <<head, tail, value, got>>

-----------------------------------------------------------------------------
(* dequeue() *)

Dequeue(p) ==
  /\ pc[p] = "idle"
  /\ tail < MaxTickets
  /\ Hold(p, tail)
  /\ tail' = tail + 1
  /\ Goto(p, "deq_spin")
  /\ UNCHANGED <<head, turn, value, got>>

DequeueTurnComes(p) ==
  /\ pc[p] = "deq_spin"
  /\ DequeueReady(ticket[p])
  /\ Goto(p, "deq_read")
  /\ UNCHANGED <<head, tail, turn, value, ticket, got>>

Read(p) ==
  /\ pc[p] = "deq_read"
  /\ got' = [got EXCEPT ![p] = value[SlotOf(ticket[p])]]
  /\ Goto(p, "deq_release")
  /\ UNCHANGED <<head, tail, turn, value, ticket>>

Release(p) ==
  /\ pc[p] = "deq_release"
  /\ turn' = [turn EXCEPT ![SlotOf(ticket[p])] = NextLapTurn(ticket[p])]
  /\ Hold(p, None)
  /\ got' = [got EXCEPT ![p] = None]
  /\ Goto(p, "idle")
  /\ UNCHANGED <<head, tail, value>>

-----------------------------------------------------------------------------
(* try_enqueue() and try_dequeue() *)

TryEnqueue(p) ==
  /\ pc[p] = "idle"
  /\ head < MaxTickets
  /\ Hold(p, head)
  /\ Goto(p, "try_enq")
  /\ UNCHANGED <<head, tail, turn, value, got>>

(* Mutant of TryEnqueueCheck: gives up on a counter that may be stale. *)
TryEnqueueGivesUp(p) ==
  /\ pc[p] = "try_enq"
  /\ IF EnqueueReady(ticket[p])
     THEN Goto(p, "try_enq_cas") /\ UNCHANGED ticket
     ELSE Goto(p, "idle") /\ Hold(p, None)
  /\ UNCHANGED <<head, tail, turn, value, got>>

(* The slot is ready; if it is not, give up when head did not move.        *)
TryEnqueueCheck(p) ==
  /\ pc[p] = "try_enq"
  /\ \/ /\ EnqueueReady(ticket[p])
        /\ Goto(p, "try_enq_cas")
        /\ UNCHANGED ticket
     \/ /\ ~EnqueueReady(ticket[p])
        /\ Uint32(head) = Uint32(ticket[p])
        /\ Hold(p, None)
        /\ Goto(p, "idle")
     \/ /\ ~EnqueueReady(ticket[p])
        /\ Uint32(head) # Uint32(ticket[p])
        /\ Hold(p, head)
        /\ UNCHANGED pc
  /\ UNCHANGED <<head, tail, turn, value, got>>

(* Mutant of TryEnqueueExchange: draws a ticket with fetch_add. *)
TryEnqueueExchangeBlindly(p) ==
  /\ pc[p] = "try_enq_cas"
  /\ head < MaxTickets
  /\ head' = head + 1
  /\ Hold(p, head)
  /\ Goto(p, "enq_write")
  /\ UNCHANGED <<tail, turn, value, got>>

TryEnqueueExchange(p) ==
  /\ pc[p] = "try_enq_cas"
  /\ IF Uint32(head) = Uint32(ticket[p])
     THEN head < MaxTickets /\ head' = head + 1 /\ Hold(p, head) /\ Goto(p, "enq_write")
     ELSE UNCHANGED head /\ Hold(p, head) /\ Goto(p, "try_enq")
  /\ UNCHANGED <<tail, turn, value, got>>

TryDequeue(p) ==
  /\ pc[p] = "idle"
  /\ tail < MaxTickets
  /\ Hold(p, tail)
  /\ Goto(p, "try_deq")
  /\ UNCHANGED <<head, tail, turn, value, got>>

TryDequeueCheck(p) ==
  /\ pc[p] = "try_deq"
  /\ \/ /\ DequeueReady(ticket[p])
        /\ Goto(p, "try_deq_cas")
        /\ UNCHANGED ticket
     \/ /\ ~DequeueReady(ticket[p])
        /\ Uint32(tail) = Uint32(ticket[p])
        /\ Hold(p, None)
        /\ Goto(p, "idle")
     \/ /\ ~DequeueReady(ticket[p])
        /\ Uint32(tail) # Uint32(ticket[p])
        /\ Hold(p, tail)
        /\ UNCHANGED pc
  /\ UNCHANGED <<head, tail, turn, value, got>>

TryDequeueExchange(p) ==
  /\ pc[p] = "try_deq_cas"
  /\ IF Uint32(tail) = Uint32(ticket[p])
     THEN tail < MaxTickets /\ tail' = tail + 1 /\ Hold(p, tail) /\ Goto(p, "deq_read")
     ELSE UNCHANGED tail /\ Hold(p, tail) /\ Goto(p, "try_deq")
  /\ UNCHANGED <<head, turn, value, got>>

-----------------------------------------------------------------------------

Call(p) == Enqueue(p) \/ Dequeue(p) \/ TryEnqueue(p) \/ TryDequeue(p)

Continue(p) ==
  \/ EnqueueTurnComes(p) \/ Write(p) \/ Publish(p)
  \/ DequeueTurnComes(p) \/ Read(p) \/ Release(p)
  \/ TryEnqueueCheck(p) \/ TryEnqueueExchange(p)
  \/ TryDequeueCheck(p) \/ TryDequeueExchange(p)

QueueNext == \E p \in Threads : Call(p) \/ Continue(p)

QueueSpec == QueueInit /\ [][QueueNext]_queueVars

-----------------------------------------------------------------------------

TicketOrNone == (0 .. MaxTickets) \cup {None}

(* Counters, turns and tickets have their ranges; a ticket in use has been *)
(* drawn.                                                                  *)
TypeOK ==
  /\ head \in 0 .. MaxTickets
  /\ tail \in 0 .. MaxTickets
  /\ turn \in [Slots -> 0 .. WordSize - 1]
  /\ value \in [Slots -> TicketOrNone]
  /\ ticket \in [Threads -> TicketOrNone]
  /\ got \in [Threads -> TicketOrNone]
  /\ pc \in [Threads -> Locations]
  /\ \A p \in Threads :
       /\ pc[p] \in {"enq_spin", "enq_write", "enq_publish"} => ticket[p] < head
       /\ pc[p] \in {"deq_spin", "deq_read", "deq_release"} => ticket[p] < tail

Inside == {"enq_write", "enq_publish", "deq_read", "deq_release"}

(* The turn admits one thread at a time to a slot, producer or consumer,   *)
(* whatever mixture of blocking and try_ calls draws the tickets: the      *)
(* plain accesses to the value never overlap.                              *)
SlotExclusive ==
  \A p, q \in Threads :
    /\ pc[p] \in Inside /\ pc[q] \in Inside
    /\ SlotOf(ticket[p]) = SlotOf(ticket[q])
    => p = q

(* FIFO: the n-th dequeue returns the n-th enqueued value, once, although  *)
(* producers publish out of order and the ring is reused ("FIFO ordering", *)
(* mpmc_queue.hh).                                                         *)
Fifo == \A p \in Threads : pc[p] = "deq_release" => got[p] = ticket[p]

(* Tickets whose operation has not finished. *)
Pending(locations) == {ticket[p] : p \in {q \in Threads : pc[q] \in locations}}
Producing == Pending({"enq_spin", "enq_write", "enq_publish"})
Consuming == Pending({"deq_spin", "deq_read", "deq_release"})

Enqueued(n) == n \in 0 .. head - 1 /\ n \notin Producing
Dequeued(n) == n \in 0 .. tail - 1 /\ n \notin Consuming

(* enqueue() spins only while the ring is full: once the value one lap     *)
(* before it has left the slot, the producer can store.                    *)
EnqueueNeverBlocksWithRoom ==
  \A p \in Threads :
    pc[p] = "enq_spin" /\ (ticket[p] < SlotCount \/ Dequeued(ticket[p] - SlotCount))
    => EnqueueReady(ticket[p])

(* try_enqueue() fails only at a moment when the ring has no free slot for *)
(* the next ticket, and try_dequeue() only when the next value is not      *)
(* there: neither reports failure because of a stale counter.              *)
HonestFailure ==
  [][\A p \in Threads :
       /\ pc[p] = "try_enq" /\ pc'[p] = "idle"
            => head >= SlotCount /\ ~Dequeued(head - SlotCount)
       /\ pc[p] = "try_deq" /\ pc'[p] = "idle" => ~Enqueued(tail)]_queueVars

(* The ring is a queue: its counters and turns are what they should be, a  *)
(* slot has one user at a time, values leave in the order they came, and a *)
(* producer spins only while there is no room.                             *)
QueueSound == TypeOK /\ SlotExclusive /\ Fifo /\ EnqueueNeverBlocksWithRoom

=============================================================================
