---------------------------- MODULE ContainerProofs ----------------------------
(***************************************************************************)
(* The containers that threads share.                                      *)
(*                                                                         *)
(* MpmcQueue: QueueSound and HonestFailure for any set of threads, any     *)
(* number of slots and any number of tickets, as long as neither a ticket  *)
(* nor a turn has wrapped (QueueAssumption).  What both follow from is     *)
(* TurnKnows: the turn of a slot says of each of its tickets whether it    *)
(* has been stored and whether it has been taken, although tickets are     *)
(* drawn, and stores finish, in any order.                                 *)
(*                                                                         *)
(* WorkStealingQueue: TakenOnce for any set of thieves and any number of   *)
(* slots and jobs.                                                         *)
(*                                                                         *)
(* Latch: LatchSound for any finite set of users.                          *)
(*                                                                         *)
(* Log: MessagesAccounted for any set of threads and any size of the rings *)
(* of messages.  What its second part needs is the order in which the      *)
(* queues were appended: the links follow it but for those that are about  *)
(* to be stored, and the sink is on its way to each queue it has left.     *)
(*                                                                         *)
(* HashSet: HashSetSound for any elements, any hash function and any       *)
(* capacities, from what each chain holds (ChainsOf).                      *)
(***************************************************************************)
EXTENDS MpmcQueue, WorkStealingQueue, Latch, Log, HashSet, FiniteSetTheorems, WellFoundedInduction, TLAPS

LEMMA DivisionRemainder ==
  ASSUME NEW n \in Nat, NEW d \in Nat, d > 0
  PROVE  n = d * (n \div d) + (n % d)
OBVIOUS

-----------------------------------------------------------------------------
(* The queue of any number of producers and consumers. *)


Tickets == 0 .. MaxTickets
Lap(n) == n \div SlotCount

Producer == {"enq_spin", "enq_write", "enq_publish"}
Consumer == {"deq_spin", "deq_read", "deq_release"}

(* A ticket is a counter value that was loaded, and is drawn once. *)
TicketsKnown ==
  \A p \in Threads :
    /\ pc[p] # "idle" => ticket[p] \in Tickets
    /\ pc[p] \in {"try_enq", "try_enq_cas"} => ticket[p] <= head
    /\ pc[p] \in {"try_deq", "try_deq_cas"} => ticket[p] <= tail
    /\ \A q \in Threads \ {p} :
         /\ pc[p] \in Producer /\ pc[q] \in Producer => ticket[p] # ticket[q]
         /\ pc[p] \in Consumer /\ pc[q] \in Consumer => ticket[p] # ticket[q]

TurnKnows ==
  \A n \in Tickets :
    /\ Enqueued(n) <=> turn[SlotOf(n)] >= DequeueTurn(n)
    /\ Dequeued(n) <=> turn[SlotOf(n)] >= NextLapTurn(n)

(* A thread that is past its check has the turn; one that has yet to draw  *)
(* the ticket has it if it draws the one it checked.                       *)
HasTurn ==
  \A p \in Threads :
    /\ pc[p] \in {"enq_write", "enq_publish"} => EnqueueReady(ticket[p])
    /\ pc[p] \in {"deq_read", "deq_release"} => DequeueReady(ticket[p])
    /\ pc[p] = "try_enq_cas" /\ ticket[p] = head => EnqueueReady(head)
    /\ pc[p] = "try_deq_cas" /\ ticket[p] = tail => DequeueReady(tail)

(* A slot whose turn is to be read holds the value of its ticket. *)
ValuesKnown ==
  /\ \A p \in Threads : pc[p] = "enq_publish" => value[SlotOf(ticket[p])] = ticket[p]
  /\ \A n \in Tickets : DequeueReady(n) => value[SlotOf(n)] = n
  /\ Fifo

MpmcInv == TypeOK /\ TicketsKnown /\ TurnKnows /\ HasTurn /\ ValuesKnown

-----------------------------------------------------------------------------
(* Slots and turns. *)

(* Division by the number of slots. *)
LEMMA Division ==
  ASSUME NEW n \in Nat
  PROVE  /\ Lap(n) \in Nat /\ n % SlotCount \in Slots
         /\ n = SlotCount * Lap(n) + (n % SlotCount)
<1>1. SlotCount \in Nat /\ SlotCount > 0
  BY QueueAssumption DEF NothingWraps
<1>2. Lap(n) \in Nat /\ n % SlotCount \in Slots
  BY <1>1 DEF Lap, Slots
<1> QED
  BY <1>1, <1>2, DivisionRemainder DEF Lap

(* The turns of a ticket that has not wrapped. *)
LEMMA Turns ==
  ASSUME NEW n \in Tickets
  PROVE  /\ n \in Nat /\ Lap(n) \in Nat /\ SlotOf(n) \in Slots /\ Uint32(n) = n
         /\ SlotOf(n) = n % SlotCount
         /\ EnqueueTurn(n) = 2 * Lap(n)
         /\ DequeueTurn(n) = 2 * Lap(n) + 1
         /\ NextLapTurn(n) = 2 * Lap(n) + 2
         /\ 2 * Lap(n) + 2 < WordSize
<1>1. /\ n \in Nat /\ n <= MaxTickets /\ MaxTickets \in Nat
      /\ SlotCount \in Nat /\ WordSize \in Nat /\ SlotCount > 0
  BY QueueAssumption DEF NothingWraps, Tickets
<1>2. /\ Lap(n) \in Nat /\ n % SlotCount \in Slots
      /\ n = SlotCount * Lap(n) + (n % SlotCount)
  BY <1>1, Division
<1>3. Lap(n) <= Lap(MaxTickets)
  <2>1. /\ Lap(MaxTickets) \in Nat /\ MaxTickets % SlotCount \in Slots
        /\ MaxTickets = SlotCount * Lap(MaxTickets) + (MaxTickets % SlotCount)
    BY <1>1, Division
  <2>2. SlotCount * Lap(n) < SlotCount * Lap(MaxTickets) + SlotCount
    BY <1>1, <1>2, <2>1 DEF Slots
  <2>3. ASSUME Lap(n) >= Lap(MaxTickets) + 1 PROVE FALSE
    BY <1>1, <1>2, <2>1, <2>2, <2>3
  <2> QED
    BY <1>2, <2>1, <2>3
<1>4. 2 * Lap(n) + 2 < WordSize
  BY <1>1, <1>2, <1>3, QueueAssumption DEF NothingWraps, Lap
<1>5. \A k \in Nat : k < WordSize => Uint32(k) = k
  BY <1>1 DEF Uint32
<1>6. Uint32(n) = n
  BY <1>1, <1>5, QueueAssumption DEF NothingWraps
<1> QED
  BY <1>1, <1>2, <1>4, <1>5, <1>6 DEF SlotOf, EnqueueTurn, DequeueTurn, NextLapTurn, Lap

(* Tickets of one slot and one lap are the same. *)
LEMMA SlotAndLap ==
  ASSUME NEW n \in Tickets, NEW k \in Tickets,
         SlotOf(n) = SlotOf(k), Lap(n) = Lap(k)
  PROVE  n = k
<1>1. n % SlotCount = k % SlotCount
  BY Turns
<1>2. /\ n = SlotCount * Lap(n) + (n % SlotCount)
      /\ k = SlotCount * Lap(k) + (k % SlotCount)
  BY Division, Turns
<1>3. SlotCount * Lap(n) = SlotCount * Lap(k)
  OBVIOUS
<1> QED
  BY <1>1, <1>2, <1>3

(* The ticket one lap before. *)
LEMMA LapBefore ==
  ASSUME NEW n \in Tickets
  PROVE  /\ n < SlotCount => Lap(n) = 0
         /\ n >= SlotCount => /\ n - SlotCount \in Tickets
                              /\ SlotOf(n - SlotCount) = SlotOf(n)
                              /\ Lap(n - SlotCount) = Lap(n) - 1
<1> USE QueueAssumption DEF NothingWraps, Tickets
<1>1. n < SlotCount => Lap(n) = 0
  BY DEF Lap
<1>2. ASSUME n >= SlotCount
      PROVE  /\ n - SlotCount \in Tickets
             /\ SlotOf(n - SlotCount) = SlotOf(n)
             /\ Lap(n - SlotCount) = Lap(n) - 1
  <2>1. n - SlotCount \in Tickets
    BY <1>2
  <2>2. (n - SlotCount) % SlotCount = n % SlotCount /\ Lap(n - SlotCount) = Lap(n) - 1
    BY <1>2 DEF Lap
  <2> QED
    BY <2>1, <2>2, Turns
<1> QED
  BY <1>1, <1>2

-----------------------------------------------------------------------------
(* What the actions have in common. *)

(* All that the steps need to know about slots, laps and turns. *)
LEMMA AllTurns ==
  /\ \A n \in Tickets :
       /\ SlotOf(n) \in Slots /\ Lap(n) \in Nat
       /\ Uint32(n) = n
       /\ EnqueueTurn(n) = 2 * Lap(n)
       /\ DequeueTurn(n) = 2 * Lap(n) + 1
       /\ NextLapTurn(n) = 2 * Lap(n) + 2
       /\ 2 * Lap(n) + 2 < WordSize
  /\ \A n, k \in Tickets : SlotOf(n) = SlotOf(k) /\ Lap(n) = Lap(k) => n = k
  /\ MaxTickets \in Nat /\ WordSize \in Nat
BY Turns, SlotAndLap, QueueAssumption DEF NothingWraps

LEMMA FinishedOperations ==
  \A n \in Tickets :
    /\ Enqueued(n) <=> n \in 0 .. head - 1 /\ \A p \in Threads : pc[p] \in Producer => ticket[p] # n
    /\ Dequeued(n) <=> n \in 0 .. tail - 1 /\ \A p \in Threads : pc[p] \in Consumer => ticket[p] # n
BY DEF Enqueued, Dequeued, Pending, Producing, Consuming, Producer, Consumer

LEMMA FinishedOperationsNext ==
  \A n \in Tickets :
    /\ Enqueued(n)' <=> n \in 0 .. head' - 1 /\ \A p \in Threads : pc'[p] \in Producer => ticket'[p] # n
    /\ Dequeued(n)' <=> n \in 0 .. tail' - 1 /\ \A p \in Threads : pc'[p] \in Consumer => ticket'[p] # n
BY DEF Enqueued, Dequeued, Pending, Producing, Consuming, Producer, Consumer

(* The slot of a thread that has the turn is nobody else's. *)
LEMMA AloneInSlot ==
  ASSUME MpmcInv, NEW p \in Threads, pc[p] \in Inside, NEW n \in Tickets,
         SlotOf(n) = SlotOf(ticket[p])
  PROVE  /\ ticket[p] \in Tickets
         /\ EnqueueReady(n) => n = ticket[p] /\ pc[p] \in Producer
         /\ DequeueReady(n) => n = ticket[p] /\ pc[p] \in Consumer
<1>1. ticket[p] \in Tickets
  BY DEF MpmcInv, TicketsKnown, Inside
<1>2. CASE pc[p] \in {"enq_write", "enq_publish"}
  <2>1. turn[SlotOf(n)] = 2 * Lap(ticket[p])
    BY <1>1, <1>2, AllTurns DEF MpmcInv, HasTurn, EnqueueReady
  <2> QED
    BY <1>1, <1>2, <2>1, AllTurns DEF EnqueueReady, DequeueReady, Producer
<1>3. CASE pc[p] \in {"deq_read", "deq_release"}
  <2>1. turn[SlotOf(n)] = 2 * Lap(ticket[p]) + 1
    BY <1>1, <1>3, AllTurns DEF MpmcInv, HasTurn, DequeueReady
  <2> QED
    BY <1>1, <1>3, <2>1, AllTurns DEF EnqueueReady, DequeueReady, Consumer
<1> QED
  BY <1>1, <1>2, <1>3 DEF Inside

-----------------------------------------------------------------------------
(* One lemma per conjunct of the invariant. *)

LEMMA StepTypes ==
  ASSUME MpmcInv, NEW p \in Threads, Call(p) \/ Continue(p)
  PROVE  TypeOK'
<1> USE DEF MpmcInv, TypeOK, TicketOrNone, Locations, Goto, Hold
<1>1. MaxTickets \in Nat /\ WordSize \in Nat
  BY AllTurns
<1>2. CASE Call(p) \/ EnqueueTurnComes(p) \/ DequeueTurnComes(p) \/ Read(p)
  BY <1>1, <1>2, AllTurns
     DEF Call, Enqueue, Dequeue, TryEnqueue, TryDequeue, EnqueueTurnComes, DequeueTurnComes, Read,
         Tickets, TicketsKnown
<1>3. CASE Write(p)
  BY <1>1, <1>3, AllTurns DEF Write, Tickets, TicketsKnown
<1>4. CASE Publish(p) \/ Release(p)
  <2>1. DequeueTurn(ticket[p]) \in 0 .. WordSize - 1 /\ NextLapTurn(ticket[p]) \in 0 .. WordSize - 1
    BY <1>1, <1>4, AllTurns DEF Publish, Release, TicketsKnown
  <2> QED
    BY <1>4, <2>1 DEF Publish, Release
<1>5. CASE TryEnqueueCheck(p) \/ TryDequeueCheck(p)
  BY <1>5 DEF TryEnqueueCheck, TryDequeueCheck
<1>6. CASE TryEnqueueExchange(p)
  <2>1. CASE Uint32(head) = Uint32(ticket[p])
    <3>1. /\ head < MaxTickets /\ head' = head + 1
          /\ ticket' = [ticket EXCEPT ![p] = head] /\ pc' = [pc EXCEPT ![p] = "enq_write"]
          /\ UNCHANGED <<tail, turn, value, got>>
      BY <1>6, <2>1 DEF TryEnqueueExchange
    <3>2. \A q \in Threads : q # p => pc'[q] = pc[q] /\ ticket'[q] = ticket[q]
      BY <3>1
    <3>3. head \in Int /\ tail \in Int /\ \A q \in Threads : ticket[q] \in Int
      BY <1>1 DEF None
    <3>4. /\ head' \in 0 .. MaxTickets /\ tail' \in 0 .. MaxTickets
          /\ ticket' \in [Threads -> TicketOrNone] /\ pc' \in [Threads -> Locations]
      BY <1>1, <3>1, <3>3
    <3>5. \A q \in Threads :
            /\ pc'[q] \in {"enq_spin", "enq_write", "enq_publish"} => ticket'[q] < head'
            /\ pc'[q] \in {"deq_spin", "deq_read", "deq_release"} => ticket'[q] < tail'
      BY <3>1, <3>2, <3>3
    <3> QED
      BY <3>1, <3>4, <3>5
  <2>2. CASE Uint32(head) # Uint32(ticket[p])
    <3>1. /\ ticket' = [ticket EXCEPT ![p] = head] /\ pc' = [pc EXCEPT ![p] = "try_enq"]
          /\ UNCHANGED <<head, tail, turn, value, got>>
      BY <1>6, <2>2 DEF TryEnqueueExchange
    <3>2. \A q \in Threads : q # p => pc'[q] = pc[q] /\ ticket'[q] = ticket[q]
      BY <3>1
    <3>3. head \in Int /\ tail \in Int /\ \A q \in Threads : ticket[q] \in Int
      BY <1>1 DEF None
    <3>4. /\ head' \in 0 .. MaxTickets /\ tail' \in 0 .. MaxTickets
          /\ ticket' \in [Threads -> TicketOrNone] /\ pc' \in [Threads -> Locations]
      BY <1>1, <3>1, <3>3
    <3>5. \A q \in Threads :
            /\ pc'[q] \in {"enq_spin", "enq_write", "enq_publish"} => ticket'[q] < head'
            /\ pc'[q] \in {"deq_spin", "deq_read", "deq_release"} => ticket'[q] < tail'
      BY <3>1, <3>2, <3>3
    <3> QED
      BY <3>1, <3>4, <3>5
  <2> QED
    BY <2>1, <2>2
<1>7. CASE TryDequeueExchange(p)
  <2>1. CASE Uint32(tail) = Uint32(ticket[p])
    <3>1. /\ tail < MaxTickets /\ tail' = tail + 1
          /\ ticket' = [ticket EXCEPT ![p] = tail] /\ pc' = [pc EXCEPT ![p] = "deq_read"]
          /\ UNCHANGED <<head, turn, value, got>>
      BY <1>7, <2>1 DEF TryDequeueExchange
    <3>2. \A q \in Threads : q # p => pc'[q] = pc[q] /\ ticket'[q] = ticket[q]
      BY <3>1
    <3>3. head \in Int /\ tail \in Int /\ \A q \in Threads : ticket[q] \in Int
      BY <1>1 DEF None
    <3>4. /\ head' \in 0 .. MaxTickets /\ tail' \in 0 .. MaxTickets
          /\ ticket' \in [Threads -> TicketOrNone] /\ pc' \in [Threads -> Locations]
      BY <1>1, <3>1, <3>3
    <3>5. \A q \in Threads :
            /\ pc'[q] \in {"enq_spin", "enq_write", "enq_publish"} => ticket'[q] < head'
            /\ pc'[q] \in {"deq_spin", "deq_read", "deq_release"} => ticket'[q] < tail'
      BY <3>1, <3>2, <3>3
    <3> QED
      BY <3>1, <3>4, <3>5
  <2>2. CASE Uint32(tail) # Uint32(ticket[p])
    <3>1. /\ ticket' = [ticket EXCEPT ![p] = tail] /\ pc' = [pc EXCEPT ![p] = "try_deq"]
          /\ UNCHANGED <<head, tail, turn, value, got>>
      BY <1>7, <2>2 DEF TryDequeueExchange
    <3>2. \A q \in Threads : q # p => pc'[q] = pc[q] /\ ticket'[q] = ticket[q]
      BY <3>1
    <3>3. head \in Int /\ tail \in Int /\ \A q \in Threads : ticket[q] \in Int
      BY <1>1 DEF None
    <3>4. /\ head' \in 0 .. MaxTickets /\ tail' \in 0 .. MaxTickets
          /\ ticket' \in [Threads -> TicketOrNone] /\ pc' \in [Threads -> Locations]
      BY <1>1, <3>1, <3>3
    <3>5. \A q \in Threads :
            /\ pc'[q] \in {"enq_spin", "enq_write", "enq_publish"} => ticket'[q] < head'
            /\ pc'[q] \in {"deq_spin", "deq_read", "deq_release"} => ticket'[q] < tail'
      BY <3>1, <3>2, <3>3
    <3> QED
      BY <3>1, <3>4, <3>5
  <2> QED
    BY <2>1, <2>2
<1> QED
  BY <1>2, <1>3, <1>4, <1>5, <1>6, <1>7 DEF Continue

LEMMA StepTickets ==
  ASSUME MpmcInv, NEW p \in Threads, Call(p) \/ Continue(p)
  PROVE  TicketsKnown'
<1> USE DEF MpmcInv, TypeOK, TicketsKnown, Tickets, Producer, Consumer, Goto, Hold
<1>1. CASE Call(p)
  BY <1>1, AllTurns DEF Call, Enqueue, Dequeue, TryEnqueue, TryDequeue
<1>2. CASE EnqueueTurnComes(p) \/ Write(p) \/ Publish(p) \/ DequeueTurnComes(p) \/ Read(p) \/ Release(p)
  BY <1>2 DEF EnqueueTurnComes, Write, Publish, DequeueTurnComes, Read, Release
<1>3. CASE TryEnqueueCheck(p) \/ TryDequeueCheck(p)
  BY <1>3 DEF TryEnqueueCheck, TryDequeueCheck
<1>4. CASE TryEnqueueExchange(p) \/ TryDequeueExchange(p)
  BY <1>4, AllTurns DEF TryEnqueueExchange, TryDequeueExchange
<1> QED
  BY <1>1, <1>2, <1>3, <1>4 DEF Continue

LEMMA StepTurn ==
  ASSUME MpmcInv, NEW p \in Threads, Call(p) \/ Continue(p)
  PROVE  HasTurn'
<1> USE DEF MpmcInv, TypeOK, TicketsKnown, Tickets, HasTurn, EnqueueReady, DequeueReady, Goto, Hold
<1>1. CASE Call(p)
  BY <1>1, AllTurns DEF Call, Enqueue, Dequeue, TryEnqueue, TryDequeue
<1>2. CASE EnqueueTurnComes(p) \/ Write(p) \/ DequeueTurnComes(p) \/ Read(p)
  BY <1>2 DEF EnqueueTurnComes, Write, DequeueTurnComes, Read
<1>3. CASE Publish(p) \/ Release(p)
  <2>1. /\ pc[p] \in Inside /\ ticket[p] \in Tickets
        /\ pc' = [pc EXCEPT ![p] = "idle"] /\ UNCHANGED <<head, tail>>
        /\ \A q \in Threads : q # p => ticket'[q] = ticket[q]
        /\ \A s \in Slots : s # SlotOf(ticket[p]) => turn'[s] = turn[s]
    BY <1>3 DEF Publish, Release, Inside
  <2>2. ASSUME NEW n \in Tickets, n # ticket[p]
        PROVE  /\ EnqueueReady(n) => turn'[SlotOf(n)] = EnqueueTurn(n)
               /\ DequeueReady(n) => turn'[SlotOf(n)] = DequeueTurn(n)
    BY <2>1, <2>2, AloneInSlot, AllTurns
  <2>3. ASSUME NEW q \in Threads, q # p
        PROVE  /\ pc[q] \in {"enq_write", "enq_publish"} => turn'[SlotOf(ticket[q])] = EnqueueTurn(ticket[q])
               /\ pc[q] \in {"deq_read", "deq_release"} => turn'[SlotOf(ticket[q])] = DequeueTurn(ticket[q])
    <3>1. pc[q] \in Inside => ticket[q] \in Tickets
      BY DEF Inside
    <3>2. CASE ticket[q] # ticket[p]
      BY <2>2, <3>1, <3>2 DEF Inside
    <3>3. CASE ticket[q] = ticket[p] /\ pc[q] \in Inside
      BY <2>1, <2>3, <3>1, <3>3, AloneInSlot DEF Inside, Producer, Consumer
    <3> QED
      BY <3>2, <3>3 DEF Inside
  <2>4. ASSUME NEW q \in Threads, q # p
        PROVE  /\ pc[q] = "try_enq_cas" /\ ticket[q] = head => turn'[SlotOf(head)] = EnqueueTurn(head)
               /\ pc[q] = "try_deq_cas" /\ ticket[q] = tail => turn'[SlotOf(tail)] = DequeueTurn(tail)
    <3>1. ASSUME pc[q] = "try_enq_cas", ticket[q] = head
          PROVE  turn'[SlotOf(head)] = EnqueueTurn(head)
      <4>1. EnqueueReady(head) /\ head \in Tickets
        BY <3>1
      <4>2. head # ticket[p]
        BY <1>3, <2>1, <4>1, AloneInSlot DEF Producer, Publish, Release
      <4> QED
        BY <2>2, <4>1, <4>2
    <3>2. ASSUME pc[q] = "try_deq_cas", ticket[q] = tail
          PROVE  turn'[SlotOf(tail)] = DequeueTurn(tail)
      <4>1. DequeueReady(tail) /\ tail \in Tickets
        BY <3>2
      <4>2. tail # ticket[p]
        BY <1>3, <2>1, <4>1, AloneInSlot DEF Consumer, Publish, Release
      <4> QED
        BY <2>2, <4>1, <4>2
    <3> QED
      BY <3>1, <3>2
  <2> QED
    BY <2>1, <2>3, <2>4
<1>4. CASE TryEnqueueCheck(p) \/ TryDequeueCheck(p)
  BY <1>4, AllTurns DEF TryEnqueueCheck, TryDequeueCheck
<1>5. CASE TryEnqueueExchange(p)
  <2>1. /\ pc[p] = "try_enq_cas" /\ ticket[p] \in Tickets /\ head \in Tickets
        /\ turn' = turn /\ tail' = tail
        /\ \A q \in Threads : q # p => pc'[q] = pc[q] /\ ticket'[q] = ticket[q]
    BY <1>5, AllTurns DEF TryEnqueueExchange
  <2>2. CASE Uint32(head) = Uint32(ticket[p])
    <3>1. ticket[p] = head /\ head' = head + 1 /\ ticket'[p] = head /\ pc'[p] = "enq_write"
      BY <1>5, <2>1, <2>2, AllTurns DEF TryEnqueueExchange
    <3>2. EnqueueReady(head) /\ \A q \in Threads : pc[q] = "try_enq_cas" => ticket[q] # head + 1
      BY <2>1, <3>1, AllTurns
    <3> QED
      BY <2>1, <3>1, <3>2
  <2>3. CASE Uint32(head) # Uint32(ticket[p])
    <3>1. head' = head /\ pc'[p] = "try_enq"
      BY <1>5, <2>3 DEF TryEnqueueExchange
    <3> QED
      BY <2>1, <3>1
  <2> QED
    BY <2>2, <2>3
<1>6. CASE TryDequeueExchange(p)
  <2>1. /\ pc[p] = "try_deq_cas" /\ ticket[p] \in Tickets /\ tail \in Tickets
        /\ turn' = turn /\ head' = head
        /\ \A q \in Threads : q # p => pc'[q] = pc[q] /\ ticket'[q] = ticket[q]
    BY <1>6, AllTurns DEF TryDequeueExchange
  <2>2. CASE Uint32(tail) = Uint32(ticket[p])
    <3>1. ticket[p] = tail /\ tail' = tail + 1 /\ ticket'[p] = tail /\ pc'[p] = "deq_read"
      BY <1>6, <2>1, <2>2, AllTurns DEF TryDequeueExchange
    <3>2. DequeueReady(tail) /\ \A q \in Threads : pc[q] = "try_deq_cas" => ticket[q] # tail + 1
      BY <2>1, <3>1, AllTurns
    <3> QED
      BY <2>1, <3>1, <3>2
  <2>3. CASE Uint32(tail) # Uint32(ticket[p])
    <3>1. tail' = tail /\ pc'[p] = "try_deq"
      BY <1>6, <2>3 DEF TryDequeueExchange
    <3> QED
      BY <2>1, <3>1
  <2> QED
    BY <2>2, <2>3
<1> QED
  BY <1>1, <1>2, <1>3, <1>4, <1>5, <1>6 DEF Continue

LEMMA StepValues ==
  ASSUME MpmcInv, NEW p \in Threads, Call(p) \/ Continue(p)
  PROVE  ValuesKnown'
<1> USE DEF MpmcInv, TypeOK, TicketsKnown, Tickets, HasTurn, ValuesKnown, Fifo, EnqueueReady,
            DequeueReady, Producer, Consumer, Goto, Hold
<1>1. CASE Call(p)
  BY <1>1 DEF Call, Enqueue, Dequeue, TryEnqueue, TryDequeue
<1>2. CASE EnqueueTurnComes(p) \/ DequeueTurnComes(p) \/ Read(p)
  BY <1>2 DEF EnqueueTurnComes, DequeueTurnComes, Read
<1>3. CASE Write(p)
  <2>1. /\ pc[p] = "enq_write" /\ p \in Threads /\ pc[p] \in Inside /\ ticket[p] \in Tickets
        /\ value' = [value EXCEPT ![SlotOf(ticket[p])] = ticket[p]]
        /\ pc' = [pc EXCEPT ![p] = "enq_publish"] /\ UNCHANGED <<turn, ticket, got>>
    BY <1>3 DEF Write, Inside
  <2>2. SlotOf(ticket[p]) \in Slots
    BY <2>1, AllTurns
  <2>3. ASSUME NEW q \in Threads, pc'[q] = "enq_publish"
        PROVE  value'[SlotOf(ticket[q])] = ticket[q]
    <3>1. CASE q = p
      BY <2>1, <2>2, <3>1
    <3>2. CASE q # p
      <4>1. pc[q] = "enq_publish" /\ ticket[q] \in Tickets /\ EnqueueReady(ticket[q])
        BY <2>1, <2>3, <3>2
      <4>2. SlotOf(ticket[q]) # SlotOf(ticket[p])
        BY <2>1, <3>2, <4>1, AloneInSlot
      <4> QED
        BY <2>1, <4>1, <4>2, AllTurns
    <3> QED
      BY <3>1, <3>2
  <2>4. ASSUME NEW n \in Tickets, turn[SlotOf(n)] = DequeueTurn(n)
        PROVE  value'[SlotOf(n)] = n
    <3>1. SlotOf(n) # SlotOf(ticket[p])
      BY <2>1, <2>4, AloneInSlot
    <3> QED
      BY <2>1, <2>4, <3>1, AllTurns
  <2> QED
    BY <2>1, <2>3, <2>4
<1>4. CASE Publish(p)
  <2>1. /\ pc[p] = "enq_publish" /\ ticket[p] \in Tickets /\ UNCHANGED <<value, got>>
        /\ pc' = [pc EXCEPT ![p] = "idle"]
        /\ \A q \in Threads : q # p => ticket'[q] = ticket[q]
        /\ turn' = [turn EXCEPT ![SlotOf(ticket[p])] = 2 * Lap(ticket[p]) + 1]
        /\ value[SlotOf(ticket[p])] = ticket[p]
    BY <1>4, AllTurns DEF Publish
  <2>2. ASSUME NEW n \in Tickets, turn'[SlotOf(n)] = DequeueTurn(n)
        PROVE  value[SlotOf(n)] = n
    <3>1. SlotOf(n) = SlotOf(ticket[p]) => n = ticket[p]
      BY <2>1, <2>2, AllTurns
    <3> QED
      BY <2>1, <2>2, <3>1, AllTurns
  <2> QED
    BY <2>1, <2>2
<1>5. CASE Release(p)
  <2>1. /\ pc[p] = "deq_release" /\ ticket[p] \in Tickets /\ UNCHANGED value
        /\ pc' = [pc EXCEPT ![p] = "idle"] /\ got' = [got EXCEPT ![p] = None]
        /\ \A q \in Threads : q # p => ticket'[q] = ticket[q]
        /\ turn' = [turn EXCEPT ![SlotOf(ticket[p])] = 2 * Lap(ticket[p]) + 2]
    BY <1>5, AllTurns DEF Release
  <2>2. ASSUME NEW n \in Tickets, turn'[SlotOf(n)] = DequeueTurn(n)
        PROVE  value[SlotOf(n)] = n
    <3>1. SlotOf(n) # SlotOf(ticket[p])
      BY <2>1, <2>2, AllTurns
    <3> QED
      BY <2>1, <2>2, <3>1, AllTurns
  <2> QED
    BY <2>1, <2>2
<1>6. CASE TryEnqueueCheck(p) \/ TryDequeueCheck(p)
  BY <1>6 DEF TryEnqueueCheck, TryDequeueCheck
<1>7. CASE TryEnqueueExchange(p) \/ TryDequeueExchange(p)
  BY <1>7 DEF TryEnqueueExchange, TryDequeueExchange
<1> QED
  BY <1>1, <1>2, <1>3, <1>4, <1>5, <1>6, <1>7 DEF Continue

(* Tickets that are drawn, and steps inside an operation, finish none. *)
LEMMA OperationsKept ==
  ASSUME MpmcInv, NEW p \in Threads, turn' = turn,
         \A q \in Threads \ {p} : pc'[q] = pc[q] /\ ticket'[q] = ticket[q],
         \/ /\ head' = head /\ (pc'[p] \in Producer <=> pc[p] \in Producer)
            /\ pc[p] \in Producer => ticket'[p] = ticket[p]
         \/ head' = head + 1 /\ pc[p] \notin Producer /\ pc'[p] \in Producer /\ ticket'[p] = head,
         \/ /\ tail' = tail /\ (pc'[p] \in Consumer <=> pc[p] \in Consumer)
            /\ pc[p] \in Consumer => ticket'[p] = ticket[p]
         \/ tail' = tail + 1 /\ pc[p] \notin Consumer /\ pc'[p] \in Consumer /\ ticket'[p] = tail
  PROVE  TurnKnows'
<1>1. /\ head \in Nat /\ tail \in Nat
      /\ \A q \in Threads : /\ pc[q] \in Producer => ticket[q] < head
                           /\ pc[q] \in Consumer => ticket[q] < tail
  BY AllTurns DEF MpmcInv, TypeOK, Producer, Consumer
<1>2. ASSUME NEW n \in Tickets PROVE Enqueued(n)' <=> Enqueued(n)
  <2>1. n \in Nat
    BY AllTurns DEF Tickets
  <2>2. CASE head' = head
    <3>1. /\ pc'[p] \in Producer <=> pc[p] \in Producer
          /\ pc[p] \in Producer => ticket'[p] = ticket[p]
      BY <1>1, <2>2
    <3> QED
      BY <2>2, <3>1, FinishedOperations, FinishedOperationsNext
  <2>3. CASE head' = head + 1
    <3>1. pc[p] \notin Producer /\ pc'[p] \in Producer /\ ticket'[p] = head
      BY <1>1, <2>3
    <3>2. Enqueued(n)' => Enqueued(n)
      BY <1>1, <2>1, <2>3, <3>1, FinishedOperations, FinishedOperationsNext
    <3>3. Enqueued(n) => Enqueued(n)'
      BY <1>1, <2>1, <2>3, <3>1, FinishedOperations, FinishedOperationsNext
    <3> QED
      BY <3>2, <3>3
  <2> QED
    BY <2>2, <2>3
<1>3. ASSUME NEW n \in Tickets PROVE Dequeued(n)' <=> Dequeued(n)
  <2>1. n \in Nat
    BY AllTurns DEF Tickets
  <2>2. CASE tail' = tail
    <3>1. /\ pc'[p] \in Consumer <=> pc[p] \in Consumer
          /\ pc[p] \in Consumer => ticket'[p] = ticket[p]
      BY <1>1, <2>2
    <3> QED
      BY <2>2, <3>1, FinishedOperations, FinishedOperationsNext
  <2>3. CASE tail' = tail + 1
    <3>1. pc[p] \notin Consumer /\ pc'[p] \in Consumer /\ ticket'[p] = tail
      BY <1>1, <2>3
    <3>2. Dequeued(n)' => Dequeued(n)
      BY <1>1, <2>1, <2>3, <3>1, FinishedOperations, FinishedOperationsNext
    <3>3. Dequeued(n) => Dequeued(n)'
      BY <1>1, <2>1, <2>3, <3>1, FinishedOperations, FinishedOperationsNext
    <3> QED
      BY <3>2, <3>3
  <2> QED
    BY <2>2, <2>3
<1> QED
  BY <1>2, <1>3 DEF MpmcInv, TurnKnows

LEMMA StepTurnKnows ==
  ASSUME MpmcInv, NEW p \in Threads, Call(p) \/ Continue(p)
  PROVE  TurnKnows'
<1> USE DEF MpmcInv, TypeOK, TicketsKnown, Tickets, HasTurn, EnqueueReady, DequeueReady,
        Producer, Consumer, Goto, Hold
<1>1. CASE Enqueue(p) \/ Dequeue(p)
  BY <1>1, OperationsKept DEF Enqueue, Dequeue
<1>2. CASE TryEnqueue(p) \/ TryDequeue(p)
  BY <1>2, OperationsKept DEF TryEnqueue, TryDequeue
<1>3. CASE EnqueueTurnComes(p) \/ Write(p) \/ DequeueTurnComes(p) \/ Read(p)
  BY <1>3, OperationsKept DEF EnqueueTurnComes, Write, DequeueTurnComes, Read
<1>4. CASE Publish(p)
  <2>1. /\ pc[p] = "enq_publish" /\ ticket[p] \in Tickets /\ UNCHANGED <<head, tail>>
        /\ pc' = [pc EXCEPT ![p] = "idle"]
        /\ \A q \in Threads : q # p => ticket'[q] = ticket[q]
        /\ turn' = [turn EXCEPT ![SlotOf(ticket[p])] = 2 * Lap(ticket[p]) + 1]
        /\ turn[SlotOf(ticket[p])] = 2 * Lap(ticket[p])
    BY <1>4, AllTurns DEF Publish
  <2>2. ASSUME NEW n \in Tickets
        PROVE  /\ Enqueued(n)' <=> Enqueued(n) \/ n = ticket[p]
               /\ Dequeued(n)' <=> Dequeued(n)
    BY <2>1, FinishedOperations, FinishedOperationsNext
  <2>3. ASSUME NEW n \in Tickets
        PROVE  /\ turn'[SlotOf(n)] >= DequeueTurn(n)
                     <=> turn[SlotOf(n)] >= DequeueTurn(n) \/ n = ticket[p]
               /\ turn'[SlotOf(n)] >= NextLapTurn(n) <=> turn[SlotOf(n)] >= NextLapTurn(n)
    <3>1. /\ SlotOf(n) \in Slots /\ SlotOf(ticket[p]) \in Slots
          /\ Lap(n) \in Nat /\ Lap(ticket[p]) \in Nat
          /\ DequeueTurn(n) = 2 * Lap(n) + 1 /\ NextLapTurn(n) = 2 * Lap(n) + 2
      BY <2>1, AllTurns
    <3>2. CASE SlotOf(n) # SlotOf(ticket[p])
      BY <2>1, <3>1, <3>2
    <3>3. CASE SlotOf(n) = SlotOf(ticket[p])
      <4>1. turn'[SlotOf(n)] = 2 * Lap(ticket[p]) + 1 /\ turn[SlotOf(n)] = 2 * Lap(ticket[p])
        BY <2>1, <3>1, <3>3
      <4>2. Lap(n) = Lap(ticket[p]) => n = ticket[p]
        BY <2>1, <3>3, SlotAndLap
      <4>3. turn'[SlotOf(n)] >= DequeueTurn(n) <=> Lap(n) <= Lap(ticket[p])
        BY <3>1, <4>1
      <4>4. turn[SlotOf(n)] >= DequeueTurn(n) <=> Lap(n) < Lap(ticket[p])
        BY <3>1, <4>1
      <4>5. turn'[SlotOf(n)] >= NextLapTurn(n) <=> Lap(n) < Lap(ticket[p])
        BY <3>1, <4>1
      <4>6. turn[SlotOf(n)] >= NextLapTurn(n) <=> Lap(n) < Lap(ticket[p])
        BY <3>1, <4>1
      <4> QED
        BY <3>1, <4>2, <4>3, <4>4, <4>5, <4>6
    <3> QED
      BY <3>2, <3>3
  <2> QED
    BY <2>2, <2>3 DEF TurnKnows
<1>5. CASE Release(p)
  <2>1. /\ pc[p] = "deq_release" /\ ticket[p] \in Tickets /\ UNCHANGED <<head, tail>>
        /\ pc' = [pc EXCEPT ![p] = "idle"]
        /\ \A q \in Threads : q # p => ticket'[q] = ticket[q]
        /\ turn' = [turn EXCEPT ![SlotOf(ticket[p])] = 2 * Lap(ticket[p]) + 2]
        /\ turn[SlotOf(ticket[p])] = 2 * Lap(ticket[p]) + 1
    BY <1>5, AllTurns DEF Release
  <2>2. ASSUME NEW n \in Tickets
        PROVE  /\ Enqueued(n)' <=> Enqueued(n)
               /\ Dequeued(n)' <=> Dequeued(n) \/ n = ticket[p]
    BY <2>1, FinishedOperations, FinishedOperationsNext
  <2>3. ASSUME NEW n \in Tickets
        PROVE  /\ turn'[SlotOf(n)] >= DequeueTurn(n) <=> turn[SlotOf(n)] >= DequeueTurn(n)
               /\ turn'[SlotOf(n)] >= NextLapTurn(n)
                     <=> turn[SlotOf(n)] >= NextLapTurn(n) \/ n = ticket[p]
    <3>1. /\ SlotOf(n) \in Slots /\ SlotOf(ticket[p]) \in Slots
          /\ Lap(n) \in Nat /\ Lap(ticket[p]) \in Nat
          /\ DequeueTurn(n) = 2 * Lap(n) + 1 /\ NextLapTurn(n) = 2 * Lap(n) + 2
      BY <2>1, AllTurns
    <3>2. CASE SlotOf(n) # SlotOf(ticket[p])
      BY <2>1, <3>1, <3>2
    <3>3. CASE SlotOf(n) = SlotOf(ticket[p])
      <4>1. turn'[SlotOf(n)] = 2 * Lap(ticket[p]) + 2 /\ turn[SlotOf(n)] = 2 * Lap(ticket[p]) + 1
        BY <2>1, <3>1, <3>3
      <4>2. Lap(n) = Lap(ticket[p]) => n = ticket[p]
        BY <2>1, <3>3, SlotAndLap
      <4>3. turn'[SlotOf(n)] >= DequeueTurn(n) <=> Lap(n) <= Lap(ticket[p])
        BY <3>1, <4>1
      <4>4. turn[SlotOf(n)] >= DequeueTurn(n) <=> Lap(n) <= Lap(ticket[p])
        BY <3>1, <4>1
      <4>5. turn'[SlotOf(n)] >= NextLapTurn(n) <=> Lap(n) <= Lap(ticket[p])
        BY <3>1, <4>1
      <4>6. turn[SlotOf(n)] >= NextLapTurn(n) <=> Lap(n) < Lap(ticket[p])
        BY <3>1, <4>1
      <4> QED
        BY <3>1, <4>2, <4>3, <4>4, <4>5, <4>6
    <3> QED
      BY <3>2, <3>3
  <2> QED
    BY <2>2, <2>3 DEF TurnKnows
<1>6. CASE TryEnqueueCheck(p) \/ TryDequeueCheck(p)
  BY <1>6, OperationsKept DEF TryEnqueueCheck, TryDequeueCheck
<1>7. CASE TryEnqueueExchange(p)
  BY <1>7, OperationsKept DEF TryEnqueueExchange
<1>8. CASE TryDequeueExchange(p)
  BY <1>8, OperationsKept DEF TryDequeueExchange
<1> QED
  BY <1>1, <1>2, <1>3, <1>4, <1>5, <1>6, <1>7, <1>8 DEF Call, Continue

LEMMA MpmcStepInv == MpmcInv /\ [QueueNext]_queueVars => MpmcInv'
<1> SUFFICES ASSUME MpmcInv, [QueueNext]_queueVars PROVE MpmcInv'
  OBVIOUS
<1>1. CASE UNCHANGED queueVars
  BY <1>1, FinishedOperations, FinishedOperationsNext
     DEF queueVars, MpmcInv, TypeOK, TicketsKnown, TurnKnows, HasTurn, ValuesKnown, Fifo, EnqueueReady,
         DequeueReady
<1>2. ASSUME NEW p \in Threads, Call(p) \/ Continue(p)
      PROVE  MpmcInv'
  BY <1>2, StepTypes, StepTickets, StepTurn, StepValues, StepTurnKnows DEF MpmcInv
<1> QED
  BY <1>1, <1>2 DEF QueueNext

LEMMA MpmcInitInv == QueueInit => MpmcInv
<1> SUFFICES ASSUME QueueInit PROVE MpmcInv
  OBVIOUS
<1> USE DEF QueueInit
<1>1. TypeOK
  BY AllTurns, QueueAssumption DEF NothingWraps, TypeOK, TicketOrNone, Locations
<1>2. TicketsKnown /\ HasTurn
  BY DEF TicketsKnown, HasTurn, Producer, Consumer
<1>3. TurnKnows
  BY AllTurns, FinishedOperations DEF TurnKnows
<1>4. ValuesKnown
  BY AllTurns DEF ValuesKnown, Fifo, DequeueReady
<1> QED
  BY <1>1, <1>2, <1>3, <1>4 DEF MpmcInv

LEMMA MpmcInvHolds == QueueSpec => []MpmcInv
<1>1. QueueInit => MpmcInv
  BY MpmcInitInv
<1>2. MpmcInv /\ [QueueNext]_queueVars => MpmcInv'
  BY MpmcStepInv
<1> QED
  BY <1>1, <1>2, PTL DEF QueueSpec

-----------------------------------------------------------------------------
(* What follows from it. *)

(* A slot is ready for the ticket that is the first not stored in it, once *)
(* the one a lap before has been taken.                                    *)
LEMMA RoomIsReady ==
  ASSUME MpmcInv, NEW n \in Tickets, ~Enqueued(n),
         n < SlotCount \/ Dequeued(n - SlotCount)
  PROVE  EnqueueReady(n)
<1>1. SlotOf(n) \in Slots /\ turn[SlotOf(n)] \in Int /\ turn[SlotOf(n)] >= 0
  BY AllTurns DEF MpmcInv, TypeOK
<1>2. turn[SlotOf(n)] < 2 * Lap(n) + 1
  BY <1>1, AllTurns DEF MpmcInv, TurnKnows
<1>3. turn[SlotOf(n)] >= 2 * Lap(n)
  <2>1. CASE n < SlotCount
    BY <1>1, <2>1, LapBefore
  <2>2. CASE ~(n < SlotCount)
    <3>1. /\ n - SlotCount \in Tickets /\ SlotOf(n - SlotCount) = SlotOf(n)
          /\ Lap(n - SlotCount) = Lap(n) - 1
      BY <2>2, LapBefore, QueueAssumption DEF NothingWraps, Tickets
    <3>2. turn[SlotOf(n)] >= NextLapTurn(n - SlotCount)
      BY <2>2, <3>1 DEF MpmcInv, TurnKnows
    <3> QED
      BY <1>1, <3>1, <3>2, AllTurns
  <2> QED
    BY <2>1, <2>2
<1> QED
  BY <1>1, <1>2, <1>3, AllTurns DEF EnqueueReady

(* The value of a ticket that is stored and not taken can be read.         *)
LEMMA StoredIsReady ==
  ASSUME MpmcInv, NEW n \in Tickets, Enqueued(n), ~Dequeued(n)
  PROVE  DequeueReady(n)
<1>1. turn[SlotOf(n)] \in Int
  BY AllTurns DEF MpmcInv, TypeOK
<1> QED
  BY <1>1, AllTurns DEF MpmcInv, TurnKnows, DequeueReady

(* A slot has one user at a time, values leave in their order, and a       *)
(* producer spins only for room: for any threads and slots, until the      *)
(* words wrap.                                                             *)
THEOREM MpmcQueueSound == QueueSpec => []QueueSound
<1>1. ASSUME MpmcInv PROVE QueueSound
  <2>1. SlotExclusive
    <3> SUFFICES ASSUME NEW p \in Threads, NEW q \in Threads, pc[p] \in Inside, pc[q] \in Inside,
                        SlotOf(ticket[p]) = SlotOf(ticket[q])
                 PROVE  p = q
      BY DEF SlotExclusive
    <3>1. ticket[q] \in Tickets /\ (EnqueueReady(ticket[q]) \/ DequeueReady(ticket[q]))
      BY <1>1 DEF MpmcInv, HasTurn, TicketsKnown, Inside
    <3>2. /\ ticket[q] = ticket[p]
          /\ EnqueueReady(ticket[q]) => pc[p] \in Producer
          /\ DequeueReady(ticket[q]) => pc[p] \in Consumer
      BY <1>1, <3>1, AloneInSlot
    <3>3. /\ EnqueueReady(ticket[q]) => pc[q] \in Producer
          /\ DequeueReady(ticket[q]) => pc[q] \in Consumer
      BY <1>1, <3>1, AloneInSlot
    <3> QED
      BY <1>1, <3>1, <3>2, <3>3 DEF MpmcInv, TicketsKnown
  <2>2. EnqueueNeverBlocksWithRoom
    <3> SUFFICES ASSUME NEW p \in Threads, pc[p] = "enq_spin",
                        ticket[p] < SlotCount \/ Dequeued(ticket[p] - SlotCount)
                 PROVE  EnqueueReady(ticket[p])
      BY DEF EnqueueNeverBlocksWithRoom
    <3>1. ticket[p] \in Tickets /\ ~Enqueued(ticket[p])
      BY <1>1, FinishedOperations DEF MpmcInv, TicketsKnown, Producer
    <3> QED
      BY <1>1, <3>1, RoomIsReady
  <2> QED
    BY <1>1, <2>1, <2>2 DEF MpmcInv, ValuesKnown, QueueSound
<1> QED
  BY <1>1, MpmcInvHolds, PTL

(* A try_ call fails only at a moment when the ring is full, or when the   *)
(* next value is not there.                                                *)
THEOREM MpmcQueueHonest == QueueSpec => HonestFailure
<1>1. ASSUME MpmcInv, QueueNext, NEW p \in Threads
      PROVE  /\ pc[p] = "try_enq" /\ pc'[p] = "idle" => head >= SlotCount /\ ~Dequeued(head - SlotCount)
             /\ pc[p] = "try_deq" /\ pc'[p] = "idle" => ~Enqueued(tail)
  <2>1. PICK q \in Threads : Call(q) \/ Continue(q)
    BY <1>1 DEF QueueNext
  <2>2. head \in Tickets /\ ~Enqueued(head) /\ tail \in Tickets /\ ~Dequeued(tail)
    BY <1>1, FinishedOperations DEF MpmcInv, TypeOK, Tickets
  <2>3. ASSUME pc[p] = "try_enq", pc'[p] = "idle"
        PROVE  ~EnqueueReady(head)
    <3>1. TryEnqueueCheck(p)
      BY <1>1, <2>1, <2>3
         DEF MpmcInv, TypeOK, Call, Continue, Enqueue, EnqueueTurnComes, Write, Publish, Dequeue,
             DequeueTurnComes, Read, Release, TryEnqueue, TryEnqueueCheck, TryEnqueueExchange,
             TryDequeue, TryDequeueCheck, TryDequeueExchange, Goto
    <3>2. ~EnqueueReady(ticket[p]) /\ Uint32(head) = Uint32(ticket[p])
      BY <1>1, <2>3, <3>1 DEF TryEnqueueCheck, Goto, MpmcInv, TypeOK
    <3> QED
      BY <1>1, <2>2, <2>3, <3>2, AllTurns DEF MpmcInv, TicketsKnown
  <2>4. ASSUME pc[p] = "try_deq", pc'[p] = "idle"
        PROVE  ~DequeueReady(tail)
    <3>1. TryDequeueCheck(p)
      BY <1>1, <2>1, <2>4
         DEF MpmcInv, TypeOK, Call, Continue, Enqueue, EnqueueTurnComes, Write, Publish, Dequeue,
             DequeueTurnComes, Read, Release, TryEnqueue, TryEnqueueCheck, TryEnqueueExchange,
             TryDequeue, TryDequeueCheck, TryDequeueExchange, Goto
    <3>2. ~DequeueReady(ticket[p]) /\ Uint32(tail) = Uint32(ticket[p])
      BY <1>1, <2>4, <3>1 DEF TryDequeueCheck, Goto, MpmcInv, TypeOK
    <3> QED
      BY <1>1, <2>2, <2>4, <3>2, AllTurns DEF MpmcInv, TicketsKnown
  <2>5. ~EnqueueReady(head) => head >= SlotCount /\ ~Dequeued(head - SlotCount)
    BY <1>1, <2>2, RoomIsReady, QueueAssumption DEF NothingWraps, Tickets
  <2>6. ~DequeueReady(tail) => ~Enqueued(tail)
    BY <1>1, <2>2, StoredIsReady
  <2> QED
    BY <2>3, <2>4, <2>5, <2>6
<1>2. MpmcInv /\ [QueueNext]_queueVars =>
        [\A p \in Threads :
           /\ pc[p] = "try_enq" /\ pc'[p] = "idle" => head >= SlotCount /\ ~Dequeued(head - SlotCount)
           /\ pc[p] = "try_deq" /\ pc'[p] = "idle" => ~Enqueued(tail)]_queueVars
  BY <1>1
<1> QED
  BY <1>2, MpmcInvHolds, PTL DEF QueueSpec, HonestFailure

-----------------------------------------------------------------------------
(* The work stealing queue.  The jobs that thieves may still get are those *)
(* from the tail to the head, or to the place the owner is looking at      *)
(* (Limit); the owner has the job it returns for itself.  A thief whose    *)
(* tail is still the tail has found it below the limit, and has read the   *)
(* job that is there, since the owner does not reach that slot before the  *)
(* tail has gone on (ThievesKnown).                                        *)

Bottom == IF owner.at \in {"look", "return", "race", "restore"} THEN m_head + 1 ELSE m_head
Limit == IF owner.at = "return" THEN m_head ELSE Bottom
Open == m_tail .. Limit - 1

ThiefPlaces ==
  [at : {"idle"}] \cup [at : {"head", "load"}, tail : Nat]
    \cup [at : {"exchange"}, tail : Nat, job : Nat]

StealingTyped ==
  /\ m_slots \in [0 .. JobSlots - 1 -> Nat]
  /\ m_tail \in Nat /\ m_head \in Int /\ jobs \in Nat /\ jobs <= JobLimit
  /\ taken \in [1 .. JobLimit -> Nat]
  /\ thief \in [Thieves -> ThiefPlaces]
  /\ owner.at \in {"idle", "store", "publish", "look", "return", "race", "restore"}

EndsKnown ==
  /\ m_tail <= Limit /\ Bottom - m_tail <= JobSlots
  /\ owner.at \in {"store", "publish"} => m_head - m_tail < JobSlots /\ jobs < JobLimit
  /\ owner.at = "publish" => m_slots[Slot(m_head)] = jobs + 1
  /\ owner.at = "restore" => m_tail = Limit
  /\ owner.at = "race" =>
       owner.tail = m_head /\ m_tail >= m_head /\ owner.job = m_slots[Slot(m_head)]

(* Every job not returned is in one open place, or the owner's own. *)
JobsKept ==
  /\ \A i \in Open : m_slots[Slot(i)] \in 1 .. jobs /\ taken[m_slots[Slot(i)]] = 0
  /\ \A i, k \in Open : m_slots[Slot(i)] = m_slots[Slot(k)] => i = k
  /\ \A j \in 1 .. JobLimit : taken[j] <= 1 /\ (taken[j] = 1 => j <= jobs)
  /\ owner.at = "return" =>
       /\ owner.job \in 1 .. jobs /\ taken[owner.job] = 0
       /\ \A i \in Open : m_slots[Slot(i)] # owner.job
  /\ \A j \in 1 .. jobs : taken[j] = 0 =>
       \/ \E i \in Open : m_slots[Slot(i)] = j
       \/ owner.at = "return" /\ owner.job = j

ThievesKnown ==
  \A t \in Thieves :
    /\ thief[t].at # "idle" => thief[t].tail <= m_tail
    /\ thief[t].at \in {"load", "exchange"} /\ thief[t].tail = m_tail => m_tail < Limit
    /\ thief[t].at = "exchange" /\ thief[t].tail = m_tail => thief[t].job = m_slots[Slot(m_tail)]

StealingInv == StealingTyped /\ EndsKnown /\ JobsKept /\ ThievesKnown

LEMMA SlotKnown ==
  ASSUME NEW i \in Nat
  PROVE  Slot(i) \in 0 .. JobSlots - 1
<1>1. JobSlots \in Nat /\ JobSlots > 0
  BY StealingAssumption
<1> QED
  BY <1>1 DEF Slot

(* Fewer places than slots have a slot each. *)
LEMMA OwnSlot ==
  ASSUME NEW i \in Nat, NEW k \in Nat, i - k < JobSlots, k - i < JobSlots, Slot(i) = Slot(k)
  PROVE  i = k
<1>1. JobSlots \in Nat /\ JobSlots > 0
  BY StealingAssumption
<1> DEFINE a == i \div JobSlots
           b == k \div JobSlots
<1>2. a \in Nat /\ b \in Nat
  BY <1>1
<1>3. i = JobSlots * a + (i % JobSlots) /\ k = JobSlots * b + (k % JobSlots)
  BY <1>1, DivisionRemainder
<1>4. (i % JobSlots) = (k % JobSlots) /\ (i % JobSlots) \in Nat
  BY <1>1 DEF Slot
<1>5. i - k = JobSlots * a - JobSlots * b
  <2> HIDE DEF a, b
  <2> QED
    BY <1>1, <1>2, <1>3, <1>4
<1>6. CASE a = b
  <2> HIDE DEF a, b
  <2> QED
    BY <1>1, <1>2, <1>3, <1>4, <1>6
<1>7. CASE a > b
  <2> HIDE DEF a, b
  <2>1. JobSlots * (a - b) >= JobSlots
    BY <1>1, <1>2, <1>7
  <2>2. JobSlots * (a - b) = JobSlots * a - JobSlots * b
    BY <1>1, <1>2
  <2> QED
    BY <1>1, <1>2, <1>5, <2>1, <2>2
<1>8. CASE b > a
  <2> HIDE DEF a, b
  <2>1. JobSlots * (b - a) >= JobSlots
    BY <1>1, <1>2, <1>8
  <2>2. JobSlots * (b - a) = JobSlots * b - JobSlots * a
    BY <1>1, <1>2
  <2> QED
    BY <1>1, <1>2, <1>5, <2>1, <2>2
<1> QED
  BY <1>2, <1>6, <1>7, <1>8

(* The open places are numbers, and have a slot each. *)
LEMMA OpenSlots ==
  ASSUME StealingTyped, EndsKnown
  PROVE  /\ Limit \in Int /\ Bottom \in Int /\ Limit <= Bottom /\ Limit >= m_head
         /\ \A i \in Open : i \in Nat /\ Slot(i) \in 0 .. JobSlots - 1
         /\ \A i, k \in Open : Slot(i) = Slot(k) => i = k
<1>1. JobSlots \in Nat /\ JobSlots > 0
  BY StealingAssumption
<1>2. /\ Limit \in Int /\ Bottom \in Int /\ Limit <= Bottom /\ Limit >= m_head
      /\ m_tail \in Nat /\ Bottom - m_tail <= JobSlots
  BY DEF StealingTyped, EndsKnown, Limit, Bottom
<1>3. \A i \in Open : i \in Nat
  BY <1>2 DEF Open
<1>4. \A i, k \in Open : i - k < JobSlots
  BY <1>1, <1>2 DEF Open
<1> QED
  BY <1>2, <1>3, <1>4, SlotKnown, OwnSlot

-----------------------------------------------------------------------------
(* One lemma per action; first those that neither store nor return a job.  *)

LEMMA EnqueueCheckInv == StealingInv /\ EnqueueCheck => StealingInv'
<1> SUFFICES ASSUME StealingInv, EnqueueCheck PROVE StealingInv'
  OBVIOUS
<1>1. /\ owner.at = "idle" /\ owner'.at = "store" /\ m_head - m_tail < JobSlots /\ jobs < JobLimit
      /\ UNCHANGED <<m_slots, m_head, m_tail, thief, jobs, taken>>
  BY DEF EnqueueCheck, Idle
<1>2. Limit = m_head /\ Bottom = m_head /\ Limit' = m_head /\ Bottom' = m_head /\ Open' = Open
  BY <1>1 DEF Limit, Bottom, Open
<1> QED
  BY <1>1, <1>2 DEF StealingInv, StealingTyped, EndsKnown, JobsKept, ThievesKnown, Slot

LEMMA StoreSlotInv == StealingInv /\ StoreSlot => StealingInv'
<1> SUFFICES ASSUME StealingInv, StoreSlot PROVE StealingInv'
  OBVIOUS
<1>1. /\ owner.at = "store" /\ owner'.at = "publish"
      /\ m_slots' = [m_slots EXCEPT ![Slot(m_head)] = jobs + 1]
      /\ UNCHANGED <<m_head, m_tail, thief, jobs, taken>>
  BY DEF StoreSlot
<1>2. /\ StealingTyped /\ EndsKnown /\ JobsKept /\ ThievesKnown
      /\ Limit = m_head /\ Bottom = m_head /\ Limit' = m_head /\ Bottom' = m_head /\ Open' = Open
      /\ m_head - m_tail < JobSlots /\ m_head >= m_tail /\ m_head \in Nat /\ m_tail \in Nat
  BY <1>1 DEF StealingInv, Limit, Bottom, Open, EndsKnown, StealingTyped
<1>3. /\ \A i \in Open : i \in Nat /\ Slot(i) \in 0 .. JobSlots - 1
      /\ Slot(m_head) \in 0 .. JobSlots - 1
  BY <1>2, OpenSlots, SlotKnown
<1>4. JobSlots \in Nat
  BY StealingAssumption
<1>5. \A i \in Open : Slot(i) # Slot(m_head)
  <2> TAKE i \in Open
  <2>1. i \in Nat /\ i # m_head /\ i - m_head < JobSlots /\ m_head - i < JobSlots
    BY <1>2, <1>4 DEF Open
  <2> QED
    BY <1>2, <2>1, OwnSlot
<1>6. \A i \in Open : m_slots'[Slot(i)] = m_slots[Slot(i)]
  BY <1>1, <1>3, <1>5
<1>7. m_slots'[Slot(m_head)] = jobs + 1 /\ m_slots' \in [0 .. JobSlots - 1 -> Nat]
  BY <1>1, <1>2, <1>3 DEF StealingTyped
<1>8. \A i : Slot(i)' = Slot(i)
  BY DEF Slot
<1>9. StealingTyped'
  BY <1>1, <1>2, <1>7 DEF StealingTyped
<1>10. EndsKnown'
  BY <1>1, <1>2, <1>7 DEF EndsKnown, Slot
<1>11. JobsKept'
  BY <1>1, <1>2, <1>6 DEF JobsKept, Slot
<1>12. ThievesKnown'
  <2>1. m_tail < Limit => m_slots'[Slot(m_tail)] = m_slots[Slot(m_tail)]
    BY <1>2, <1>6 DEF Open
  <2>2. \A t \in Thieves : thief'[t] = thief[t]
    BY <1>1
  <2> QED
    BY <1>1, <1>2, <2>1, <2>2 DEF ThievesKnown, Slot
<1> QED
  BY <1>9, <1>10, <1>11, <1>12 DEF StealingInv

LEMMA PublishHeadInv == StealingInv /\ PublishHead => StealingInv'
<1> SUFFICES ASSUME StealingInv, PublishHead PROVE StealingInv'
  OBVIOUS
<1>1. /\ owner.at = "publish" /\ owner'.at = "idle"
      /\ m_head' = m_head + 1 /\ jobs' = jobs + 1
      /\ UNCHANGED <<m_slots, m_tail, thief, taken>>
  BY DEF PublishHead, Idle
<1>2. /\ StealingTyped /\ EndsKnown /\ JobsKept /\ ThievesKnown
      /\ Limit = m_head /\ Bottom = m_head /\ Limit' = m_head + 1 /\ Bottom' = m_head + 1
      /\ m_head - m_tail < JobSlots /\ m_head >= m_tail /\ m_head \in Nat /\ m_tail \in Nat
      /\ jobs < JobLimit /\ jobs \in Nat /\ JobLimit \in Nat
  BY <1>1, StealingAssumption DEF StealingInv, Limit, Bottom, EndsKnown, StealingTyped
<1>3. Open' = Open \cup {m_head} /\ m_head \notin Open
  BY <1>1, <1>2 DEF Open
<1>4. m_slots[Slot(m_head)] = jobs + 1 /\ taken[jobs + 1] = 0
  <2>1. m_slots[Slot(m_head)] = jobs + 1
    BY <1>1, <1>2 DEF EndsKnown
  <2>2. jobs + 1 \in 1 .. JobLimit
    BY <1>2
  <2>3. taken[jobs + 1] \in Nat /\ taken[jobs + 1] <= 1 /\ taken[jobs + 1] # 1
    BY <1>2, <2>2 DEF JobsKept, StealingTyped
  <2> QED
    BY <2>1, <2>3
<1>5. StealingTyped'
  BY <1>1, <1>2 DEF StealingTyped
<1>6. EndsKnown'
  BY <1>1, <1>2, StealingAssumption DEF EndsKnown
<1>7. JobsKept'
  <2>1. \A i \in Open : m_slots[Slot(i)] \in 1 .. jobs /\ taken[m_slots[Slot(i)]] = 0
    BY <1>2 DEF JobsKept
  <2>2. \A i \in Open' : m_slots[Slot(i)] \in 1 .. jobs + 1 /\ taken[m_slots[Slot(i)]] = 0
    BY <1>2, <1>3, <1>4, <2>1
  <2>3. \A i, k \in Open' : m_slots[Slot(i)] = m_slots[Slot(k)] => i = k
    <3>1. \A i \in Open : m_slots[Slot(i)] # jobs + 1
      BY <1>2, <2>1
    <3> QED
      BY <1>2, <1>3, <1>4, <3>1 DEF JobsKept
  <2>4. \A j \in 1 .. JobLimit : taken[j] <= 1 /\ (taken[j] = 1 => j <= jobs + 1)
    BY <1>2 DEF JobsKept
  <2>5. \A j \in 1 .. jobs + 1 : taken[j] = 0 => \E i \in Open' : m_slots[Slot(i)] = j
    <3> TAKE j \in 1 .. jobs + 1
    <3>1. CASE j = jobs + 1
      BY <1>3, <1>4, <3>1
    <3>2. CASE j # jobs + 1
      <4>1. j \in 1 .. jobs
        BY <1>2, <3>2
      <4> QED
        BY <1>1, <1>2, <1>3, <4>1 DEF JobsKept
    <3> QED
      BY <3>1, <3>2
  <2> QED
    BY <1>1, <2>2, <2>3, <2>4, <2>5 DEF JobsKept, Slot
<1>8. ThievesKnown'
  BY <1>1, <1>2 DEF ThievesKnown, Slot
<1> QED
  BY <1>5, <1>6, <1>7, <1>8 DEF StealingInv

LEMMA TakeHeadInv == StealingInv /\ TakeHead => StealingInv'
<1> SUFFICES ASSUME StealingInv, TakeHead PROVE StealingInv'
  OBVIOUS
<1>1. /\ owner.at = "idle" /\ owner'.at = "look" /\ m_head' = m_head - 1
      /\ UNCHANGED <<m_slots, m_tail, thief, jobs, taken>>
  BY DEF TakeHead, Idle
<1>2. m_head \in Int
  BY DEF StealingInv, StealingTyped
<1>3. Limit = m_head /\ Bottom = m_head /\ Limit' = m_head /\ Bottom' = m_head /\ Open' = Open
  BY <1>1, <1>2 DEF Limit, Bottom, Open
<1> QED
  BY <1>1, <1>2, <1>3 DEF StealingInv, StealingTyped, EndsKnown, JobsKept, ThievesKnown, Slot

LEMMA LookAtTailInv == StealingInv /\ LookAtTail => StealingInv'
<1> SUFFICES ASSUME StealingInv, LookAtTail PROVE StealingInv'
  OBVIOUS
<1>1. /\ owner.at = "look"
      /\ owner'.at = (CASE m_tail > m_head -> "restore" [] m_tail = m_head -> "race" [] m_tail < m_head -> "return")
      /\ owner'.job = m_slots[Slot(m_head)] /\ owner'.tail = m_tail
      /\ UNCHANGED <<m_slots, m_head, m_tail, thief, jobs, taken>>
  BY DEF LookAtTail
<1>2. /\ StealingTyped /\ EndsKnown /\ JobsKept /\ ThievesKnown
      /\ m_head \in Int /\ m_tail \in Nat /\ Limit = m_head + 1 /\ Bottom = m_head + 1
      /\ m_tail <= m_head + 1 /\ m_head + 1 - m_tail <= JobSlots /\ JobSlots \in Nat
  BY <1>1, StealingAssumption DEF StealingInv, StealingTyped, EndsKnown, Limit, Bottom
<1>3. CASE m_tail >= m_head
  <2>1. /\ owner'.at = IF m_tail = m_head THEN "race" ELSE "restore"
        /\ m_tail # m_head => m_tail = m_head + 1
    BY <1>1, <1>2, <1>3
  <2>2. Limit' = Limit /\ Bottom' = Bottom /\ Open' = Open
    BY <1>1, <1>2, <2>1 DEF Limit, Bottom, Open
  <2> QED
    BY <1>1, <1>2, <2>1, <2>2 DEF StealingInv, StealingTyped, EndsKnown, JobsKept, ThievesKnown, Slot
<1>4. CASE m_tail < m_head
  <2>1. owner'.at = "return"
    BY <1>1, <1>2, <1>4
  <2>2. Limit' = m_head /\ Bottom' = Bottom
    BY <1>1, <1>2, <2>1 DEF Limit, Bottom
  <2>3. Open = Open' \cup {m_head} /\ m_head \notin Open'
    BY <1>1, <1>2, <1>4, <2>2 DEF Open
  <2>4. StealingTyped'
    BY <1>1, <1>2, <2>1 DEF StealingTyped
  <2>5. EndsKnown'
    BY <1>1, <1>2, <1>4, <2>1, <2>2 DEF EndsKnown
  <2>6. JobsKept'
    BY <1>1, <1>2, <2>1, <2>3 DEF JobsKept, Slot
  <2>7. ThievesKnown'
    BY <1>1, <1>2, <1>4, <2>2 DEF ThievesKnown, Slot
  <2> QED
    BY <2>4, <2>5, <2>6, <2>7 DEF StealingInv
<1> QED
  BY <1>2, <1>3, <1>4

LEMMA RestoreHeadInv == StealingInv /\ RestoreHead => StealingInv'
<1> SUFFICES ASSUME StealingInv, RestoreHead PROVE StealingInv'
  OBVIOUS
<1>1. /\ owner.at = "restore" /\ owner'.at = "idle" /\ m_head' = m_head + 1
      /\ UNCHANGED <<m_slots, m_tail, thief, jobs, taken>>
  BY DEF RestoreHead, Idle
<1>2. m_head \in Int
  BY DEF StealingInv, StealingTyped
<1>3. /\ Limit = m_head + 1 /\ Bottom = m_head + 1 /\ Limit' = m_head + 1 /\ Bottom' = m_head + 1
      /\ Open' = Open
  BY <1>1, <1>2 DEF Limit, Bottom, Open
<1> QED
  BY <1>1, <1>2, <1>3 DEF StealingInv, StealingTyped, EndsKnown, JobsKept, ThievesKnown, Slot

LEMMA LoadsInv ==
  ASSUME StealingInv, NEW t \in Thieves, LoadTail(t) \/ LoadHead(t) \/ LoadSlot(t)
  PROVE  StealingInv'
<1>1. /\ StealingTyped /\ EndsKnown /\ JobsKept /\ ThievesKnown
      /\ m_tail \in Nat /\ m_head \in Int /\ m_slots \in [0 .. JobSlots - 1 -> Nat]
      /\ thief \in [Thieves -> ThiefPlaces] /\ Limit \in Int /\ Limit >= m_head
  BY OpenSlots DEF StealingInv, StealingTyped
<1>2. UNCHANGED <<m_slots, m_head, m_tail, owner, jobs, taken>>
  BY DEF LoadTail, LoadHead, LoadSlot
<1>3. Limit' = Limit /\ Bottom' = Bottom /\ Open' = Open
  BY <1>2 DEF Limit, Bottom, Open
<1>4. PICK place : thief' = [thief EXCEPT ![t] = place]
  BY DEF LoadTail, LoadHead, LoadSlot, ThiefGoto
<1>5. thief'[t] = place /\ \A u \in Thieves : u # t => thief'[u] = thief[u]
  BY <1>1, <1>4
<1>6. /\ thief'[t] \in ThiefPlaces
      /\ thief'[t].at # "idle" => thief'[t].tail <= m_tail
      /\ thief'[t].at \in {"load", "exchange"} /\ thief'[t].tail = m_tail => m_tail < Limit
      /\ thief'[t].at = "exchange" /\ thief'[t].tail = m_tail => thief'[t].job = m_slots[Slot(m_tail)]
  <2>1. CASE LoadTail(t)
    <3>1. thief'[t] = [at |-> "head", tail |-> m_tail]
      BY <1>1, <2>1 DEF LoadTail, ThiefGoto
    <3> QED
      BY <1>1, <3>1 DEF ThiefPlaces
  <2>2. CASE LoadHead(t)
    <3>1. thief[t] \in [at : {"head", "load"}, tail : Nat] /\ thief[t].tail <= m_tail
      BY <1>1, <2>2 DEF LoadHead, ThiefPlaces, ThievesKnown
    <3>2. CASE thief[t].tail >= m_head
      <4>1. thief'[t] = Idle
        BY <1>1, <2>2, <3>2 DEF LoadHead, ThiefGoto
      <4> QED
        BY <4>1 DEF Idle, ThiefPlaces
    <3>3. CASE ~(thief[t].tail >= m_head)
      <4>1. thief'[t] = [thief[t] EXCEPT !.at = "load"]
        BY <1>1, <2>2, <3>3 DEF LoadHead, ThiefGoto
      <4>2. /\ thief'[t] \in [at : {"head", "load"}, tail : Nat]
            /\ thief'[t].at = "load" /\ thief'[t].tail = thief[t].tail
        BY <3>1, <4>1
      <4>3. thief[t].tail < Limit
        BY <1>1, <3>1, <3>3
      <4> QED
        BY <3>1, <4>2, <4>3 DEF ThiefPlaces
    <3> QED
      BY <3>2, <3>3
  <2>3. CASE LoadSlot(t)
    <3>1. /\ thief[t] \in [at : {"head", "load"}, tail : Nat] /\ thief[t].tail <= m_tail
          /\ thief[t].tail = m_tail => m_tail < Limit
      BY <1>1, <2>3 DEF LoadSlot, ThiefPlaces, ThievesKnown
    <3>2. thief'[t] = [at |-> "exchange", tail |-> thief[t].tail, job |-> m_slots[Slot(thief[t].tail)]]
      BY <1>1, <2>3 DEF LoadSlot, ThiefGoto
    <3>3. m_slots[Slot(thief[t].tail)] \in Nat
      BY <1>1, <3>1, SlotKnown
    <3> QED
      BY <3>1, <3>2, <3>3 DEF ThiefPlaces
  <2> QED
    BY <2>1, <2>2, <2>3
<1>7. thief' \in [Thieves -> ThiefPlaces]
  BY <1>1, <1>4, <1>5, <1>6
<1>8. StealingTyped' /\ EndsKnown' /\ JobsKept'
  BY <1>1, <1>2, <1>3, <1>7 DEF StealingTyped, EndsKnown, JobsKept, Slot
<1>9. ThievesKnown'
  BY <1>1, <1>2, <1>3, <1>5, <1>6 DEF ThievesKnown, Slot
<1> QED
  BY <1>8, <1>9 DEF StealingInv

(* Those that return a job. *)

LEMMA ReturnJobInv == StealingInv /\ ReturnJob => StealingInv'
<1> SUFFICES ASSUME StealingInv, ReturnJob PROVE StealingInv'
  OBVIOUS
<1>1. /\ owner.at = "return" /\ owner'.at = "idle" /\ taken' = [taken EXCEPT ![owner.job] = @ + 1]
      /\ UNCHANGED <<m_slots, m_head, m_tail, thief, jobs>>
  BY DEF ReturnJob, GiveBack, Idle
<1>2. /\ StealingTyped /\ EndsKnown /\ JobsKept /\ ThievesKnown
      /\ m_head \in Int /\ jobs \in Nat /\ jobs <= JobLimit /\ JobLimit \in Nat /\ JobSlots \in Nat
      /\ taken \in [1 .. JobLimit -> Nat]
  BY StealingAssumption DEF StealingInv, StealingTyped
<1>3. Limit = m_head /\ Bottom = m_head + 1 /\ Limit' = m_head /\ Bottom' = m_head /\ Open' = Open
  BY <1>1, <1>2 DEF Limit, Bottom, Open
<1>4. /\ owner.job \in 1 .. jobs /\ taken[owner.job] = 0 /\ owner.job \in 1 .. JobLimit
      /\ \A i \in Open : m_slots[Slot(i)] # owner.job
  BY <1>1, <1>2 DEF JobsKept
<1>5. /\ taken' \in [1 .. JobLimit -> Nat] /\ taken'[owner.job] = 1
      /\ \A j \in 1 .. JobLimit : j # owner.job => taken'[j] = taken[j]
  BY <1>1, <1>2, <1>4
<1>6. StealingTyped'
  BY <1>1, <1>2, <1>5 DEF StealingTyped
<1>7. EndsKnown'
  BY <1>1, <1>2, <1>3 DEF EndsKnown, StealingTyped
<1>8. JobsKept'
  <2>1. \A i \in Open : m_slots[Slot(i)] \in 1 .. jobs /\ m_slots[Slot(i)] \in 1 .. JobLimit
    BY <1>2 DEF JobsKept
  <2>2. \A i \in Open : taken'[m_slots[Slot(i)]] = 0
    BY <1>2, <1>4, <1>5, <2>1 DEF JobsKept
  <2>3. \A j \in 1 .. JobLimit : taken'[j] <= 1 /\ (taken'[j] = 1 => j <= jobs)
    BY <1>2, <1>4, <1>5 DEF JobsKept
  <2>4. \A j \in 1 .. jobs : taken'[j] = 0 => \E i \in Open : m_slots[Slot(i)] = j
    <3> SUFFICES ASSUME NEW j \in 1 .. jobs, taken'[j] = 0 PROVE \E i \in Open : m_slots[Slot(i)] = j
      OBVIOUS
    <3>1. j # owner.job /\ j \in 1 .. JobLimit
      BY <1>2, <1>5
    <3> QED
      BY <1>2, <1>5, <3>1 DEF JobsKept
  <2> QED
    BY <1>1, <1>2, <1>3, <2>2, <2>3, <2>4 DEF JobsKept, Slot
<1>9. ThievesKnown'
  BY <1>1, <1>3 DEF ThievesKnown, Slot, StealingInv
<1> QED
  BY <1>6, <1>7, <1>8, <1>9 DEF StealingInv

(* The job at the tail is returned and the tail moved over it, by the      *)
(* owner or by a thief.                                                    *)
LEMMA TailTaken ==
  ASSUME StealingTyped, EndsKnown, JobsKept, m_tail < Limit,
         m_tail' = m_tail + 1, taken' = [taken EXCEPT ![m_slots[Slot(m_tail)]] = @ + 1],
         UNCHANGED <<m_slots, jobs>>, Limit' = Limit,
         (owner.at = "return" \/ owner'.at = "return") => owner' = owner
  PROVE  JobsKept' /\ taken' \in [1 .. JobLimit -> Nat]
<1> DEFINE job == m_slots[Slot(m_tail)]
<1>1. /\ m_tail \in Nat /\ jobs \in Nat /\ jobs <= JobLimit /\ JobLimit \in Nat
      /\ taken \in [1 .. JobLimit -> Nat] /\ Limit \in Int
  BY OpenSlots, StealingAssumption DEF StealingTyped
<1>2. Open = Open' \cup {m_tail} /\ m_tail \notin Open'
  BY <1>1 DEF Open
<1>3. job \in 1 .. jobs /\ job \in 1 .. JobLimit /\ taken[job] = 0
  BY <1>1, <1>2 DEF JobsKept
<1>4. \A i \in Open' : m_slots[Slot(i)] # job
  BY <1>2 DEF JobsKept
<1>5. /\ taken' \in [1 .. JobLimit -> Nat] /\ taken'[job] = 1
      /\ \A j \in 1 .. JobLimit : j # job => taken'[j] = taken[j]
  BY <1>1, <1>3
<1> HIDE DEF job
<1>6. \A i \in Open' : /\ m_slots[Slot(i)] \in 1 .. jobs /\ m_slots[Slot(i)] \in 1 .. JobLimit
                       /\ taken'[m_slots[Slot(i)]] = 0
  BY <1>1, <1>2, <1>4, <1>5 DEF JobsKept
<1>7. \A i, k \in Open' : m_slots[Slot(i)] = m_slots[Slot(k)] => i = k
  BY <1>2 DEF JobsKept
<1>8. \A j \in 1 .. JobLimit : taken'[j] <= 1 /\ (taken'[j] = 1 => j <= jobs)
  BY <1>1, <1>3, <1>5 DEF JobsKept
<1>9. owner'.at = "return" =>
        /\ owner'.job \in 1 .. jobs /\ taken'[owner'.job] = 0
        /\ \A i \in Open' : m_slots[Slot(i)] # owner'.job
  <2> SUFFICES ASSUME owner'.at = "return"
               PROVE  /\ owner'.job \in 1 .. jobs /\ taken'[owner'.job] = 0
                      /\ \A i \in Open' : m_slots[Slot(i)] # owner'.job
    OBVIOUS
  <2>1. /\ owner' = owner /\ owner.job \in 1 .. jobs /\ taken[owner.job] = 0
        /\ \A i \in Open : m_slots[Slot(i)] # owner.job
    BY DEF JobsKept
  <2>2. owner.job # job /\ owner.job \in 1 .. JobLimit
    BY <1>1, <1>2, <2>1 DEF job
  <2> QED
    BY <1>2, <1>5, <2>1, <2>2
<1>10. \A j \in 1 .. jobs : taken'[j] = 0 =>
         (\E i \in Open' : m_slots[Slot(i)] = j) \/ (owner'.at = "return" /\ owner'.job = j)
  <2> SUFFICES ASSUME NEW j \in 1 .. jobs, taken'[j] = 0
               PROVE  (\E i \in Open' : m_slots[Slot(i)] = j) \/ (owner'.at = "return" /\ owner'.job = j)
    OBVIOUS
  <2>1. j # job /\ j \in 1 .. JobLimit /\ taken[j] = 0
    BY <1>1, <1>5
  <2>2. (\E i \in Open : m_slots[Slot(i)] = j) \/ (owner.at = "return" /\ owner.job = j)
    BY <2>1 DEF JobsKept
  <2> QED
    BY <1>2, <2>1, <2>2 DEF job
<1> QED
  BY <1>5, <1>6, <1>7, <1>8, <1>9, <1>10 DEF JobsKept, Slot

LEMMA RaceForLastInv == StealingInv /\ RaceForLast => StealingInv'
<1> SUFFICES ASSUME StealingInv, RaceForLast PROVE StealingInv'
  OBVIOUS
<1>1. /\ owner.at = "race" /\ owner'.at = "restore"
      /\ UNCHANGED <<m_slots, m_head, thief, jobs>>
  BY DEF RaceForLast
<1>2. /\ StealingTyped /\ EndsKnown /\ JobsKept /\ ThievesKnown
      /\ m_head \in Int /\ m_tail \in Nat /\ JobSlots \in Nat
  BY StealingAssumption DEF StealingInv, StealingTyped
<1>3. Limit = m_head + 1 /\ Bottom = m_head + 1 /\ Limit' = Limit /\ Bottom' = Bottom
  BY <1>1 DEF Limit, Bottom
<1>4. owner.tail = m_head /\ owner.job = m_slots[Slot(m_head)] /\ m_tail <= m_head + 1
  BY <1>1, <1>2, <1>3 DEF EndsKnown
<1>5. CASE m_tail = owner.tail
  <2>1. m_tail' = m_tail + 1 /\ taken' = [taken EXCEPT ![m_slots[Slot(m_tail)]] = @ + 1]
    BY <1>4, <1>5 DEF RaceForLast, GiveBack
  <2>2. JobsKept' /\ taken' \in [1 .. JobLimit -> Nat]
    BY <1>1, <1>2, <1>3, <1>4, <1>5, <2>1, TailTaken
  <2>3. StealingTyped' /\ EndsKnown'
    BY <1>1, <1>2, <1>3, <1>4, <1>5, <2>1, <2>2 DEF StealingTyped, EndsKnown
  <2>4. ThievesKnown'
    <3>1. \A t \in Thieves : thief[t].at # "idle" => thief[t].tail \in Nat /\ thief[t].tail <= m_tail
      BY <1>2 DEF ThievesKnown, StealingTyped, ThiefPlaces
    <3>2. \A t \in Thieves : thief[t].at \in {"idle", "head", "load", "exchange"}
      BY <1>2 DEF StealingTyped, ThiefPlaces
    <3> QED
      BY <1>1, <1>2, <2>1, <3>1, <3>2 DEF ThievesKnown
  <2> QED
    BY <2>2, <2>3, <2>4 DEF StealingInv
<1>6. CASE m_tail # owner.tail
  <2>1. UNCHANGED <<m_tail, taken>>
    BY <1>6 DEF RaceForLast
  <2>2. m_tail = Limit
    <3>1. m_tail >= m_head
      BY <1>1, <1>2, <1>4, <1>6 DEF EndsKnown
    <3> QED
      BY <1>2, <1>3, <1>4, <1>6, <3>1
  <2>3. Open' = Open
    BY <1>3, <2>1 DEF Open
  <2> QED
    BY <1>1, <1>2, <1>3, <2>1, <2>2, <2>3
       DEF StealingInv, StealingTyped, EndsKnown, JobsKept, ThievesKnown, Slot
<1> QED
  BY <1>5, <1>6

LEMMA StealInv ==
  ASSUME StealingInv, NEW t \in Thieves, Steal(t)
  PROVE  StealingInv'
<1>1. /\ thief[t].at = "exchange" /\ UNCHANGED <<m_slots, m_head, owner, jobs>>
      /\ thief' = [thief EXCEPT ![t] = Idle]
  BY DEF Steal, ThiefGoto
<1>2. /\ StealingTyped /\ EndsKnown /\ JobsKept /\ ThievesKnown
      /\ m_head \in Int /\ m_tail \in Nat /\ JobSlots \in Nat /\ Limit \in Int /\ Bottom \in Int
      /\ thief \in [Thieves -> ThiefPlaces] /\ Idle \in ThiefPlaces
      /\ taken \in [1 .. JobLimit -> Nat]
  BY OpenSlots, StealingAssumption DEF StealingInv, StealingTyped, Idle, ThiefPlaces
<1>3. Limit' = Limit /\ Bottom' = Bottom
  BY <1>1 DEF Limit, Bottom
<1>4. /\ thief' \in [Thieves -> ThiefPlaces] /\ thief'[t].at = "idle"
      /\ \A u \in Thieves : u # t => thief'[u] = thief[u]
  BY <1>1, <1>2 DEF Idle
<1>5. CASE m_tail = thief[t].tail
  <2>1. m_tail < Limit /\ thief[t].job = m_slots[Slot(m_tail)]
    BY <1>1, <1>2, <1>5 DEF ThievesKnown
  <2>2. m_tail' = m_tail + 1 /\ taken' = [taken EXCEPT ![m_slots[Slot(m_tail)]] = @ + 1]
    BY <1>5, <2>1 DEF Steal, GiveBack
  <2>3. JobsKept' /\ taken' \in [1 .. JobLimit -> Nat]
    BY <1>1, <1>2, <1>3, <2>1, <2>2, TailTaken
  <2>4. StealingTyped' /\ EndsKnown'
    BY <1>1, <1>2, <1>3, <1>4, <2>1, <2>2, <2>3 DEF StealingTyped, EndsKnown, Slot
  <2>5. ThievesKnown'
    <3>1. \A u \in Thieves : /\ thief[u].at # "idle" => thief[u].tail \in Nat /\ thief[u].tail <= m_tail
                             /\ thief[u].at \in {"idle", "head", "load", "exchange"}
      BY <1>2 DEF ThievesKnown, ThiefPlaces
    <3> QED
      BY <1>2, <1>4, <2>2, <3>1 DEF ThievesKnown
  <2> QED
    BY <2>3, <2>4, <2>5 DEF StealingInv
<1>6. CASE m_tail # thief[t].tail
  <2>1. UNCHANGED <<m_tail, taken>>
    BY <1>6 DEF Steal
  <2>2. Open' = Open
    BY <1>3, <2>1 DEF Open
  <2>3. ThievesKnown'
    BY <1>1, <1>2, <1>3, <1>4, <2>1 DEF ThievesKnown, Slot
  <2> QED
    BY <1>1, <1>2, <1>3, <1>4, <2>1, <2>2, <2>3
       DEF StealingInv, StealingTyped, EndsKnown, JobsKept, Slot
<1> QED
  BY <1>5, <1>6

LEMMA StealingInitInv == StealingInit => StealingInv
<1> SUFFICES ASSUME StealingInit PROVE StealingInv
  OBVIOUS
<1>1. /\ owner.at = "idle" /\ m_head = 0 /\ m_tail = 0 /\ jobs = 0
      /\ m_slots = [s \in 0 .. JobSlots - 1 |-> 0] /\ taken = [j \in 1 .. JobLimit |-> 0]
      /\ thief = [t \in Thieves |-> Idle] /\ JobSlots \in Nat /\ JobLimit \in Nat
  BY StealingAssumption DEF StealingInit, Idle, NoJob
<1>2. Limit = 0 /\ Bottom = 0 /\ Open = {}
  BY <1>1 DEF Limit, Bottom, Open
<1>3. Idle \in ThiefPlaces /\ Idle.at = "idle"
  BY DEF ThiefPlaces, Idle
<1>4. thief \in [Thieves -> ThiefPlaces] /\ \A t \in Thieves : thief[t].at = "idle"
  BY <1>1, <1>3
<1> QED
  BY <1>1, <1>2, <1>4 DEF StealingInv, StealingTyped, EndsKnown, JobsKept, ThievesKnown

LEMMA StealingStepInv == StealingInv /\ [StealingNext]_stealingVars => StealingInv'
<1> SUFFICES ASSUME StealingInv, [StealingNext]_stealingVars PROVE StealingInv'
  OBVIOUS
<1>1. CASE EnqueueCheck \/ StoreSlot \/ PublishHead \/ TakeHead \/ LookAtTail \/ ReturnJob
             \/ RaceForLast \/ RestoreHead
  BY <1>1, EnqueueCheckInv, StoreSlotInv, PublishHeadInv, TakeHeadInv, LookAtTailInv,
     ReturnJobInv, RaceForLastInv, RestoreHeadInv
<1>2. CASE \E t \in Thieves : LoadTail(t) \/ LoadHead(t) \/ LoadSlot(t) \/ Steal(t)
  BY <1>2, LoadsInv, StealInv
<1>3. CASE UNCHANGED stealingVars
  BY <1>3 DEF stealingVars, StealingInv, StealingTyped, EndsKnown, JobsKept, ThievesKnown,
              Open, Limit, Bottom, Slot
<1> QED
  BY <1>1, <1>2, <1>3 DEF StealingNext

(* Between two calls of the owner the open places are all there are. *)
LEMMA StealingInvTakenOnce == StealingInv => TakenOnce
<1> SUFFICES ASSUME StealingInv PROVE TakenOnce
  OBVIOUS
<1>1. StealingTyped /\ EndsKnown /\ JobsKept /\ jobs \in Nat /\ jobs <= JobLimit /\ JobLimit \in Nat
  BY StealingAssumption DEF StealingInv, StealingTyped
<1>2. \A j \in 1 .. JobLimit : taken[j] <= (IF j <= jobs THEN 1 ELSE 0)
  BY <1>1 DEF JobsKept, StealingTyped
<1>3. ASSUME owner = Idle
      PROVE  /\ Cardinality(Places) <= JobSlots
             /\ {m_slots[Slot(i)] : i \in Places} = {j \in 1 .. jobs : taken[j] = 0}
             /\ \A i, k \in Places : Slot(i) = Slot(k) => i = k
  <2>1. owner.at = "idle"
    BY <1>3 DEF Idle
  <2>2. /\ Limit = m_head /\ Bottom = m_head /\ Open = Places
        /\ m_tail \in Nat /\ m_head \in Int /\ m_tail <= m_head /\ m_head - m_tail <= JobSlots
    BY <1>1, <2>1 DEF Limit, Bottom, Open, Places, StealingTyped, EndsKnown
  <2>3. Cardinality(Places) <= JobSlots
    <3>1. Cardinality(Places) = IF m_tail > m_head - 1 THEN 0 ELSE m_head - 1 - m_tail + 1
      BY <2>2, FS_Interval DEF Places
    <3> QED
      BY <2>2, <3>1, StealingAssumption
  <2>4. {m_slots[Slot(i)] : i \in Places} = {j \in 1 .. jobs : taken[j] = 0}
    BY <1>1, <2>1, <2>2 DEF JobsKept
  <2>5. \A i, k \in Places : Slot(i) = Slot(k) => i = k
    BY <1>1, <2>2, OpenSlots
  <2> QED
    BY <2>3, <2>4, <2>5
<1> QED
  BY <1>2, <1>3 DEF TakenOnce

(* For any number of thieves, slots and jobs: no job is returned twice,    *)
(* and none is lost between two calls of the owner.                        *)
THEOREM JobsTakenOnce == StealingSpec => []TakenOnce
<1>1. StealingSpec => []StealingInv
  BY StealingInitInv, StealingStepInv, PTL DEF StealingSpec
<1> QED
  BY <1>1, StealingInvTakenOnce, PTL

-----------------------------------------------------------------------------
(* The latch.  Its value is the number of those that have not counted down *)
(* (ValueCounts).  Whoever comes to the list before the promise is         *)
(* fulfilled is found by the last to count down, which is on its way then  *)
(* (LastOnItsWay); the list that was taken is with it (Awaited).           *)

Starting == {t \in Participants : at[t] = "start"}
IsLast(t) == at[t] \in {"fulfil", "wake"}

LatchTyped ==
  /\ m_value \in Nat /\ m_fulfilled \in BOOLEAN
  /\ m_waiting \subseteq Participants /\ detached \subseteq Participants
  /\ at \in [Participants -> {"start", "fulfil", "wake", "try", "early", "add", "suspended", "woken", "done"}]
  /\ left \in {"no", "early", "woken"}

ValueCounts == m_value = Cardinality(Starting)

(* The holder does not count, and those that only count do not wait. *)
CallsKept ==
  /\ at[Holder] \notin {"start", "fulfil", "wake"}
  /\ \A t \in Counting : at[t] \in {"start", "fulfil", "wake", "done"}
  /\ left # "no" => at[Holder] = "done"

LastOnItsWay ==
  /\ \A t, u \in Participants : IsLast(t) /\ IsLast(u) => t = u
  /\ \A t \in Participants : IsLast(t) => m_value = 0
  /\ \A t \in Participants : at[t] = "wake" => m_fulfilled
  /\ m_fulfilled => m_value = 0 /\ m_waiting = {} /\ \A t \in Participants : at[t] # "fulfil"
  /\ m_value = 0 /\ ~m_fulfilled =>
       \/ \E t \in Participants : at[t] = "fulfil"
       \/ \A t \in Participants : at[t] \notin {"add", "suspended"}

Awaited ==
  /\ m_waiting \cap detached = {}
  /\ \A t \in Participants : at[t] = "suspended" <=> t \in m_waiting \cup detached
  /\ detached # {} => \E t \in Participants : at[t] = "wake"

PassedLate ==
  /\ \A t \in Participants : at[t] = "early" => m_value = 0
  /\ \A t \in Participants : at[t] = "woken" => m_fulfilled
  /\ left = "early" => m_value = 0
  /\ left = "woken" => m_fulfilled

LatchInv == LatchTyped /\ ValueCounts /\ CallsKept /\ LastOnItsWay /\ Awaited /\ PassedLate

LEMMA StartingFinite ==
  /\ IsFiniteSet(Starting) /\ Cardinality(Starting) \in Nat
  /\ Cardinality(Starting) = 0 <=> Starting = {}
<1>1. IsFiniteSet(Participants)
  BY LatchAssumption, FS_Union, FS_AddElement DEF Participants
<1>2. IsFiniteSet(Starting)
  BY <1>1, FS_Subset DEF Starting
<1> QED
  BY <1>2, FS_CardinalityType, FS_EmptySet

LEMMA SameStarting ==
  ASSUME ValueCounts, m_value' = m_value,
         \A t \in Participants : at[t] = "start" <=> at'[t] = "start"
  PROVE  ValueCounts'
<1>1. Starting' = Starting
  BY DEF Starting
<1> QED
  BY <1>1 DEF ValueCounts

LEMMA LatchStarts == LatchInit => LatchInv
<1> SUFFICES ASSUME LatchInit PROVE LatchInv
  OBVIOUS
<1>1. Holder \in Participants /\ \A t \in Participants : t # Holder <=> t \in Arriving \cup Counting
  BY LatchAssumption DEF Participants
<1>2. \A t \in Participants : at[t] = IF t = Holder THEN "try" ELSE "start"
  BY DEF LatchInit
<1>3. Starting = Arriving \cup Counting
  BY <1>1, <1>2, LatchAssumption DEF Starting, Participants
<1>4. ValueCounts
  BY <1>3 DEF LatchInit, ValueCounts
<1>5. m_value \in Nat
  BY <1>4, StartingFinite DEF ValueCounts
<1>6. LatchTyped
  BY <1>5 DEF LatchInit, LatchTyped
<1>7. CallsKept
  BY <1>1, <1>2, LatchAssumption DEF LatchInit, CallsKept, Participants
<1>8. LastOnItsWay /\ Awaited /\ PassedLate
  BY <1>2 DEF LatchInit, LastOnItsWay, Awaited, PassedLate, IsLast
<1> QED
  BY <1>4, <1>6, <1>7, <1>8 DEF LatchInv

LEMMA CountDownKeeps ==
  ASSUME LatchInv, NEW t \in Participants, CountDown(t)
  PROVE  LatchInv'
<1> USE DEF CountDown, Move, AfterCount
<1>1. /\ LatchTyped /\ m_value \in Nat /\ t \in Starting /\ m_value # 0
      /\ t # Holder /\ (t \in Counting => t \notin Arriving) /\ t \in Arriving \cup Counting
  BY StartingFinite, LatchAssumption DEF LatchInv, LatchTyped, ValueCounts, CallsKept, Starting, Participants
<1>2. \A u \in Participants : at'[u] = IF u # t THEN at[u] ELSE IF m_value = 1 THEN "fulfil" ELSE AfterCount(t)
  BY <1>1 DEF LatchTyped
<1>3. LatchTyped'
  BY <1>1 DEF LatchTyped
<1>4. ValueCounts'
  <2>1. Starting' = Starting \ {t}
    BY <1>2 DEF Starting
  <2> QED
    BY <1>1, <2>1, StartingFinite, FS_RemoveElement DEF LatchInv, ValueCounts
<1>5. CallsKept'
  BY <1>1, <1>2 DEF LatchInv, CallsKept, Participants
<1>6. ~m_fulfilled /\ \A u \in Participants : ~IsLast(u)
  BY <1>1 DEF LatchInv, LastOnItsWay
<1>7. LastOnItsWay'
  <2>1. CASE m_value = 1
    BY <1>1, <1>2, <1>6, <2>1 DEF LatchInv, LastOnItsWay, IsLast
  <2>2. CASE m_value # 1
    BY <1>1, <1>2, <1>6, <2>2 DEF LatchInv, LastOnItsWay, IsLast
  <2> QED
    BY <2>1, <2>2
<1>8. Awaited'
  BY <1>1, <1>2 DEF LatchInv, Awaited
<1>9. PassedLate'
  BY <1>1, <1>2, <1>6 DEF LatchInv, PassedLate
<1> QED
  BY <1>3, <1>4, <1>5, <1>7, <1>8, <1>9 DEF LatchInv

LEMMA FulfilKeeps ==
  ASSUME LatchInv, NEW t \in Participants, Fulfil(t)
  PROVE  LatchInv'
<1> USE DEF Fulfil, Move
<1>1. LatchTyped /\ m_value = 0 /\ ~m_fulfilled /\ detached = {} /\ t # Holder
  BY DEF LatchInv, LastOnItsWay, IsLast, Awaited, CallsKept
<1>2. \A u \in Participants : at'[u] = IF u # t THEN at[u] ELSE "wake"
  BY <1>1 DEF LatchTyped
<1>3. LatchTyped'
  BY <1>1 DEF LatchTyped
<1>4. ValueCounts'
  BY <1>2, SameStarting DEF LatchInv
<1>5. CallsKept'
  BY <1>1, <1>2, LatchAssumption DEF LatchInv, CallsKept, Participants
<1>6. LastOnItsWay'
  BY <1>1, <1>2 DEF LatchInv, LastOnItsWay, IsLast
<1>7. Awaited'
  BY <1>1, <1>2 DEF LatchInv, Awaited
<1>8. PassedLate'
  BY <1>1, <1>2 DEF LatchInv, PassedLate
<1> QED
  BY <1>3, <1>4, <1>5, <1>6, <1>7, <1>8 DEF LatchInv

LEMMA WakeKeeps ==
  ASSUME LatchInv, NEW t \in Participants, Wake(t)
  PROVE  LatchInv'
<1> USE DEF Wake, Move, AfterCount
<1>1. LatchTyped /\ at[t] = "wake" /\ m_fulfilled /\ m_value = 0 /\ t # Holder /\ detached \subseteq Participants
  BY DEF LatchInv, LatchTyped, LastOnItsWay, IsLast, CallsKept
<1>2. CASE \E w \in detached : detached' = detached \ {w} /\ at' = [at EXCEPT ![w] = "woken"]
  <2> PICK w \in detached : detached' = detached \ {w} /\ at' = [at EXCEPT ![w] = "woken"]
    BY <1>2
  <2>1. w \in Participants /\ at[w] = "suspended" /\ w # t /\ w \notin m_waiting /\ w \notin Counting
    BY <1>1, LatchAssumption DEF LatchInv, Awaited, CallsKept, Participants
  <2>2. \A u \in Participants : at'[u] = IF u # w THEN at[u] ELSE "woken"
    BY <1>1, <2>1 DEF LatchTyped
  <2>3. LatchTyped'
    BY <1>1 DEF LatchTyped
  <2>4. ValueCounts'
    BY <2>1, <2>2, SameStarting DEF LatchInv
  <2>5. CallsKept'
    BY <2>1, <2>2, LatchAssumption DEF LatchInv, CallsKept, Participants
  <2>6. LastOnItsWay'
    BY <1>1, <2>2 DEF LatchInv, LastOnItsWay, IsLast
  <2>7. Awaited'
    BY <1>1, <2>1, <2>2 DEF LatchInv, Awaited
  <2>8. PassedLate'
    BY <1>1, <2>2 DEF LatchInv, PassedLate
  <2> QED
    BY <2>3, <2>4, <2>5, <2>6, <2>7, <2>8 DEF LatchInv
<1>3. CASE detached = {} /\ Move(t, AfterCount(t)) /\ UNCHANGED detached
  <2>1. \A u \in Participants : at'[u] = IF u # t THEN at[u] ELSE AfterCount(t)
    BY <1>1, <1>3 DEF LatchTyped
  <2>2. LatchTyped'
    BY <1>1, <1>3 DEF LatchTyped
  <2>3. ValueCounts'
    BY <1>1, <2>1, SameStarting DEF LatchInv
  <2>4. CallsKept'
    BY <1>1, <2>1, LatchAssumption DEF LatchInv, CallsKept, Participants
  <2>5. LastOnItsWay'
    BY <1>1, <2>1 DEF LatchInv, LastOnItsWay, IsLast
  <2>6. Awaited'
    BY <1>1, <1>3, <2>1 DEF LatchInv, Awaited
  <2>7. PassedLate'
    BY <1>1, <2>1 DEF LatchInv, PassedLate
  <2> QED
    BY <2>2, <2>3, <2>4, <2>5, <2>6, <2>7 DEF LatchInv
<1> QED
  BY <1>2, <1>3

LEMMA TryWaitKeeps ==
  ASSUME LatchInv, NEW t \in Participants, TryWait(t)
  PROVE  LatchInv'
<1> USE DEF TryWait, Move
<1>1. LatchTyped /\ at[t] = "try" /\ t \notin Counting
  BY DEF LatchInv, CallsKept
<1>2. \A u \in Participants : at'[u] = IF u # t THEN at[u] ELSE IF m_value = 0 THEN "early" ELSE "add"
  BY <1>1 DEF LatchTyped
<1>3. LatchTyped'
  BY <1>1 DEF LatchTyped
<1>4. ValueCounts'
  BY <1>1, <1>2, SameStarting DEF LatchInv
<1>5. CallsKept'
  BY <1>1, <1>2, LatchAssumption DEF LatchInv, CallsKept, Participants
<1>6. LastOnItsWay'
  BY <1>1, <1>2 DEF LatchInv, LastOnItsWay, IsLast
<1>7. Awaited'
  BY <1>1, <1>2 DEF LatchInv, Awaited
<1>8. PassedLate'
  BY <1>1, <1>2 DEF LatchInv, PassedLate
<1> QED
  BY <1>3, <1>4, <1>5, <1>6, <1>7, <1>8 DEF LatchInv

LEMMA AddWaiterKeeps ==
  ASSUME LatchInv, NEW t \in Participants, AddWaiter(t)
  PROVE  LatchInv'
<1> USE DEF AddWaiter, Move
<1>1. LatchTyped /\ at[t] = "add" /\ t \notin Counting
  BY DEF LatchInv, CallsKept
<1>2. \A u \in Participants : at'[u] = IF u # t THEN at[u] ELSE IF m_fulfilled THEN "woken" ELSE "suspended"
  BY <1>1 DEF LatchTyped
<1>3. LatchTyped'
  BY <1>1 DEF LatchTyped
<1>4. ValueCounts'
  BY <1>1, <1>2, SameStarting DEF LatchInv
<1>5. CallsKept'
  BY <1>1, <1>2, LatchAssumption DEF LatchInv, CallsKept, Participants
<1>6. LastOnItsWay'
  BY <1>1, <1>2 DEF LatchInv, LastOnItsWay, IsLast
<1>7. Awaited'
  BY <1>1, <1>2 DEF LatchInv, Awaited
<1>8. PassedLate'
  BY <1>1, <1>2 DEF LatchInv, PassedLate
<1> QED
  BY <1>3, <1>4, <1>5, <1>6, <1>7, <1>8 DEF LatchInv

LEMMA LeaveKeeps ==
  ASSUME LatchInv, NEW t \in Participants, Leave(t)
  PROVE  LatchInv'
<1> USE DEF Leave, Move
<1>1. LatchTyped /\ at[t] \in {"early", "woken"} /\ t \notin Counting
  BY DEF LatchInv, CallsKept
<1>2. \A u \in Participants : at'[u] = IF u # t THEN at[u] ELSE "done"
  BY <1>1 DEF LatchTyped
<1>3. LatchTyped'
  BY <1>1 DEF LatchTyped
<1>4. ValueCounts'
  BY <1>1, <1>2, SameStarting DEF LatchInv
<1>5. CallsKept'
  BY <1>1, <1>2, LatchAssumption DEF LatchInv, CallsKept, Participants
<1>6. LastOnItsWay'
  BY <1>1, <1>2 DEF LatchInv, LastOnItsWay, IsLast
<1>7. Awaited'
  BY <1>1, <1>2 DEF LatchInv, Awaited
<1>8. PassedLate'
  BY <1>1, <1>2 DEF LatchInv, PassedLate
<1> QED
  BY <1>3, <1>4, <1>5, <1>6, <1>7, <1>8 DEF LatchInv

LEMMA LatchSteps == LatchInv /\ [LatchNext]_latchVars => LatchInv'
<1> SUFFICES ASSUME LatchInv, [LatchNext]_latchVars PROVE LatchInv'
  OBVIOUS
<1>1. CASE UNCHANGED latchVars
  BY <1>1 DEF latchVars, LatchInv, LatchTyped, ValueCounts, CallsKept, LastOnItsWay, Awaited, PassedLate,
              Starting, IsLast
<1>2. CASE LatchNext
  BY <1>2, CountDownKeeps, FulfilKeeps, WakeKeeps, TryWaitKeeps, AddWaiterKeeps, LeaveKeeps DEF LatchNext
<1> QED
  BY <1>1, <1>2

LEMMA LatchHolds == LatchInv => LatchSound
<1> SUFFICES ASSUME LatchInv PROVE LatchSound
  OBVIOUS
<1>1. m_value = 0 <=> Starting = {}
  BY StartingFinite DEF LatchInv, ValueCounts
<1>2. \A t \in Participants : at[t] \in {"early", "woken"} => m_value = 0
  BY DEF LatchInv, PassedLate, LastOnItsWay
<1>3. Cardinality({t \in Participants : at[t] \in {"fulfil", "wake"}}) <= 1
  <2> DEFINE lasts == {t \in Participants : at[t] \in {"fulfil", "wake"}}
  <2>1. CASE lasts = {}
    BY <2>1, FS_EmptySet
  <2>2. CASE lasts # {}
    <3> PICK t \in lasts : TRUE
      BY <2>2
    <3>1. lasts = {t}
      BY DEF LatchInv, LastOnItsWay, IsLast
    <3> QED
      BY <3>1, FS_Singleton
  <2> QED
    BY <2>1, <2>2
<1>4. m_value = 0 /\ (\A t \in Participants : at[t] \in {"suspended", "done"}) => \A t \in Participants : at[t] = "done"
  BY DEF LatchInv, LastOnItsWay, Awaited
<1>5. left = "woken" => LatchUsers \subseteq Arriving /\ \A t \in LatchUsers : at[t] \in {"try", "add"}
  BY <1>1 DEF LatchInv, LastOnItsWay, PassedLate, CallsKept, LatchUsers, Starting, Participants
<1>6. left = "early" => \/ LatchUsers \cap Counting = {}
                        \/ \E t \in LatchUsers \cap Counting : LatchUsers \cap Counting = {t} /\ at[t] = "fulfil"
  <2> SUFFICES ASSUME left = "early", NEW t \in LatchUsers \cap Counting
               PROVE  at[t] = "fulfil" /\ LatchUsers \cap Counting = {t}
    OBVIOUS
  <2>1. \A u \in LatchUsers \cap Counting : u \in Participants /\ at[u] = "fulfil"
    BY <1>1 DEF LatchInv, PassedLate, CallsKept, LatchUsers, Starting
  <2> QED
    BY <2>1 DEF LatchInv, LastOnItsWay, IsLast
<1> QED
  BY <1>2, <1>3, <1>4, <1>5, <1>6 DEF LatchInv, LastOnItsWay, Awaited, LatchSound

(* Nobody passes a latch before all have counted down, nobody is left      *)
(* suspended, and who was woken late finds the latch (latch.cc).           *)
THEOREM LatchKeepsWaiters == LatchSpec => []LatchSound
<1> QED
  BY LatchStarts, LatchSteps, LatchHolds, PTL DEF LatchSpec

-----------------------------------------------------------------------------
(* The queues of the log. *)

Queues == LogThreads \cup {NoQueue}
CallerStates ==
  [at : {"idle", "append", "link", "read", "lose", "store", "post"}, number : Nat, before : Queues]
SinkStates == [at : {"check", "wait", "try", "walk", "drain", "exited"}, queue : Queues]

LogTyped ==
  /\ m_queue_head \in Queues /\ m_queue_tail \in Queues /\ m_next \in [LogThreads -> Queues]
  /\ ring \in [LogThreads -> Seq(Nat)] /\ printed \in [LogThreads -> Seq(Nat)]
  /\ lost \in [LogThreads -> Nat] /\ reported \in [LogThreads -> Nat]
  /\ permits \in Nat
  /\ caller \in [LogThreads -> CallerStates] /\ sink \in SinkStates

(* The messages that are kept have increasing numbers, and with those that *)
(* are gone and the one that was begun they are all that were logged.      *)
Counted(kept, begun, gone, number) ==
  /\ \A i, j \in DOMAIN kept : i < j => kept[i] < kept[j]
  /\ \A i \in DOMAIN kept : kept[i] + begun <= number
  /\ Len(kept) + gone + begun = number
Gone(t) == reported[t] + lost[t]
Numbered == \A t \in LogThreads : Counted(Kept(t), Begun(t), Gone(t), caller[t].number)

(* The queues in the order in which they became the tail.  Of each only    *)
(* the link that leads to it may be missing, while its thread is about to  *)
(* store that.                                                             *)
InOrder(order, t) == \E i \in DOMAIN order : order[i] = t
Linked(t) == caller[t].at # "link"
Leads(order, i) ==
  LET link == IF i = 1 THEN m_queue_head ELSE m_next[order[i - 1]]
      before == IF i = 1 THEN NoQueue ELSE order[i - 1]
  IN  IF Linked(order[i]) THEN link = order[i]
      ELSE link = NoQueue /\ caller[order[i]].before = before
Listed(order) ==
  /\ order \in Seq(LogThreads) /\ \A i, j \in DOMAIN order : order[i] = order[j] => i = j
  /\ \A t \in LogThreads : InOrder(order, t) <=> caller[t].number > 0 /\ caller[t].at # "append"
  /\ IF order = <<>> THEN m_queue_head = NoQueue /\ m_queue_tail = NoQueue
     ELSE m_queue_tail = order[Len(order)] /\ m_next[order[Len(order)]] = NoQueue
  /\ \A t \in LogThreads : ~InOrder(order, t) => m_next[t] = NoQueue
  /\ \A i \in DOMAIN order : Leads(order, i)
  /\ sink.queue # NoQueue => InOrder(order, sink.queue)
  /\ sink.at = "drain" => sink.queue # NoQueue

(* When nobody is logging and no permit is left, the sink is on its way to *)
(* every queue that holds something.                                       *)
Quiet == permits = 0 /\ \A t \in LogThreads : caller[t].at = "idle"
OnTheWay(order, i) ==
  \E k \in 1 .. i :
    /\ sink.queue = order[k]
    /\ sink.at = "walk" \/ (sink.at = "drain" /\ (k = i => lost[order[i]] = 0))
Visited(order) == Quiet => \A i \in DOMAIN order : Drained(order[i]) \/ OnTheWay(order, i)

LogInv == LogTyped /\ Numbered /\ \E order \in Seq(LogThreads) : Listed(order) /\ Visited(order)

LEMMA CallerFacts ==
  ASSUME LogTyped, NEW t \in LogThreads
  PROVE  /\ caller[t] \in CallerStates /\ caller[t].number \in Nat /\ caller[t].before \in Queues
         /\ caller[t].at \in {"idle", "append", "link", "read", "lose", "store", "post"}
         /\ ring[t] \in Seq(Nat) /\ printed[t] \in Seq(Nat) /\ lost[t] \in Nat /\ reported[t] \in Nat
         /\ Begun(t) \in 0 .. 1 /\ (Begun(t) = 0 <=> caller[t].at \in {"idle", "post"})
<1>1. caller[t] \in CallerStates
  BY DEF LogTyped
<1> QED
  BY <1>1 DEF LogTyped, CallerStates, Begun

LEMMA ConcatTyped ==
  ASSUME NEW p \in Seq(Nat), NEW r \in Seq(Nat)
  PROVE  /\ p \o r \in Seq(Nat) /\ Len(p \o r) = Len(p) + Len(r)
         /\ p \o r = <<>> => r = <<>>
<1>1. p \o r \in Seq(Nat) /\ Len(p \o r) = Len(p) + Len(r) /\ Len(p) \in Nat /\ Len(r) \in Nat
  OBVIOUS
<1>2. p \o r = <<>> => Len(p \o r) = 0
  OBVIOUS
<1>3. Len(r) = 0 => r = <<>>
  OBVIOUS
<1> QED
  BY <1>1, <1>2, <1>3

LEMMA ConcatAppend ==
  ASSUME NEW p \in Seq(Nat), NEW r \in Seq(Nat), NEW n \in Nat
  PROVE  p \o Append(r, n) = Append(p \o r, n)
OBVIOUS

(* A message that is printed stays where it was among those kept.          *)
LEMMA ConcatMoved ==
  ASSUME NEW p \in Seq(Nat), NEW r \in Seq(Nat), r # <<>>
  PROVE  Append(p, Head(r)) \o Tail(r) = p \o r
OBVIOUS

LEMMA KeptFacts ==
  ASSUME LogTyped, NEW t \in LogThreads
  PROVE  /\ Kept(t) \in Seq(Nat) /\ Len(Kept(t)) \in Nat
         /\ DOMAIN Kept(t) = 1 .. Len(Kept(t))
         /\ (Kept(t) = <<>> => ring[t] = <<>>)
<1>1. ring[t] \in Seq(Nat) /\ printed[t] \in Seq(Nat)
  BY DEF LogTyped
<1>2. Kept(t) \in Seq(Nat) /\ (Kept(t) = <<>> => ring[t] = <<>>)
  BY <1>1, ConcatTyped DEF Kept
<1> QED
  BY <1>2

(* A message is stored behind the others.                                  *)
LEMMA KeptStored ==
  ASSUME LogTyped, NEW t \in LogThreads, NEW n \in Nat,
         ring'[t] = Append(ring[t], n), printed'[t] = printed[t]
  PROVE  Kept(t)' = Append(Kept(t), n)
<1>1. ring[t] \in Seq(Nat) /\ printed[t] \in Seq(Nat)
  BY DEF LogTyped
<1> QED
  BY <1>1, ConcatAppend DEF Kept

(* What a logged message, a stored one and a lost one do to the count.     *)
LEMMA CountedSteps ==
  ASSUME NEW kept \in Seq(Nat), NEW gone \in Nat, NEW number \in Nat
  PROVE  /\ Counted(kept, 0, gone, number) => Counted(kept, 1, gone, number + 1)
         /\ Counted(kept, 1, gone, number) => Counted(kept, 0, gone + 1, number)
         /\ Counted(kept, 1, gone, number) => Counted(Append(kept, number), 0, gone, number)
         /\ Counted(kept, 1, gone, number) => number > 0
<1>1. Len(kept) \in Nat /\ \A i \in DOMAIN kept : kept[i] \in Nat
  OBVIOUS
<1>2. Counted(kept, 0, gone, number) => Counted(kept, 1, gone, number + 1)
  BY <1>1 DEF Counted
<1>3. Counted(kept, 1, gone, number) => Counted(kept, 0, gone + 1, number)
  BY <1>1 DEF Counted
<1>4. ASSUME Counted(kept, 1, gone, number)
      PROVE  Counted(Append(kept, number), 0, gone, number)
  <2> DEFINE longer == Append(kept, number)
  <2>1. /\ Len(longer) = Len(kept) + 1 /\ DOMAIN longer = 1 .. Len(kept) + 1
        /\ DOMAIN kept = 1 .. Len(kept)
        /\ longer[Len(kept) + 1] = number /\ \A i \in 1 .. Len(kept) : longer[i] = kept[i]
    OBVIOUS
  <2> HIDE DEF longer
  <2>2. \A i \in 1 .. Len(kept) : kept[i] < number
    BY <1>1, <1>4, <2>1 DEF Counted
  <2>3. \A i, j \in DOMAIN longer : i < j => longer[i] < longer[j]
    <3> SUFFICES ASSUME NEW i \in DOMAIN longer, NEW j \in DOMAIN longer, i < j
                 PROVE  longer[i] < longer[j]
      OBVIOUS
    <3>1. i \in 1 .. Len(kept)
      BY <1>1, <2>1
    <3>2. CASE j = Len(kept) + 1
      BY <3>1, <3>2, <2>1, <2>2
    <3>3. CASE j # Len(kept) + 1
      <4>1. j \in 1 .. Len(kept)
        BY <1>1, <2>1, <3>3
      <4> QED
        BY <1>4, <2>1, <3>1, <4>1 DEF Counted
    <3> QED
      BY <3>2, <3>3
  <2>4. \A i \in DOMAIN longer : longer[i] + 0 <= number
    <3> SUFFICES ASSUME NEW i \in DOMAIN longer
                 PROVE  longer[i] + 0 <= number
      OBVIOUS
    <3>1. CASE i = Len(kept) + 1
      BY <3>1, <2>1
    <3>2. CASE i # Len(kept) + 1
      <4>1. i \in 1 .. Len(kept)
        BY <1>1, <2>1, <3>2
      <4> QED
        BY <1>1, <2>1, <2>2, <4>1
    <3> QED
      BY <3>1, <3>2
  <2>5. Len(longer) + gone + 0 = number
    BY <1>1, <1>4, <2>1 DEF Counted
  <2> QED
    BY <2>3, <2>4, <2>5 DEF Counted, longer
<1>5. Counted(kept, 1, gone, number) => number > 0
  BY <1>1 DEF Counted
<1> QED
  BY <1>2, <1>3, <1>4, <1>5

(* What does not touch the messages of a thread keeps their numbers.       *)
LEMMA NumberedSame ==
  ASSUME Numbered,
         \A t \in LogThreads :
           Kept(t)' = Kept(t) /\ Begun(t)' = Begun(t) /\ Gone(t)' = Gone(t) /\ caller'[t].number = caller[t].number
  PROVE  Numbered'
BY DEF Numbered

(* The list, when only what does not matter to it changes.                 *)
LEMMA ListedSame ==
  ASSUME NEW order \in Seq(LogThreads), Listed(order), UNCHANGED list,
         \A t \in LogThreads :
           /\ (caller'[t].at = "link" <=> caller[t].at = "link") /\ caller'[t].before = caller[t].before
           /\ (caller'[t].number > 0 /\ caller'[t].at # "append") <=> (caller[t].number > 0 /\ caller[t].at # "append"),
         sink'.queue # NoQueue => InOrder(order, sink'.queue),
         sink'.at = "drain" => sink'.queue # NoQueue
  PROVE  Listed(order)'
<1>1. \A i \in DOMAIN order : order[i] \in LogThreads
  OBVIOUS
<1>2. m_queue_head' = m_queue_head /\ m_queue_tail' = m_queue_tail /\ m_next' = m_next
  BY DEF list
<1>3. \A i \in DOMAIN order : Leads(order, i)'
  BY <1>1, <1>2 DEF Listed, Leads, Linked
<1> QED
  BY <1>2, <1>3 DEF Listed, InOrder

LEMMA VisitedBusy ==
  ASSUME NEW order, permits' # 0 \/ \E t \in LogThreads : caller'[t].at # "idle"
  PROVE  Visited(order)'
BY DEF Visited, Quiet

(* What every thread but one keeps.                                        *)
OthersKeep(t) ==
  \A x \in LogThreads \ {t} :
    /\ caller'[x] = caller[x] /\ ring'[x] = ring[x] /\ printed'[x] = printed[x]
    /\ lost'[x] = lost[x] /\ reported'[x] = reported[x]

LEMMA NumberedOne ==
  ASSUME Numbered, NEW t \in LogThreads, OthersKeep(t),
         Counted(Kept(t)', Begun(t)', Gone(t)', caller'[t].number)
  PROVE  Numbered'
<1> SUFFICES ASSUME NEW x \in LogThreads
             PROVE  Counted(Kept(x)', Begun(x)', Gone(x)', caller'[x].number)
  BY DEF Numbered, Counted
<1>1. CASE x # t
  <2>1. Kept(x)' = Kept(x) /\ Begun(x)' = Begun(x) /\ Gone(x)' = Gone(x) /\ caller'[x].number = caller[x].number
    BY <1>1 DEF OthersKeep, Kept, Begun, Gone
  <2> QED
    BY <2>1 DEF Numbered
<1> QED
  BY <1>1

(* A step of a thread's own leaves it somewhere else in logln().           *)
LEMMA CallerMoves ==
  ASSUME LogTyped, NEW t \in LogThreads, NEW from, NEW to \in {"idle", "append", "link", "read", "lose", "store", "post"}, Goes(t, from, to)
  PROVE  /\ caller[t].at = from /\ caller'[t] = [caller[t] EXCEPT !.at = to]
         /\ caller'[t].at = to /\ caller'[t].number = caller[t].number /\ caller'[t].before = caller[t].before
         /\ \A x \in LogThreads \ {t} : caller'[x] = caller[x]
         /\ caller' \in [LogThreads -> CallerStates]
<1>1. caller \in [LogThreads -> CallerStates] /\ caller[t] \in CallerStates
  BY DEF LogTyped
<1>2. caller[t].at = from /\ caller' = [caller EXCEPT ![t] = [caller[t] EXCEPT !.at = to]]
  BY DEF Goes
<1>3. caller'[t] = [caller[t] EXCEPT !.at = to] /\ \A x \in LogThreads \ {t} : caller'[x] = caller[x]
  BY <1>1, <1>2
<1>4. [caller[t] EXCEPT !.at = to] \in CallerStates
  BY <1>1 DEF CallerStates
<1>5. /\ [caller[t] EXCEPT !.at = to].at = to
      /\ [caller[t] EXCEPT !.at = to].number = caller[t].number
      /\ [caller[t] EXCEPT !.at = to].before = caller[t].before
  BY <1>1 DEF CallerStates
<1>6. caller' \in [LogThreads -> CallerStates]
  BY <1>1, <1>2, <1>4
<1> QED
  BY <1>2, <1>3, <1>5, <1>6

LEMMA CallerLogs ==
  ASSUME NEW c \in CallerStates, NEW n \in Nat, NEW to \in {"append", "read"},
         NEW d, d = [[c EXCEPT !.number = n] EXCEPT !.at = to]
  PROVE  d = [at |-> to, number |-> n, before |-> c.before]
<1> DEFINE e == [c EXCEPT !.number = n]
<1>1. e = [at |-> c.at, number |-> n, before |-> c.before]
  BY DEF CallerStates
<1>2. d = [e EXCEPT !.at = to]
  OBVIOUS
<1> HIDE DEF e
<1> QED
  BY <1>1, <1>2

LogHolds(order) == LogTyped /\ Numbered /\ order \in Seq(LogThreads) /\ Listed(order) /\ Visited(order)

LEMMA BegunPositive ==
  ASSUME LogTyped, Numbered, NEW t \in LogThreads, Begun(t) = 1
  PROVE  caller[t].number > 0
<1>1. Gone(t) \in Nat /\ Kept(t) \in Seq(Nat) /\ caller[t].number \in Nat
  BY CallerFacts, KeptFacts DEF Gone
<1> QED
  BY <1>1, CountedSteps DEF Numbered

LEMMA LogLineHolds ==
  ASSUME NEW order, LogHolds(order), NEW t \in LogThreads, LogLine(t)
  PROVE  LogHolds(order)'
<1>1. caller \in [LogThreads -> CallerStates] /\ caller[t] \in CallerStates /\ caller[t].number \in Nat
  BY DEF LogHolds, LogTyped, CallerStates
<1> DEFINE to == IF caller[t].number = 0 THEN "append" ELSE "read"
           moved == [caller[t] EXCEPT !.number = @ + 1, !.at = to]
<1>2. caller[t].at = "idle" /\ caller' = [caller EXCEPT ![t] = moved]
  BY DEF LogLine
<1>3. moved \in CallerStates /\ moved.at = to /\ moved.number = caller[t].number + 1 /\ moved.before = caller[t].before
  <2>1. to \in {"append", "read"} /\ caller[t].number + 1 \in Nat
    BY <1>1
  <2>2. moved = [at |-> to, number |-> caller[t].number + 1, before |-> caller[t].before]
    <3> DEFINE n == caller[t].number + 1
    <3>1. moved = [[caller[t] EXCEPT !.number = n] EXCEPT !.at = to] /\ n \in Nat
      BY <1>1 DEF moved
    <3> HIDE DEF to, moved, n
    <3>2. moved = [at |-> to, number |-> n, before |-> caller[t].before]
      BY <1>1, <2>1, <3>1, CallerLogs
    <3> QED
      BY <3>2 DEF n
  <2> HIDE DEF to, moved
  <2> QED
    BY <1>1, <2>1, <2>2 DEF CallerStates
<1> HIDE DEF moved
<1>4. caller'[t] = moved /\ \A x \in LogThreads \ {t} : caller'[x] = caller[x]
  BY <1>1, <1>2
<1>5. caller' \in [LogThreads -> CallerStates]
  BY <1>1, <1>2, <1>3
<1>6. /\ ring' = ring /\ printed' = printed /\ lost' = lost /\ reported' = reported
      /\ UNCHANGED list /\ permits' = permits /\ sink' = sink
  BY DEF LogLine, output
<1>7. LogTyped'
  BY <1>5, <1>6 DEF LogHolds, LogTyped, list
<1>8. Numbered'
  <2>1. OthersKeep(t)
    BY <1>4, <1>6 DEF OthersKeep
  <2>2. Counted(Kept(t), 0, Gone(t), caller[t].number)
    BY <1>2 DEF LogHolds, Numbered, Begun
  <2>3. Gone(t) \in Nat /\ Kept(t) \in Seq(Nat)
    BY CallerFacts, KeptFacts DEF LogHolds, Gone
  <2>4. Counted(Kept(t), 1, Gone(t), caller[t].number + 1)
    BY <1>1, <2>2, <2>3, CountedSteps
  <2>5. Kept(t)' = Kept(t) /\ Gone(t)' = Gone(t)
    BY <1>6 DEF Kept, Gone
  <2>6. Begun(t)' = 1 /\ caller'[t].number = caller[t].number + 1
    BY <1>3, <1>4 DEF Begun
  <2> QED
    BY <2>1, <2>4, <2>5, <2>6, NumberedOne DEF LogHolds
<1>9. \A x \in LogThreads :
        /\ (caller'[x].at = "link" <=> caller[x].at = "link") /\ caller'[x].before = caller[x].before
        /\ (caller'[x].number > 0 /\ caller'[x].at # "append") <=> (caller[x].number > 0 /\ caller[x].at # "append")
  <2>1. CASE caller[t].number = 0
    BY <1>1, <1>2, <1>3, <1>4, <2>1
  <2>2. CASE caller[t].number > 0
    BY <1>1, <1>2, <1>3, <1>4, <2>2
  <2> QED
    BY <1>1, <2>1, <2>2
<1>10. Listed(order)'
  BY <1>6, <1>9, ListedSame DEF LogHolds, Listed
<1>11. Visited(order)'
  BY <1>3, <1>4, VisitedBusy
<1> QED
  BY <1>7, <1>8, <1>10, <1>11 DEF LogHolds

(* The steps of a thread between its turns at the list.                    *)
LEMMA ReadIndicesHolds ==
  ASSUME NEW order, LogHolds(order), NEW t \in LogThreads, ReadIndices(t)
  PROVE  LogHolds(order)'
<1> DEFINE to == IF Len(ring[t]) >= RingSize THEN "lose" ELSE "store"
<1>1. Goes(t, "read", to) /\ LogTyped /\ to \in {"lose", "store"}
  BY DEF ReadIndices, LogHolds
<1> HIDE DEF to
<1>2. /\ ring' = ring /\ printed' = printed /\ lost' = lost /\ reported' = reported
      /\ UNCHANGED list /\ permits' = permits /\ sink' = sink
  BY DEF ReadIndices, output
<1>3. /\ caller[t].at = "read" /\ caller'[t].at = to /\ caller'[t].number = caller[t].number
      /\ caller'[t].before = caller[t].before /\ \A x \in LogThreads \ {t} : caller'[x] = caller[x]
      /\ caller' \in [LogThreads -> CallerStates]
  BY <1>1, CallerMoves
<1>4. LogTyped'
  BY <1>2, <1>3 DEF LogHolds, LogTyped, list
<1>5. Numbered'
  <2>1. \A x \in LogThreads : Begun(x)' = Begun(x) /\ caller'[x].number = caller[x].number
    BY <1>1, <1>3 DEF Begun
  <2> QED
    BY <1>2, <2>1, NumberedSame DEF LogHolds, Kept, Gone
<1>6. Listed(order)'
  <2>1. \A x \in LogThreads :
          /\ (caller'[x].at = "link" <=> caller[x].at = "link") /\ caller'[x].before = caller[x].before
          /\ (caller'[x].number > 0 /\ caller'[x].at # "append") <=> (caller[x].number > 0 /\ caller[x].at # "append")
    BY <1>1, <1>3
  <2> QED
    BY <1>2, <2>1, ListedSame DEF LogHolds, Listed
<1>7. Visited(order)'
  BY <1>1, <1>3, VisitedBusy
<1> QED
  BY <1>4, <1>5, <1>6, <1>7 DEF LogHolds

LEMMA LoseMessageHolds ==
  ASSUME NEW order, LogHolds(order), NEW t \in LogThreads, LoseMessage(t)
  PROVE  LogHolds(order)'
<1>1. Goes(t, "lose", "post") /\ LogTyped
  BY DEF LoseMessage, LogHolds
<1>2. /\ ring' = ring /\ printed' = printed /\ reported' = reported
      /\ UNCHANGED list /\ permits' = permits /\ sink' = sink
  BY DEF LoseMessage, output
<1>3. /\ caller[t].at = "lose" /\ caller'[t].at = "post" /\ caller'[t].number = caller[t].number
      /\ caller'[t].before = caller[t].before /\ \A x \in LogThreads \ {t} : caller'[x] = caller[x]
      /\ caller' \in [LogThreads -> CallerStates]
  <2>1. "post" \in {"idle", "append", "link", "read", "lose", "store", "post"}
    OBVIOUS
  <2> QED
    BY <1>1, <2>1, CallerMoves
<1>4. /\ lost' \in [LogThreads -> Nat] /\ lost'[t] = lost[t] + 1 /\ lost[t] \in Nat
      /\ \A x \in LogThreads \ {t} : lost'[x] = lost[x]
  BY DEF LoseMessage, LogHolds, LogTyped
<1>5. LogTyped'
  BY <1>2, <1>3, <1>4 DEF LogHolds, LogTyped, list
<1>6. Numbered'
  <2>1. OthersKeep(t)
    BY <1>2, <1>3, <1>4 DEF OthersKeep
  <2>2. /\ Counted(Kept(t), 1, Gone(t), caller[t].number)
        /\ caller[t].number \in Nat /\ Gone(t) \in Nat /\ Kept(t) \in Seq(Nat)
    <3>1. Begun(t) = 1 /\ Counted(Kept(t), Begun(t), Gone(t), caller[t].number)
      BY <1>3 DEF LogHolds, Numbered, Begun
    <3>2. caller[t].number \in Nat /\ Gone(t) \in Nat /\ Kept(t) \in Seq(Nat)
      BY <1>1, CallerFacts, KeptFacts DEF Gone
    <3> QED
      BY <3>1, <3>2
  <2>3. Counted(Kept(t), 0, Gone(t) + 1, caller[t].number)
    BY <2>2, CountedSteps
  <2>4. reported[t] \in Nat
    BY DEF LogHolds, LogTyped
  <2>5. Kept(t)' = Kept(t) /\ Gone(t)' = Gone(t) + 1 /\ Begun(t)' = 0
    BY <1>2, <1>3, <1>4, <2>4 DEF Kept, Gone, Begun
  <2> QED
    BY <1>3, <2>1, <2>3, <2>5, NumberedOne DEF LogHolds
<1>7. Listed(order)'
  BY <1>2, <1>3, ListedSame DEF LogHolds, Listed
<1>8. Visited(order)'
  BY <1>3, VisitedBusy
<1> QED
  BY <1>5, <1>6, <1>7, <1>8 DEF LogHolds

LEMMA StoreMessageHolds ==
  ASSUME NEW order, LogHolds(order), NEW t \in LogThreads, StoreMessage(t)
  PROVE  LogHolds(order)'
<1>1. Goes(t, "store", "post") /\ LogTyped
  BY DEF StoreMessage, LogHolds
<1>2. /\ lost' = lost /\ printed' = printed /\ reported' = reported
      /\ UNCHANGED list /\ permits' = permits /\ sink' = sink
  BY DEF StoreMessage, output
<1>3. /\ caller[t].at = "store" /\ caller'[t].at = "post" /\ caller'[t].number = caller[t].number
      /\ caller'[t].before = caller[t].before /\ \A x \in LogThreads \ {t} : caller'[x] = caller[x]
      /\ caller' \in [LogThreads -> CallerStates] /\ caller[t].number \in Nat
  <2>1. "post" \in {"idle", "append", "link", "read", "lose", "store", "post"}
    OBVIOUS
  <2> QED
    BY <1>1, <2>1, CallerMoves, CallerFacts
<1>4. ring[t] \in Seq(Nat) /\ Append(ring[t], caller[t].number) \in Seq(Nat)
  BY <1>3 DEF LogHolds, LogTyped
<1>5. /\ ring' \in [LogThreads -> Seq(Nat)] /\ ring'[t] = Append(ring[t], caller[t].number)
      /\ \A x \in LogThreads \ {t} : ring'[x] = ring[x]
  BY <1>4 DEF StoreMessage, LogHolds, LogTyped
<1>6. LogTyped'
  BY <1>2, <1>3, <1>5 DEF LogHolds, LogTyped, list
<1>7. Numbered'
  <2>1. OthersKeep(t)
    BY <1>2, <1>3, <1>5 DEF OthersKeep
  <2>2. /\ Counted(Kept(t), 1, Gone(t), caller[t].number)
        /\ caller[t].number \in Nat /\ Gone(t) \in Nat /\ Kept(t) \in Seq(Nat)
    <3>1. Begun(t) = 1 /\ Counted(Kept(t), Begun(t), Gone(t), caller[t].number)
      BY <1>3 DEF LogHolds, Numbered, Begun
    <3>2. caller[t].number \in Nat /\ Gone(t) \in Nat /\ Kept(t) \in Seq(Nat)
      BY <1>1, CallerFacts, KeptFacts DEF Gone
    <3> QED
      BY <3>1, <3>2
  <2>3. Counted(Append(Kept(t), caller[t].number), 0, Gone(t), caller[t].number)
    BY <2>2, CountedSteps
  <2>4. Kept(t)' = Append(Kept(t), caller[t].number)
    BY <1>2, <1>3, <1>5, KeptStored DEF LogHolds
  <2>5. Gone(t)' = Gone(t) /\ Begun(t)' = 0
    BY <1>2, <1>3 DEF Gone, Begun
  <2> QED
    BY <1>3, <2>1, <2>3, <2>4, <2>5, NumberedOne DEF LogHolds
<1>8. Listed(order)'
  BY <1>2, <1>3, ListedSame DEF LogHolds, Listed
<1>9. Visited(order)'
  BY <1>3, VisitedBusy
<1> QED
  BY <1>6, <1>7, <1>8, <1>9 DEF LogHolds

LEMMA PostHolds ==
  ASSUME NEW order, LogHolds(order), NEW t \in LogThreads, Post(t)
  PROVE  LogHolds(order)'
<1>1. Goes(t, "post", "idle") /\ LogTyped /\ permits' = permits + 1 /\ permits \in Nat
  BY DEF Post, LogHolds, LogTyped
<1>2. /\ ring' = ring /\ lost' = lost /\ printed' = printed /\ reported' = reported
      /\ UNCHANGED list /\ sink' = sink
  BY DEF Post, output
<1>3. /\ caller[t].at = "post" /\ caller'[t].at = "idle" /\ caller'[t].number = caller[t].number
      /\ caller'[t].before = caller[t].before /\ \A x \in LogThreads \ {t} : caller'[x] = caller[x]
      /\ caller' \in [LogThreads -> CallerStates]
  <2>1. "idle" \in {"idle", "append", "link", "read", "lose", "store", "post"}
    OBVIOUS
  <2> QED
    BY <1>1, <2>1, CallerMoves
<1>4. LogTyped'
  BY <1>1, <1>2, <1>3 DEF LogHolds, LogTyped, list
<1>5. Numbered'
  <2>1. \A x \in LogThreads : Begun(x)' = Begun(x) /\ caller'[x].number = caller[x].number
    BY <1>3 DEF Begun
  <2> QED
    BY <1>2, <2>1, NumberedSame DEF LogHolds, Kept, Gone
<1>6. Listed(order)'
  BY <1>2, <1>3, ListedSame DEF LogHolds, Listed
<1>7. Visited(order)'
  BY <1>1, VisitedBusy
<1> QED
  BY <1>4, <1>5, <1>6, <1>7 DEF LogHolds

(* The steps that leave the threads where they are, and their messages.    *)
LEMMA NumberedStays ==
  ASSUME Numbered, caller' = caller, ring' = ring, UNCHANGED output, lost' = lost
  PROVE  Numbered'
BY NumberedSame DEF Kept, Begun, Gone, output

LEMMA ListedStays ==
  ASSUME NEW order \in Seq(LogThreads), Listed(order), UNCHANGED list, caller' = caller,
         sink'.queue # NoQueue => InOrder(order, sink'.queue),
         sink'.at = "drain" => sink'.queue # NoQueue
  PROVE  Listed(order)'
BY ListedSame

LEMMA SinkFacts ==
  ASSUME LogTyped
  PROVE  /\ sink \in SinkStates /\ sink.queue \in Queues
         /\ sink.at \in {"check", "wait", "try", "walk", "drain", "exited"}
         /\ sink = [at |-> sink.at, queue |-> sink.queue]
BY DEF LogTyped, SinkStates

LEMMA StopSinkHolds ==
  ASSUME NEW order, LogHolds(order), StopSink
  PROVE  LogHolds(order)'
<1>1. /\ ring' = ring /\ lost' = lost /\ printed' = printed /\ reported' = reported /\ UNCHANGED output
      /\ UNCHANGED list /\ permits' = permits /\ sink' = sink /\ caller' = caller
  BY DEF StopSink, output
<1>2. LogTyped'
  BY <1>1 DEF LogHolds, LogTyped, list
<1>3. Numbered'
  BY <1>1, NumberedStays DEF LogHolds
<1>4. Listed(order)'
  BY <1>1, ListedStays DEF LogHolds, Listed
<1>5. Visited(order)'
  BY <1>1 DEF LogHolds, Visited, Quiet, OnTheWay, Drained
<1> QED
  BY <1>2, <1>3, <1>4, <1>5 DEF LogHolds

LEMMA WakeSinkHolds ==
  ASSUME NEW order, LogHolds(order), WakeSink
  PROVE  LogHolds(order)'
<1>1. /\ ring' = ring /\ lost' = lost /\ printed' = printed /\ reported' = reported /\ UNCHANGED output
      /\ UNCHANGED list /\ permits' = permits + 1 /\ permits \in Nat /\ sink' = sink /\ caller' = caller
  BY DEF WakeSink, output, LogHolds, LogTyped
<1>2. LogTyped'
  BY <1>1 DEF LogHolds, LogTyped, list
<1>3. Numbered'
  BY <1>1, NumberedStays DEF LogHolds
<1>4. Listed(order)'
  BY <1>1, ListedStays DEF LogHolds, Listed
<1>5. Visited(order)'
  BY <1>1, VisitedBusy
<1> QED
  BY <1>2, <1>3, <1>4, <1>5 DEF LogHolds

(* A sink that is not walking has emptied every queue, or has a permit to  *)
(* take; going from one such place to another it leaves that so.           *)
LEMMA SinkRests ==
  ASSUME NEW order, LogHolds(order), sink.at \notin {"walk", "drain"} \/ sink.queue = NoQueue,
         UNCHANGED <<list, ring, lost, permits, caller, output>>,
         NEW place \in {"check", "wait", "try", "exited"}, sink' = [sink EXCEPT !.at = place]
  PROVE  LogHolds(order)'
<1>1. /\ ring' = ring /\ lost' = lost /\ printed' = printed /\ reported' = reported /\ UNCHANGED output
      /\ UNCHANGED list /\ permits' = permits /\ caller' = caller
  BY DEF output
<1>2. LogTyped /\ sink' = [at |-> place, queue |-> sink.queue] /\ sink.queue \in Queues
  BY SinkFacts DEF LogHolds
<1>3. sink' \in SinkStates /\ sink'.at = place /\ sink'.queue = sink.queue
  BY <1>2 DEF SinkStates
<1>4. LogTyped'
  BY <1>1, <1>3 DEF LogHolds, LogTyped, list
<1>5. Numbered'
  BY <1>1, NumberedStays DEF LogHolds
<1>6. Listed(order)'
  BY <1>1, <1>3, ListedStays DEF LogHolds, Listed
<1>7. \A i \in DOMAIN order : ~OnTheWay(order, i)
  <2> SUFFICES ASSUME NEW i \in DOMAIN order, OnTheWay(order, i)
               PROVE  FALSE
    OBVIOUS
  <2>1. PICK k \in 1 .. i : sink.queue = order[k] /\ (sink.at = "walk" \/ sink.at = "drain")
    BY DEF OnTheWay
  <2>2. order \in Seq(LogThreads) /\ k \in DOMAIN order
    BY DEF LogHolds
  <2>3. order[k] \in LogThreads
    BY <2>2
  <2> QED
    BY <2>1, <2>3, LogAssumption
<1>8. Visited(order)'
  BY <1>1, <1>7 DEF LogHolds, Visited, Quiet, Drained
<1> QED
  BY <1>4, <1>5, <1>6, <1>8 DEF LogHolds

LEMMA CheckRunningHolds ==
  ASSUME NEW order, LogHolds(order), CheckRunning
  PROVE  LogHolds(order)'
<1> DEFINE place == IF m_running THEN "wait" ELSE "try"
<1>1. /\ sink.at = "check" /\ sink' = [sink EXCEPT !.at = place] /\ place \in {"check", "wait", "try", "exited"}
      /\ UNCHANGED <<list, ring, lost, permits, caller, output>>
  BY DEF CheckRunning
<1> HIDE DEF place
<1> QED
  BY <1>1, SinkRests

LEMMA SinkExitsHolds ==
  ASSUME NEW order, LogHolds(order), SinkExits
  PROVE  LogHolds(order)'
<1> DEFINE place == "exited"
<1>1. /\ sink.at = "try" /\ sink' = [sink EXCEPT !.at = place] /\ place \in {"check", "wait", "try", "exited"}
      /\ UNCHANGED <<list, ring, lost, permits, caller, output>>
  BY DEF SinkExits
<1> HIDE DEF place
<1> QED
  BY <1>1, SinkRests

LEMMA WalkEndsHolds ==
  ASSUME NEW order, LogHolds(order), WalkEnds
  PROVE  LogHolds(order)'
<1> DEFINE place == "check"
<1>1. /\ sink.queue = NoQueue /\ sink' = [sink EXCEPT !.at = place] /\ place \in {"check", "wait", "try", "exited"}
      /\ UNCHANGED <<list, ring, lost, permits, caller, output>>
  BY DEF WalkEnds
<1> HIDE DEF place
<1> QED
  BY <1>1, SinkRests

(* The link that leads to a queue of the order, and the one behind it.     *)
LEMMA LinksInOrder ==
  ASSUME NEW order, LogHolds(order)
  PROVE  /\ m_queue_head # NoQueue => InOrder(order, m_queue_head)
         /\ \A i \in DOMAIN order : m_next[order[i]] # NoQueue => InOrder(order, m_next[order[i]])
<1>1. /\ order \in Seq(LogThreads) /\ Len(order) \in Nat /\ DOMAIN order = 1 .. Len(order)
      /\ \A i \in DOMAIN order : Leads(order, i)
      /\ IF order = <<>> THEN m_queue_head = NoQueue /\ m_queue_tail = NoQueue
         ELSE m_queue_tail = order[Len(order)] /\ m_next[order[Len(order)]] = NoQueue
  BY DEF LogHolds, Listed
<1>2. m_queue_head # NoQueue => InOrder(order, m_queue_head)
  <2> SUFFICES ASSUME m_queue_head # NoQueue
               PROVE  InOrder(order, m_queue_head)
    OBVIOUS
  <2>1. 1 \in DOMAIN order
    BY <1>1
  <2>2. m_queue_head = order[1]
    BY <1>1, <2>1 DEF Leads
  <2> QED
    BY <2>1, <2>2 DEF InOrder
<1>3. ASSUME NEW i \in DOMAIN order, m_next[order[i]] # NoQueue
      PROVE  InOrder(order, m_next[order[i]])
  <2>1. i \in 1 .. Len(order) /\ i # Len(order)
    BY <1>1, <1>3
  <2>2. i + 1 \in DOMAIN order /\ i + 1 # 1 /\ (i + 1) - 1 = i
    BY <1>1, <2>1
  <2>3. Leads(order, i + 1)
    BY <1>1, <2>2
  <2>4. m_next[order[i]] = order[i + 1]
    BY <1>3, <2>2, <2>3 DEF Leads
  <2> QED
    BY <2>2, <2>4 DEF InOrder
<1> QED
  BY <1>2, <1>3

LEMMA TakePermitHolds ==
  ASSUME NEW order, LogHolds(order), TakePermit
  PROVE  LogHolds(order)'
<1>1. /\ ring' = ring /\ lost' = lost /\ printed' = printed /\ reported' = reported /\ UNCHANGED output
      /\ UNCHANGED list /\ permits' = permits - 1 /\ permits > 0 /\ permits \in Nat /\ caller' = caller
      /\ sink' = [at |-> "walk", queue |-> m_queue_head] /\ m_queue_head \in Queues
  BY DEF TakePermit, output, LogHolds, LogTyped
<1>2. sink' \in SinkStates /\ sink'.at = "walk" /\ sink'.queue = m_queue_head
  BY <1>1 DEF SinkStates
<1>3. LogTyped'
  BY <1>1, <1>2 DEF LogHolds, LogTyped, list
<1>4. Numbered'
  BY <1>1, NumberedStays DEF LogHolds
<1>5. order \in Seq(LogThreads) /\ Listed(order)
  BY DEF LogHolds
<1>6. Listed(order)'
  BY <1>1, <1>2, <1>5, LinksInOrder, ListedStays
<1>7. Visited(order)'
  <2> SUFFICES ASSUME Quiet', NEW i \in DOMAIN order
               PROVE  OnTheWay(order, i)'
    BY DEF Visited
  <2>1. 1 \in DOMAIN order /\ 1 \in 1 .. i /\ order[1] \in LogThreads
    BY <1>5
  <2>2. Linked(order[1]) /\ Leads(order, 1)
    BY <1>1, <1>5, <2>1 DEF Quiet, Linked, Listed
  <2>3. m_queue_head = order[1]
    BY <2>2 DEF Leads
  <2> QED
    BY <1>2, <2>1, <2>3 DEF OnTheWay
<1> QED
  BY <1>3, <1>4, <1>5, <1>6, <1>7 DEF LogHolds

LEMMA ReportLostHolds ==
  ASSUME NEW order, LogHolds(order), ReportLost
  PROVE  LogHolds(order)'
<1> DEFINE q == sink.queue
<1>1. /\ sink.at = "walk" /\ q # NoQueue /\ q \in LogThreads
      /\ sink' = [at |-> "drain", queue |-> q]
  <2>1. sink = [at |-> sink.at, queue |-> sink.queue] /\ sink.queue \in Queues
    BY SinkFacts DEF LogHolds
  <2>2. sink' = [sink EXCEPT !.at = "drain"] /\ sink.at = "walk" /\ q # NoQueue
    BY DEF ReportLost
  <2> QED
    BY <2>1, <2>2 DEF Queues
<1>2. /\ ring' = ring /\ printed' = printed /\ UNCHANGED list /\ permits' = permits /\ caller' = caller
      /\ lost' = [lost EXCEPT ![q] = 0] /\ reported' = [reported EXCEPT ![q] = reported[q] + lost[q]]
  BY DEF ReportLost
<1> HIDE DEF q
<1>3. sink' \in SinkStates /\ sink'.at = "drain" /\ sink'.queue = q
  BY <1>1 DEF SinkStates, Queues
<1>4. /\ lost[q] \in Nat /\ reported[q] \in Nat
      /\ lost' \in [LogThreads -> Nat] /\ lost'[q] = 0 /\ \A x \in LogThreads \ {q} : lost'[x] = lost[x]
      /\ reported' \in [LogThreads -> Nat] /\ reported'[q] = reported[q] + lost[q]
      /\ \A x \in LogThreads \ {q} : reported'[x] = reported[x]
  BY <1>1, <1>2 DEF LogHolds, LogTyped
<1>5. LogTyped'
  BY <1>2, <1>3, <1>4 DEF LogHolds, LogTyped, list
<1>6. Numbered'
  <2>1. \A x \in LogThreads : Gone(x)' = Gone(x)
    BY <1>4 DEF Gone
  <2> QED
    BY <1>2, <2>1, NumberedSame DEF LogHolds, Kept, Begun
<1>7. order \in Seq(LogThreads) /\ Listed(order) /\ InOrder(order, q)
  BY <1>1 DEF LogHolds, Listed, q
<1>8. Listed(order)'
  BY <1>1, <1>2, <1>3, <1>7, ListedStays
<1>9. Visited(order)'
  <2> SUFFICES ASSUME Quiet', NEW i \in DOMAIN order
               PROVE  Drained(order[i])' \/ OnTheWay(order, i)'
    BY DEF Visited
  <2>1. order[i] \in LogThreads /\ Quiet
    BY <1>2, <1>7 DEF Quiet
  <2>2. Drained(order[i]) \/ OnTheWay(order, i)
    BY <2>1 DEF LogHolds, Visited
  <2>3. CASE Drained(order[i])
    BY <1>2, <1>4, <2>1, <2>3 DEF Drained
  <2>4. CASE OnTheWay(order, i)
    <3>1. PICK k \in 1 .. i : q = order[k]
      BY <2>4 DEF OnTheWay, q
    <3>2. k = i => lost'[order[i]] = 0
      BY <1>4, <3>1
    <3> QED
      BY <1>3, <3>1, <3>2 DEF OnTheWay
  <2> QED
    BY <2>2, <2>3, <2>4
<1> QED
  BY <1>5, <1>6, <1>7, <1>8, <1>9 DEF LogHolds

LEMMA PrintMessageHolds ==
  ASSUME NEW order, LogHolds(order), PrintMessage
  PROVE  LogHolds(order)'
<1> DEFINE q == sink.queue
<1>1. sink.at = "drain" /\ q # NoQueue /\ q \in LogThreads /\ ring[q] # <<>>
  <2>1. sink.at = "drain" /\ ring[q] # <<>>
    BY DEF PrintMessage
  <2>2. sink.queue \in Queues /\ sink.queue # NoQueue
    BY <2>1, SinkFacts DEF LogHolds, Listed
  <2> QED
    BY <2>1, <2>2 DEF Queues
<1>2. /\ sink' = sink /\ UNCHANGED list /\ permits' = permits /\ caller' = caller /\ lost' = lost /\ reported' = reported
      /\ printed' = [printed EXCEPT ![q] = Append(printed[q], Head(ring[q]))]
      /\ ring' = [ring EXCEPT ![q] = Tail(ring[q])]
  BY DEF PrintMessage
<1> HIDE DEF q
<1>3. ring[q] \in Seq(Nat) /\ printed[q] \in Seq(Nat)
  BY <1>1 DEF LogHolds, LogTyped
<1>4. Tail(ring[q]) \in Seq(Nat) /\ Append(printed[q], Head(ring[q])) \in Seq(Nat)
  BY <1>1, <1>3
<1>5. /\ ring' \in [LogThreads -> Seq(Nat)] /\ ring'[q] = Tail(ring[q])
      /\ printed' \in [LogThreads -> Seq(Nat)] /\ printed'[q] = Append(printed[q], Head(ring[q]))
      /\ \A x \in LogThreads \ {q} : ring'[x] = ring[x] /\ printed'[x] = printed[x]
  BY <1>1, <1>2, <1>4 DEF LogHolds, LogTyped
<1>6. LogTyped'
  BY <1>2, <1>5 DEF LogHolds, LogTyped, list
<1>7. Numbered'
  <2>1. ASSUME NEW x \in LogThreads
        PROVE  printed'[x] \o ring'[x] = printed[x] \o ring[x]
    <3>1. CASE x = q
      BY <1>1, <1>3, <1>5, <3>1, ConcatMoved
    <3>2. CASE x # q
      BY <1>5, <3>2
    <3> QED
      BY <3>1, <3>2
  <2>2. \A x \in LogThreads : Kept(x)' = Kept(x)
    BY <2>1 DEF Kept
  <2> QED
    BY <1>2, <2>2, NumberedSame DEF LogHolds, Gone, Begun
<1>8. order \in Seq(LogThreads) /\ Listed(order) /\ InOrder(order, q)
  BY <1>1 DEF LogHolds, Listed, q
<1>9. Listed(order)'
  BY <1>1, <1>2, <1>8, ListedStays DEF q
<1>10. Visited(order)'
  <2> SUFFICES ASSUME Quiet', NEW i \in DOMAIN order
               PROVE  Drained(order[i])' \/ OnTheWay(order, i)'
    BY DEF Visited
  <2>1. order[i] \in LogThreads /\ Quiet
    BY <1>2, <1>8 DEF Quiet
  <2>2. Drained(order[i]) \/ OnTheWay(order, i)
    BY <2>1 DEF LogHolds, Visited
  <2>3. Drained(order[i]) => Drained(order[i])'
    BY <1>1, <1>2, <1>5, <2>1 DEF Drained
  <2>4. OnTheWay(order, i) => OnTheWay(order, i)'
    BY <1>2 DEF OnTheWay
  <2> QED
    BY <2>2, <2>3, <2>4
<1> QED
  BY <1>6, <1>7, <1>8, <1>9, <1>10 DEF LogHolds

LEMMA NextQueueHolds ==
  ASSUME NEW order, LogHolds(order), NextQueue
  PROVE  LogHolds(order)'
<1> DEFINE q == sink.queue
<1>1. sink.at = "drain" /\ q # NoQueue /\ q \in LogThreads /\ ring[q] = <<>>
  <2>1. sink.at = "drain" /\ ring[q] = <<>>
    BY DEF NextQueue
  <2>2. sink.queue \in Queues /\ sink.queue # NoQueue
    BY <2>1, SinkFacts DEF LogHolds, Listed
  <2> QED
    BY <2>1, <2>2 DEF Queues
<1>2. /\ ring' = ring /\ lost' = lost /\ printed' = printed /\ reported' = reported /\ UNCHANGED output
      /\ UNCHANGED list /\ permits' = permits /\ caller' = caller
      /\ sink' = [at |-> "walk", queue |-> m_next[q]]
  BY DEF NextQueue, output
<1>3. order \in Seq(LogThreads) /\ Listed(order) /\ InOrder(order, q)
  BY <1>1 DEF LogHolds, Listed
<1>4. m_next[q] \in Queues
  BY <1>1 DEF LogHolds, LogTyped
<1> HIDE DEF q
<1>5. sink' \in SinkStates /\ sink'.at = "walk" /\ sink'.queue = m_next[q]
  BY <1>2, <1>4 DEF SinkStates
<1>6. LogTyped'
  BY <1>2, <1>5 DEF LogHolds, LogTyped, list
<1>7. Numbered'
  BY <1>2, NumberedStays DEF LogHolds
<1>8. Listed(order)'
  <2>1. m_next[q] # NoQueue => InOrder(order, m_next[q])
    BY <1>3, LinksInOrder DEF InOrder
  <2> QED
    BY <1>2, <1>3, <1>5, <2>1, ListedStays
<1>9. Visited(order)'
  <2> SUFFICES ASSUME Quiet', NEW i \in DOMAIN order
               PROVE  Drained(order[i])' \/ OnTheWay(order, i)'
    BY DEF Visited
  <2>1. order[i] \in LogThreads /\ Quiet /\ i \in 1 .. Len(order) /\ Len(order) \in Nat
    BY <1>2, <1>3 DEF Quiet
  <2>2. Drained(order[i]) \/ OnTheWay(order, i)
    BY <2>1 DEF LogHolds, Visited
  <2>3. Drained(order[i]) => Drained(order[i])'
    BY <1>2 DEF Drained
  <2>4. ASSUME OnTheWay(order, i), ~Drained(order[i])
        PROVE  OnTheWay(order, i)'
    <3>1. PICK k \in 1 .. i : q = order[k] /\ (k = i => lost[order[i]] = 0)
      BY <1>1, <2>4 DEF OnTheWay, q
    <3>2. k # i
      BY <1>1, <2>4, <3>1 DEF Drained
    <3>3. k + 1 \in 1 .. i /\ k + 1 \in DOMAIN order /\ k + 1 # 1 /\ (k + 1) - 1 = k
      BY <1>3, <2>1, <3>1, <3>2
    <3>4. order[k + 1] \in LogThreads /\ Leads(order, k + 1)
      BY <1>3, <3>3 DEF Listed
    <3>5. Linked(order[k + 1])
      BY <2>1, <3>4 DEF Quiet, Linked
    <3>6. m_next[q] = order[k + 1]
      BY <3>1, <3>3, <3>4, <3>5 DEF Leads
    <3> QED
      BY <1>5, <3>3, <3>6 DEF OnTheWay
  <2> QED
    BY <2>2, <2>3, <2>4
<1> QED
  BY <1>3, <1>6, <1>7, <1>8, <1>9 DEF LogHolds

LEMMA CallerAppends ==
  ASSUME NEW c \in CallerStates, NEW last
  PROVE  [[c EXCEPT !.at = "link"] EXCEPT !.before = last] = [at |-> "link", number |-> c.number, before |-> last]
<1> DEFINE e == [c EXCEPT !.at = "link"]
<1>1. e = [at |-> "link", number |-> c.number, before |-> c.before]
  BY DEF CallerStates
<1> HIDE DEF e
<1>2. [e EXCEPT !.before = last] = [at |-> "link", number |-> c.number, before |-> last]
  BY <1>1
<1> QED
  BY <1>2 DEF e

(* add_queue() puts a queue at the end of the order, with the link that    *)
(* leads to it still missing, and then stores that link.                   *)
LEMMA AppendQueueHolds ==
  ASSUME NEW order, LogHolds(order), NEW t \in LogThreads, AppendQueue(t)
  PROVE  LogHolds(Append(order, t))'
<1> DEFINE longer == Append(order, t)
           n == Len(order)
<1>1. LogTyped /\ Numbered /\ order \in Seq(LogThreads) /\ Listed(order)
  BY DEF LogHolds
<1>2. /\ caller[t].at = "append" /\ caller[t].number \in Nat /\ caller[t] \in CallerStates
      /\ caller[t].number > 0
  <2>1. caller[t].at = "append" /\ Begun(t) = 1
    BY DEF AppendQueue, Begun
  <2> QED
    BY <1>1, <2>1, BegunPositive, CallerFacts
<1>3. /\ m_queue_tail' = t /\ m_queue_head' = m_queue_head /\ m_next' = m_next
      /\ ring' = ring /\ printed' = printed /\ lost' = lost /\ reported' = reported
      /\ permits' = permits /\ sink' = sink
      /\ caller' = [caller EXCEPT ![t] = [[caller[t] EXCEPT !.at = "link"] EXCEPT !.before = m_queue_tail]]
  BY DEF AppendQueue, output
<1>4. /\ caller'[t] = [at |-> "link", number |-> caller[t].number, before |-> m_queue_tail]
      /\ \A x \in LogThreads \ {t} : caller'[x] = caller[x]
  <2> DEFINE d == [[caller[t] EXCEPT !.at = "link"] EXCEPT !.before = m_queue_tail]
  <2>1. d = [at |-> "link", number |-> caller[t].number, before |-> m_queue_tail]
    BY <1>2, CallerAppends
  <2>2. caller' = [caller EXCEPT ![t] = d] /\ caller \in [LogThreads -> CallerStates]
    BY <1>1, <1>3 DEF LogTyped
  <2> HIDE DEF d
  <2> QED
    BY <2>1, <2>2
<1>5. caller'[t].at = "link" /\ caller'[t].number = caller[t].number /\ caller'[t].before = m_queue_tail
  BY <1>4
<1>6. caller' \in [LogThreads -> CallerStates]
  <2>1. m_queue_tail \in Queues /\ caller \in [LogThreads -> CallerStates]
    BY <1>1 DEF LogTyped
  <2>2. caller'[t] \in CallerStates
    BY <1>2, <1>4, <2>1 DEF CallerStates
  <2>3. DOMAIN caller' = LogThreads
    BY <1>3, <2>1
  <2>4. caller' = [x \in LogThreads |-> caller'[x]]
    BY <1>3, <2>1
  <2>5. \A x \in LogThreads : caller'[x] \in CallerStates
    BY <1>4, <2>1, <2>2
  <2> QED
    BY <2>4, <2>5
<1>7. LogTyped'
  BY <1>1, <1>3, <1>6 DEF LogTyped, Queues
<1>8. Numbered'
  <2>1. \A x \in LogThreads : Begun(x)' = Begun(x) /\ caller'[x].number = caller[x].number
    BY <1>2, <1>4, <1>5 DEF Begun
  <2> QED
    BY <1>1, <1>3, <2>1, NumberedSame DEF Kept, Gone
<1>9. /\ longer \in Seq(LogThreads) /\ Len(longer) = n + 1 /\ n \in Nat
      /\ DOMAIN longer = 1 .. n + 1 /\ DOMAIN order = 1 .. n /\ longer # <<>>
      /\ longer[n + 1] = t /\ \A i \in 1 .. n : longer[i] = order[i] /\ order[i] \in LogThreads
  BY <1>1
<1>10. ~InOrder(order, t)
  BY <1>1, <1>2 DEF Listed
<1>11. \A i \in 1 .. n : order[i] # t
  BY <1>9, <1>10 DEF InOrder
<1> HIDE DEF longer, n
<1>12. \A x \in LogThreads : InOrder(longer, x) <=> (InOrder(order, x) \/ x = t)
  BY <1>9 DEF InOrder
<1>13. Listed(longer)'
  <2>1. \A i, j \in DOMAIN longer : longer[i] = longer[j] => i = j
    <3> SUFFICES ASSUME NEW i \in DOMAIN longer, NEW j \in DOMAIN longer, longer[i] = longer[j]
                 PROVE  i = j
      OBVIOUS
    <3>1. (i \in 1 .. n \/ i = n + 1) /\ (j \in 1 .. n \/ j = n + 1)
      BY <1>9
    <3>2. CASE i \in 1 .. n /\ j \in 1 .. n
      BY <1>1, <1>9, <3>2 DEF Listed
    <3>3. CASE i = n + 1 \/ j = n + 1
      BY <1>9, <1>11, <3>1, <3>3
    <3> QED
      BY <3>1, <3>2, <3>3
  <2>2. \A x \in LogThreads : InOrder(longer, x) <=> (caller'[x].number > 0 /\ caller'[x].at # "append")
    <3> SUFFICES ASSUME NEW x \in LogThreads
                 PROVE  InOrder(longer, x) <=> (caller'[x].number > 0 /\ caller'[x].at # "append")
      OBVIOUS
    <3>1. CASE x = t
      BY <1>2, <1>5, <1>12, <3>1
    <3>2. CASE x # t
      BY <1>1, <1>4, <1>12, <3>2 DEF Listed
    <3> QED
      BY <3>1, <3>2
  <2>3. m_queue_tail' = longer[Len(longer)] /\ m_next'[longer[Len(longer)]] = NoQueue
    BY <1>1, <1>3, <1>9, <1>10 DEF Listed
  <2>4. \A x \in LogThreads : ~InOrder(longer, x) => m_next'[x] = NoQueue
    BY <1>1, <1>3, <1>12 DEF Listed
  <2>5. ASSUME NEW i \in DOMAIN longer
        PROVE  Leads(longer, i)'
    <3>1. CASE i \in 1 .. n
      <4>1. Leads(order, i) /\ longer[i] = order[i] /\ caller'[order[i]] = caller[order[i]]
        BY <1>1, <1>4, <1>9, <1>11, <3>1 DEF Listed
      <4>2. i # 1 => longer[i - 1] = order[i - 1]
        BY <1>9, <3>1
      <4> QED
        BY <1>3, <4>1, <4>2 DEF Leads, Linked
    <3>2. CASE i = n + 1
      <4>1. longer[i] = t /\ ~Linked(t)'
        BY <1>5, <1>9, <3>2 DEF Linked
      <4>2. CASE n = 0
        <5>1. order = <<>> /\ i = 1
          BY <1>1, <3>2, <4>2 DEF n
        <5> QED
          BY <1>1, <1>3, <1>5, <4>1, <5>1 DEF Leads, Listed
      <4>3. CASE n # 0
        <5>1. order # <<>> /\ i # 1 /\ i - 1 = n /\ n \in 1 .. n /\ longer[n] = order[n]
          BY <1>1, <1>9, <3>2, <4>3 DEF n
        <5>2. m_queue_tail = order[n] /\ m_next[order[n]] = NoQueue
          BY <1>1, <5>1 DEF Listed, n
        <5> QED
          BY <1>3, <1>5, <4>1, <5>1, <5>2 DEF Leads
      <4> QED
        BY <4>2, <4>3
    <3> QED
      BY <1>9, <3>1, <3>2
  <2>6. sink'.queue # NoQueue => InOrder(longer, sink'.queue)
    BY <1>1, <1>3, <1>9 DEF Listed, InOrder
  <2>7. sink'.at = "drain" => sink'.queue # NoQueue
    BY <1>1, <1>3 DEF Listed
  <2> QED
    BY <1>9, <2>1, <2>2, <2>3, <2>4, <2>5, <2>6, <2>7 DEF Listed, InOrder
<1>14. Visited(longer)'
  BY <1>5, VisitedBusy
<1> QED
  BY <1>7, <1>8, <1>9, <1>13, <1>14 DEF LogHolds, longer

LEMMA LinkQueueHolds ==
  ASSUME NEW order, LogHolds(order), NEW t \in LogThreads, LinkQueue(t)
  PROVE  LogHolds(order)'
<1>1. /\ LogTyped /\ Numbered /\ order \in Seq(LogThreads) /\ Listed(order)
      /\ Len(order) \in Nat /\ DOMAIN order = 1 .. Len(order) /\ \A i \in DOMAIN order : order[i] \in LogThreads
  BY DEF LogHolds
<1>2. Goes(t, "link", "read") /\ LogTyped /\ "read" \in {"idle", "append", "link", "read", "lose", "store", "post"}
  BY <1>1 DEF LinkQueue
<1>3. /\ caller[t].at = "link" /\ caller'[t].at = "read" /\ caller'[t].number = caller[t].number
      /\ caller'[t].before = caller[t].before /\ \A x \in LogThreads \ {t} : caller'[x] = caller[x]
      /\ caller' \in [LogThreads -> CallerStates]
  BY <1>2, CallerMoves
<1>4. /\ ring' = ring /\ printed' = printed /\ lost' = lost /\ reported' = reported
      /\ permits' = permits /\ sink' = sink /\ m_queue_tail' = m_queue_tail
  BY DEF LinkQueue, output
<1>5. caller[t].number > 0
  BY <1>1, <1>3, BegunPositive DEF Begun
<1>6. PICK i \in DOMAIN order : order[i] = t
  BY <1>1, <1>3, <1>5 DEF Listed, InOrder
<1>7. \A j \in DOMAIN order : order[j] = t => j = i
  BY <1>1, <1>6 DEF Listed
<1>8. Leads(order, i) /\ ~Linked(t)
  BY <1>1, <1>3, <1>6 DEF Listed, Linked
<1>9. /\ i = 1 => caller[t].before = NoQueue /\ m_queue_head' = t /\ m_next' = m_next
      /\ i # 1 => /\ i - 1 \in DOMAIN order /\ caller[t].before = order[i - 1]
                  /\ m_queue_head' = m_queue_head /\ m_next' = [m_next EXCEPT ![order[i - 1]] = t]
  <2>1. CASE i = 1
    BY <1>6, <1>8, <2>1 DEF Leads, LinkQueue
  <2>2. CASE i # 1
    <3>1. i - 1 \in DOMAIN order
      BY <1>1, <1>6, <2>2
    <3>2. caller[t].before = order[i - 1] /\ order[i - 1] \in LogThreads
      BY <1>1, <1>6, <1>8, <2>2, <3>1 DEF Leads
    <3>3. caller[t].before # NoQueue
      BY <3>2, LogAssumption
    <3> QED
      BY <2>2, <3>1, <3>2, <3>3 DEF LinkQueue
  <2> QED
    BY <2>1, <2>2
<1>10. /\ m_queue_head' \in Queues /\ m_next' \in [LogThreads -> Queues]
       /\ i # 1 => m_next'[order[i - 1]] = t
       /\ \A x \in LogThreads : (i = 1 \/ x # order[i - 1]) => m_next'[x] = m_next[x]
       /\ i # 1 => m_queue_head' = m_queue_head
  <2>1. m_queue_head \in Queues /\ m_next \in [LogThreads -> Queues] /\ t \in Queues
    BY <1>1 DEF LogTyped, Queues
  <2>2. CASE i = 1
    BY <1>9, <2>1, <2>2
  <2>3. CASE i # 1
    <3>1. order[i - 1] \in LogThreads
      BY <1>1, <1>9, <2>3
    <3> QED
      BY <1>9, <2>1, <2>3, <3>1
  <2> QED
    BY <2>2, <2>3
<1>11. LogTyped'
  BY <1>1, <1>3, <1>4, <1>10 DEF LogTyped
<1>12. Numbered'
  <2>1. \A x \in LogThreads : Begun(x)' = Begun(x) /\ caller'[x].number = caller[x].number
    BY <1>3 DEF Begun
  <2> QED
    BY <1>1, <1>4, <2>1, NumberedSame DEF Kept, Gone
<1>13. Listed(order)'
  <2>1. \A x \in LogThreads : InOrder(order, x) <=> (caller'[x].number > 0 /\ caller'[x].at # "append")
    BY <1>1, <1>3 DEF Listed
  <2>2. /\ order # <<>> /\ m_queue_tail' = order[Len(order)]
        /\ m_next'[order[Len(order)]] = NoQueue
    <3>1. order # <<>> /\ Len(order) \in DOMAIN order
      BY <1>1, <1>6
    <3>2. i # 1 => order[Len(order)] # order[i - 1]
      <4> SUFFICES ASSUME i # 1, order[Len(order)] = order[i - 1]
                   PROVE  FALSE
        OBVIOUS
      <4>1. Len(order) = i - 1
        BY <1>1, <1>9, <3>1 DEF Listed
      <4> QED
        BY <1>1, <1>6, <4>1
    <3> QED
      BY <1>1, <1>4, <1>10, <3>1, <3>2 DEF Listed
  <2>3. \A x \in LogThreads : ~InOrder(order, x) => m_next'[x] = NoQueue
    <3> SUFFICES ASSUME NEW x \in LogThreads, ~InOrder(order, x)
                 PROVE  m_next'[x] = NoQueue
      OBVIOUS
    <3>1. i = 1 \/ x # order[i - 1]
      BY <1>9 DEF InOrder
    <3> QED
      BY <1>1, <1>10, <3>1 DEF Listed
  <2>4. ASSUME NEW j \in DOMAIN order
        PROVE  Leads(order, j)'
    <3>1. CASE j = i
      BY <1>3, <1>6, <1>9, <1>10, <3>1 DEF Leads, Linked
    <3>2. CASE j # i
      <4>1. Leads(order, j) /\ caller'[order[j]] = caller[order[j]]
        BY <1>1, <1>3, <1>7, <3>2 DEF Listed
      <4>2. CASE j = 1
        BY <1>10, <3>2, <4>1, <4>2 DEF Leads, Linked
      <4>3. CASE j # 1
        <5>1. j - 1 \in DOMAIN order /\ order[j - 1] \in LogThreads
          BY <1>1, <4>3
        <5>2. i # 1 => order[j - 1] # order[i - 1]
          <6> SUFFICES ASSUME i # 1, order[j - 1] = order[i - 1]
                       PROVE  FALSE
            OBVIOUS
          <6>1. j - 1 = i - 1
            BY <1>1, <1>9, <5>1 DEF Listed
          <6> QED
            BY <1>1, <3>2, <6>1
        <5>3. m_next'[order[j - 1]] = m_next[order[j - 1]]
          BY <1>10, <5>1, <5>2
        <5> QED
          BY <4>1, <4>3, <5>3 DEF Leads, Linked
      <4> QED
        BY <4>2, <4>3
    <3> QED
      BY <3>1, <3>2
  <2>5. /\ sink'.queue # NoQueue => InOrder(order, sink'.queue)
        /\ sink'.at = "drain" => sink'.queue # NoQueue
    BY <1>1, <1>4 DEF Listed
  <2> QED
    BY <1>1, <2>1, <2>2, <2>3, <2>4, <2>5 DEF Listed, InOrder
<1>14. Visited(order)'
  BY <1>3, VisitedBusy
<1> QED
  BY <1>1, <1>11, <1>12, <1>13, <1>14 DEF LogHolds

LEMMA LogInitHolds ==
  ASSUME LogInit
  PROVE  LogInv
<1>1. LogTyped
  <2>1. [at |-> "idle", number |-> 0, before |-> NoQueue] \in CallerStates
    BY DEF CallerStates, Queues
  <2>2. [at |-> "check", queue |-> NoQueue] \in SinkStates
    BY DEF SinkStates, Queues
  <2>3. <<>> \in Seq(Nat) /\ NoQueue \in Queues
    BY DEF Queues
  <2> QED
    BY <2>1, <2>2, <2>3 DEF LogInit, LogTyped
<1>2. \A t \in LogThreads : /\ ring[t] = <<>> /\ printed[t] = <<>> /\ lost[t] = 0 /\ reported[t] = 0
                            /\ caller[t] = [at |-> "idle", number |-> 0, before |-> NoQueue]
  BY DEF LogInit
<1>3. Numbered
  <2>1. \A t \in LogThreads : Kept(t) = <<>> /\ Gone(t) = 0 /\ Begun(t) = 0 /\ caller[t].number = 0
    <3> SUFFICES ASSUME NEW t \in LogThreads
                 PROVE  Kept(t) = <<>> /\ Gone(t) = 0 /\ Begun(t) = 0 /\ caller[t].number = 0
      OBVIOUS
    <3>1. caller[t].at = "idle" /\ caller[t].number = 0
      BY <1>2
    <3>2. <<>> \o <<>> = <<>>
      OBVIOUS
    <3> QED
      BY <1>2, <3>1, <3>2 DEF Kept, Gone, Begun
  <2>2. Counted(<<>>, 0, 0, 0)
    BY DEF Counted
  <2> QED
    BY <2>1, <2>2 DEF Numbered
<1>4. <<>> \in Seq(LogThreads) /\ Listed(<<>>)
  <2>1. DOMAIN <<>> = {}
    OBVIOUS
  <2>2. sink.queue = NoQueue /\ sink.at = "check" /\ m_queue_head = NoQueue /\ m_queue_tail = NoQueue
    BY DEF LogInit
  <2>3. \A t \in LogThreads : ~InOrder(<<>>, t) /\ m_next[t] = NoQueue /\ ~(caller[t].number > 0)
    <3> SUFFICES ASSUME NEW t \in LogThreads
                 PROVE  ~InOrder(<<>>, t) /\ m_next[t] = NoQueue /\ ~(caller[t].number > 0)
      OBVIOUS
    <3>1. caller[t].number = 0
      BY <1>2
    <3>2. m_next[t] = NoQueue
      BY DEF LogInit
    <3>3. ~InOrder(<<>>, t)
      BY <2>1 DEF InOrder
    <3> QED
      BY <3>1, <3>2, <3>3
  <2> QED
    BY <2>1, <2>2, <2>3 DEF Listed
<1>5. Visited(<<>>)
  BY DEF Visited
<1> QED
  BY <1>1, <1>3, <1>4, <1>5 DEF LogInv

LEMMA LogNextHolds ==
  ASSUME LogInv, [LogNext]_logVars
  PROVE  LogInv'
<1>1. PICK order \in Seq(LogThreads) : Listed(order) /\ Visited(order)
  BY DEF LogInv
<1>2. LogHolds(order)
  BY <1>1 DEF LogInv, LogHolds
<1>3. SUFFICES \E other : LogHolds(other)'
  BY DEF LogHolds, LogInv
<1>4. CASE UNCHANGED logVars
  <2>1. UNCHANGED logVars
    BY <1>4
  <2>2. LogHolds(order)'
    BY <1>2, <2>1 DEF logVars, LogHolds, LogTyped, Numbered, Kept, Begun, Gone, Listed, InOrder, Leads, Linked,
       Visited, Quiet, Drained, OnTheWay
  <2> QED
    BY <2>2
<1>5. ASSUME NEW t \in LogThreads, LogLine(t) \/ Logging(t)
      PROVE  \E other : LogHolds(other)'
  <2>1. CASE AppendQueue(t)
    BY <1>2, <2>1, AppendQueueHolds
  <2>2. CASE LogLine(t)
    BY <1>2, <2>2, LogLineHolds
  <2>3. CASE LinkQueue(t)
    BY <1>2, <2>3, LinkQueueHolds
  <2>4. CASE ReadIndices(t)
    BY <1>2, <2>4, ReadIndicesHolds
  <2>5. CASE LoseMessage(t)
    BY <1>2, <2>5, LoseMessageHolds
  <2>6. CASE StoreMessage(t)
    BY <1>2, <2>6, StoreMessageHolds
  <2>7. CASE Post(t)
    BY <1>2, <2>7, PostHolds
  <2> QED
    BY <1>5, <2>1, <2>2, <2>3, <2>4, <2>5, <2>6, <2>7 DEF Logging
<1>6. CASE StopSink
  BY <1>2, <1>6, StopSinkHolds
<1>7. CASE WakeSink
  BY <1>2, <1>7, WakeSinkHolds
<1>8. CASE Sink
  <2>1. CASE CheckRunning
    BY <1>2, <2>1, CheckRunningHolds
  <2>2. CASE TakePermit
    BY <1>2, <2>2, TakePermitHolds
  <2>3. CASE SinkExits
    BY <1>2, <2>3, SinkExitsHolds
  <2>4. CASE ReportLost
    BY <1>2, <2>4, ReportLostHolds
  <2>5. CASE PrintMessage
    BY <1>2, <2>5, PrintMessageHolds
  <2>6. CASE NextQueue
    BY <1>2, <2>6, NextQueueHolds
  <2>7. CASE WalkEnds
    BY <1>2, <2>7, WalkEndsHolds
  <2> QED
    BY <1>8, <2>1, <2>2, <2>3, <2>4, <2>5, <2>6, <2>7 DEF Sink
<1> QED
  BY <1>4, <1>5, <1>6, <1>7, <1>8 DEF LogNext

LEMMA LogInvAccounts ==
  ASSUME LogInv
  PROVE  MessagesAccounted
<1>1. ASSUME NEW t \in LogThreads
      PROVE  /\ \A i, j \in DOMAIN Kept(t) : i < j => Kept(t)[i] < Kept(t)[j]
             /\ Len(Kept(t)) + reported[t] + lost[t] + Begun(t) = caller[t].number
  <2>1. Counted(Kept(t), Begun(t), Gone(t), caller[t].number) /\ LogTyped
    BY DEF LogInv, Numbered
  <2>2. Len(Kept(t)) \in Nat /\ Begun(t) \in Nat /\ reported[t] \in Nat /\ lost[t] \in Nat
    BY <2>1, KeptFacts, CallerFacts
  <2>3. Len(Kept(t)) + (reported[t] + lost[t]) + Begun(t) = caller[t].number
    BY <2>1 DEF Counted, Gone
  <2>4. Len(Kept(t)) + reported[t] + lost[t] + Begun(t) = caller[t].number
    BY <2>2, <2>3
  <2> QED
    BY <2>1, <2>4 DEF Counted
<1>2. ASSUME sink.at = "try", permits = 0, \A t \in LogThreads : caller[t].at = "idle", NEW t \in LogThreads
      PROVE  Drained(t)
  <2>1. PICK order \in Seq(LogThreads) : Listed(order) /\ Visited(order)
    BY DEF LogInv
  <2>2. Quiet /\ \A i \in DOMAIN order : ~OnTheWay(order, i)
    BY <1>2 DEF Quiet, OnTheWay
  <2>3. \A i \in DOMAIN order : Drained(order[i])
    BY <2>1, <2>2 DEF Visited
  <2>4. CASE InOrder(order, t)
    BY <2>3, <2>4 DEF InOrder
  <2>5. CASE ~InOrder(order, t)
    <3>1. LogTyped /\ Counted(Kept(t), Begun(t), Gone(t), caller[t].number)
      BY DEF LogInv, Numbered
    <3>2. caller[t].number = 0 /\ caller[t].number \in Nat
      BY <1>2, <2>1, <2>5, <3>1, CallerFacts DEF Listed
    <3>3. Len(Kept(t)) \in Nat /\ Begun(t) \in Nat /\ reported[t] \in Nat /\ lost[t] \in Nat /\ Kept(t) \in Seq(Nat)
      BY <3>1, KeptFacts, CallerFacts
    <3>4. Len(Kept(t)) + Gone(t) + Begun(t) = 0
      BY <3>1, <3>2 DEF Counted
    <3>5. Len(Kept(t)) = 0 /\ lost[t] = 0
      BY <3>3, <3>4 DEF Gone
    <3>6. Kept(t) = <<>>
      BY <3>3, <3>5
    <3>7. ring[t] = <<>>
      BY <3>1, <3>6, KeptFacts
    <3> QED
      BY <3>5, <3>7 DEF Drained
  <2> QED
    BY <2>4, <2>5
<1> QED
  BY <1>1, <1>2 DEF MessagesAccounted

(* The log: however many threads log, whatever the size of the rings, and  *)
(* wherever the sink is in the list when a queue is linked to it, every    *)
(* message is printed, kept, or counted as lost, once and in its order,    *)
(* and a sink that finds no permit left has emptied every queue, if nobody *)
(* is logging (core/log.cc).                                               *)
THEOREM LogAccounts == LogSpec => []MessagesAccounted
<1>1. LogInit => LogInv
  BY LogInitHolds
<1>2. LogInv /\ [LogNext]_logVars => LogInv'
  BY LogNextHolds
<1>3. LogInv => MessagesAccounted
  BY LogInvAccounts
<1> QED
  BY <1>1, <1>2, <1>3, PTL DEF LogSpec

-----------------------------------------------------------------------------
(* The hash set of any elements and any hash function. *)

(* Induction up to a bound, over the numbers that have a property. *)
LEMMA CountingUp ==
  ASSUME NEW b \in Nat, NEW S \in SUBSET (0 .. b), 0 \in S, \A n \in S : n < b => n + 1 \in S
  PROVE  \A n \in 0 .. b : n \in S
<1> DEFINE T == (0 .. b) \ S
           Below == {ss \in Nat \X Nat : ss[1] < ss[2]}
<1>1. Below = OpToRel(<, Nat)
  BY DEF OpToRel
<1>2. IsWellFoundedOn(Below, Nat)
  BY NatLessThanWellFounded, <1>1
<1>3. \A m, n \in Nat : <<m, n>> \in Below <=> m < n
  OBVIOUS
<1> HIDE DEF Below
<1>4. ASSUME T # {} PROVE FALSE
  <2>1. T \in SUBSET Nat
    OBVIOUS
  <2>2. PICK n \in T : \A m \in T : ~(<<m, n>> \in Below)
    BY <1>2, <1>4, <2>1, WFMin
  <2>3. n \in 0 .. b /\ n \notin S /\ n # 0
    BY <2>2
  <2>4. n - 1 \in 0 .. b /\ n - 1 < n
    BY <2>3
  <2>5. n - 1 \in S
    <3>1. PICK m \in 0 .. b : m = n - 1
      BY <2>4
    <3>2. <<m, n>> \in Below
      BY <1>3, <2>3, <2>4, <3>1
    <3>3. m \notin T
      BY <2>2, <3>2
    <3> QED
      BY <3>1, <3>3
  <2> QED
    BY <2>3, <2>4, <2>5
<1> QED
  BY <1>4

(* There is a function for a recursion over the numbers up to a bound. *)
Recursion(b, V, start, next) == b \in Nat /\ start \in V /\ next \in [(1 .. b) \X V -> V]
Computes(f, b, V, start, next) ==
  f \in [0 .. b -> V] /\ f[0] = start /\ \A n \in 1 .. b : f[n] = next[<<n, f[n - 1]>>]

LEMMA RecursionExists ==
  ASSUME NEW b, NEW V, NEW start, NEW next, Recursion(b, V, start, next)
  PROVE  \E f : Computes(f, b, V, start, next)
<1> USE DEF Recursion
<1> DEFINE Follows(f, n) == f \in [0 .. n -> V] /\ f[0] = start /\ \A k \in 1 .. n : f[k] = next[<<k, f[k - 1]>>]
           S == {n \in 0 .. b : \E f : Follows(f, n)}
<1>1. 0 \in S
  <2>1. Follows([n \in 0 .. 0 |-> start], 0)
    OBVIOUS
  <2> HIDE DEF Follows
  <2>2. \E f : Follows(f, 0)
    BY <2>1
  <2> QED
    BY <2>2
<1>2. ASSUME NEW n \in S, n < b PROVE n + 1 \in S
  <2>1. PICK f : Follows(f, n)
    OBVIOUS
  <2> DEFINE g == [k \in 0 .. n + 1 |-> IF k = n + 1 THEN next[<<n + 1, f[n]>>] ELSE f[k]]
  <2>2. n \in Nat /\ n + 1 \in 1 .. b
    BY <1>2
  <2>3. next[<<n + 1, f[n]>>] \in V
    BY <2>1, <2>2
  <2>4. g \in [0 .. n + 1 -> V]
    BY <2>1, <2>2, <2>3
  <2>5. g[0] = start
    BY <2>1, <2>2
  <2>6. \A k \in 1 .. n + 1 : g[k] = next[<<k, g[k - 1]>>]
    <3>1. ASSUME NEW k \in 1 .. n PROVE g[k] = next[<<k, g[k - 1]>>]
      <4>1. k \in 0 .. n + 1 /\ k # n + 1 /\ k - 1 \in 0 .. n + 1 /\ k - 1 # n + 1
        BY <2>2
      <4>2. g[k] = f[k] /\ g[k - 1] = f[k - 1]
        BY <4>1
      <4> QED
        BY <2>1, <4>2
    <3>2. g[n + 1] = next[<<n + 1, g[n]>>]
      <4>1. n + 1 \in 0 .. n + 1 /\ n \in 0 .. n + 1 /\ n # n + 1
        BY <2>2
      <4>2. g[n + 1] = next[<<n + 1, f[n]>>] /\ g[n] = f[n]
        BY <4>1
      <4> QED
        BY <4>2
    <3>3. \A k \in 1 .. n + 1 : k \in 1 .. n \/ (k = n + 1 /\ k - 1 = n)
      BY <2>2
    <3> QED
      BY <3>1, <3>2, <3>3
  <2>7. Follows(g, n + 1)
    BY <2>4, <2>5, <2>6
  <2> HIDE DEF Follows, g
  <2>8. \E h : Follows(h, n + 1)
    BY <2>7
  <2>9. n + 1 \in 0 .. b
    BY <2>2
  <2> QED
    BY <2>8, <2>9
<1>3. b \in S
  <2>1. S \in SUBSET (0 .. b) /\ b \in 0 .. b
    OBVIOUS
  <2> HIDE DEF S
  <2> QED
    BY <1>1, <1>2, <2>1, CountingUp
<1> QED
  BY <1>3 DEF Computes

(* The chains of a set: each has the elements that lead to it, once. *)
RootOf(e, capacity) == (HashOf[e] % capacity) + 1
ChainsOf(buckets, S) ==
  /\ buckets \in Seq(Seq(Elements)) /\ S \subseteq Elements /\ (S # {} => Len(buckets) > 0)
  /\ \A i \in 1 .. Len(buckets) :
       /\ \A k \in 1 .. Len(buckets[i]) : buckets[i][k] \in S /\ RootOf(buckets[i][k], Len(buckets)) = i
       /\ \A k, l \in 1 .. Len(buckets[i]) : buckets[i][k] = buckets[i][l] => k = l
  /\ \A e \in S : \E k \in 1 .. Len(buckets[RootOf(e, Len(buckets))]) : buckets[RootOf(e, Len(buckets))][k] = e

LEMMA RootIs == ASSUME NEW e \in Elements, NEW capacity \in Nat, capacity > 0 PROVE RootOf(e, capacity) \in 1 .. capacity
<1>1. HashOf[e] \in Nat
  BY SetAssumption
<1>2. HashOf[e] % capacity \in 0 .. capacity - 1
  BY <1>1
<1> QED
  BY <1>2 DEF RootOf

LEMMA InsertedChains ==
  ASSUME NEW buckets, NEW S, ChainsOf(buckets, S), Len(buckets) > 0, NEW e \in Elements, e \notin S
  PROVE  ChainsOf(Inserted(buckets, e), S \cup {e}) /\ Len(Inserted(buckets, e)) = Len(buckets)
<1> DEFINE r == RootOf(e, Len(buckets))
           chain == Append(buckets[r], e)
           new == Inserted(buckets, e)
<1>1. buckets \in Seq(Seq(Elements)) /\ Len(buckets) \in Nat /\ S \subseteq Elements
  BY DEF ChainsOf
<1>2. r \in 1 .. Len(buckets)
  BY <1>1, RootIs
<1>3. buckets[r] \in Seq(Elements) /\ Len(buckets[r]) \in Nat
  BY <1>1, <1>2
<1>4. new = [buckets EXCEPT ![r] = chain]
  BY DEF Inserted, Root, RootOf
<1>5. chain \in Seq(Elements) /\ Len(chain) = Len(buckets[r]) + 1 /\ chain[Len(buckets[r]) + 1] = e
      /\ \A k \in 1 .. Len(buckets[r]) : chain[k] = buckets[r][k]
  BY <1>3
<1> HIDE DEF chain, r, new
<1>6. new \in Seq(Seq(Elements)) /\ Len(new) = Len(buckets) /\ new[r] = chain /\ \A i \in 1 .. Len(buckets) : i # r => new[i] = buckets[i]
  BY <1>1, <1>2, <1>4, <1>5
<1>7. ASSUME NEW i \in 1 .. Len(buckets)
      PROVE  /\ \A k \in 1 .. Len(new[i]) : new[i][k] \in S \cup {e} /\ RootOf(new[i][k], Len(buckets)) = i
             /\ \A k, l \in 1 .. Len(new[i]) : new[i][k] = new[i][l] => k = l
  <2>1. CASE i # r
    <3>1. new[i] = buckets[i]
      BY <1>6, <2>1
    <3>2. \A k \in 1 .. Len(buckets[i]) : buckets[i][k] \in S /\ RootOf(buckets[i][k], Len(buckets)) = i
      BY DEF ChainsOf
    <3>3. \A k, l \in 1 .. Len(buckets[i]) : buckets[i][k] = buckets[i][l] => k = l
      BY DEF ChainsOf
    <3> QED
      BY <3>1, <3>2, <3>3
  <2>2. CASE i = r
    <3>1. new[i] = chain /\ \A k \in 1 .. Len(chain) : k \in 1 .. Len(buckets[r]) \/ k = Len(buckets[r]) + 1
      BY <1>3, <1>5, <1>6, <2>2
    <3>2. \A k \in 1 .. Len(buckets[r]) : buckets[r][k] \in S /\ RootOf(buckets[r][k], Len(buckets)) = r /\ buckets[r][k] # e
      <4>1. \A k \in 1 .. Len(buckets[r]) : buckets[r][k] \in S /\ RootOf(buckets[r][k], Len(buckets)) = r
        BY <1>2 DEF ChainsOf
      <4> QED
        BY <4>1
    <3>3. \A k, l \in 1 .. Len(buckets[r]) : buckets[r][k] = buckets[r][l] => k = l
      BY <1>2 DEF ChainsOf
    <3>4. RootOf(e, Len(buckets)) = i
      BY <2>2 DEF r
    <3> QED
      BY <1>5, <2>2, <3>1, <3>2, <3>3, <3>4
  <2> QED
    BY <2>1, <2>2
<1>8. ASSUME NEW x \in S \cup {e} PROVE \E k \in 1 .. Len(new[RootOf(x, Len(buckets))]) : new[RootOf(x, Len(buckets))][k] = x
  <2>1. CASE x = e
    <3>1. RootOf(x, Len(buckets)) = r /\ Len(chain) \in 1 .. Len(chain) /\ chain[Len(chain)] = e
      BY <1>3, <1>5, <2>1 DEF r
    <3> QED
      BY <1>6, <2>1, <3>1
  <2>2. CASE x # e
    <3> DEFINE q == RootOf(x, Len(buckets))
    <3>1. x \in S /\ x \in Elements
      BY <1>1, <2>2
    <3>2. q \in 1 .. Len(buckets)
      BY <1>1, <3>1, RootIs
    <3>3. PICK k \in 1 .. Len(buckets[q]) : buckets[q][k] = x
      BY <3>1 DEF ChainsOf
    <3> HIDE DEF q
    <3>4. k \in 1 .. Len(new[q]) /\ new[q][k] = x
      BY <1>3, <1>5, <1>6, <3>2, <3>3
    <3> QED
      BY <3>4 DEF q
  <2> QED
    BY <2>1, <2>2
<1>9. S \cup {e} \subseteq Elements /\ Len(new) > 0
  BY <1>1, <1>6
<1>10. ChainsOf(new, S \cup {e})
  <2>1. \A i \in 1 .. Len(new) :
          /\ \A k \in 1 .. Len(new[i]) : new[i][k] \in S \cup {e} /\ RootOf(new[i][k], Len(new)) = i
          /\ \A k, l \in 1 .. Len(new[i]) : new[i][k] = new[i][l] => k = l
    BY <1>6, <1>7
  <2>2. \A x \in S \cup {e} :
          \E k \in 1 .. Len(new[RootOf(x, Len(new))]) : new[RootOf(x, Len(new))][k] = x
    BY <1>6, <1>8
  <2>3. new \in Seq(Seq(Elements))
    BY <1>6
  <2> QED
    BY <1>9, <2>1, <2>2, <2>3 DEF ChainsOf
<1> QED
  BY <1>6, <1>10 DEF new

LEMMA Joined ==
  ASSUME NEW S, NEW s \in Seq(S), NEW t \in Seq(S)
  PROVE  /\ s \o t \in Seq(S) /\ Len(s \o t) = Len(s) + Len(t)
         /\ \A n \in 1 .. Len(s) : (s \o t)[n] = s[n]
         /\ \A n \in 1 .. Len(t) : (s \o t)[Len(s) + n] = t[n]
         /\ \A n \in 1 .. Len(s \o t) : n \in 1 .. Len(s) \/ \E k \in 1 .. Len(t) : n = Len(s) + k
<1>1. s \o t \in Seq(S) /\ Len(s \o t) = Len(s) + Len(t) /\ Len(s) \in Nat /\ Len(t) \in Nat
  OBVIOUS
<1>2. \A n \in 1 .. Len(s) : (s \o t)[n] = s[n]
  OBVIOUS
<1>3. \A n \in 1 .. Len(t) : (s \o t)[Len(s) + n] = t[n]
  OBVIOUS
<1>4. ASSUME NEW n \in 1 .. Len(s \o t), n \notin 1 .. Len(s) PROVE \E k \in 1 .. Len(t) : n = Len(s) + k
  <2>1. n - Len(s) \in 1 .. Len(t) /\ n = Len(s) + (n - Len(s))
    BY <1>1, <1>4
  <2> QED
    BY <2>1
<1> QED
  BY <1>1, <1>2, <1>3, <1>4

(* The iteration meets each element once. *)
LEMMA IterationOfChains ==
  ASSUME NEW buckets, NEW S, ChainsOf(buckets, S)
  PROVE  /\ Iteration(buckets) \in Seq(Elements)
         /\ \A k \in 1 .. Len(Iteration(buckets)) : Iteration(buckets)[k] \in S
         /\ \A k, l \in 1 .. Len(Iteration(buckets)) : Iteration(buckets)[k] = Iteration(buckets)[l] => k = l
         /\ \A e \in S : \E k \in 1 .. Len(Iteration(buckets)) : Iteration(buckets)[k] = e
<1> DEFINE b == Len(buckets)
           passed[n \in 0 .. Len(buckets)] == IF n = 0 THEN <<>> ELSE passed[n - 1] \o buckets[n]
<1>1. buckets \in Seq(Seq(Elements)) /\ b \in Nat /\ S \subseteq Elements
  BY DEF ChainsOf
<1>2. \A n \in 1 .. b : buckets[n] \in Seq(Elements)
  BY <1>1
<1>3. \E f : f = [n \in 0 .. Len(buckets) |-> IF n = 0 THEN <<>> ELSE f[n - 1] \o buckets[n]]
  <2> DEFINE next == [x \in (1 .. b) \X Seq(Elements) |-> x[2] \o buckets[x[1]]]
  <2>1. next \in [(1 .. b) \X Seq(Elements) -> Seq(Elements)]
    <3>1. ASSUME NEW x \in (1 .. b) \X Seq(Elements) PROVE x[2] \o buckets[x[1]] \in Seq(Elements)
      <4>1. x[2] \in Seq(Elements) /\ buckets[x[1]] \in Seq(Elements)
        BY <1>2
      <4> QED
        BY <4>1, Joined
    <3> QED
      BY <3>1
  <2>2. <<>> \in Seq(Elements)
    OBVIOUS
  <2>3. PICK f \in [0 .. b -> Seq(Elements)] : f[0] = <<>> /\ \A n \in 1 .. b : f[n] = next[<<n, f[n - 1]>>]
    <3> HIDE DEF next, b
    <3>1. Recursion(b, Seq(Elements), <<>>, next)
      BY <1>1, <2>1, <2>2 DEF Recursion
    <3>2. \E f : Computes(f, b, Seq(Elements), <<>>, next)
      BY <3>1, RecursionExists
    <3> QED
      BY <3>2 DEF Computes
  <2>4. \A n \in 1 .. b : f[n] = f[n - 1] \o buckets[n]
    <3> SUFFICES ASSUME NEW n \in 1 .. b PROVE f[n] = f[n - 1] \o buckets[n]
      OBVIOUS
    <3>1. n - 1 \in 0 .. b
      BY <1>1
    <3>2. f[n - 1] \in Seq(Elements)
      BY <3>1
    <3>3. next[<<n, f[n - 1]>>] = f[n - 1] \o buckets[n]
      BY <3>2
    <3> QED
      BY <2>3, <3>3
  <2>5. \A n \in 0 .. b : n = 0 \/ n \in 1 .. b
    BY <1>1
  <2>6. f = [n \in 0 .. b |-> IF n = 0 THEN <<>> ELSE f[n - 1] \o buckets[n]]
    BY <2>3, <2>4, <2>5
  <2> QED
    BY <2>6
<1>4. passed = [n \in 0 .. Len(buckets) |-> IF n = 0 THEN <<>> ELSE passed[n - 1] \o buckets[n]]
  BY <1>3, Zenon
<1>5. Iteration(buckets) = passed[b]
  BY DEF Iteration
<1> HIDE DEF passed
<1>6. passed[0] = <<>> /\ \A n \in 1 .. b : passed[n] = passed[n - 1] \o buckets[n]
  <2>1. 0 \in 0 .. b /\ \A n \in 1 .. b : n \in 0 .. b /\ n # 0
    BY <1>1
  <2> QED
    BY <1>4, <2>1
<1> DEFINE Met(n) ==
      /\ passed[n] \in Seq(Elements)
      /\ \A k \in 1 .. Len(passed[n]) : passed[n][k] \in S /\ RootOf(passed[n][k], b) <= n
      /\ \A k, l \in 1 .. Len(passed[n]) : passed[n][k] = passed[n][l] => k = l
      /\ \A e \in S : RootOf(e, b) <= n => \E k \in 1 .. Len(passed[n]) : passed[n][k] = e
           P == {n \in 0 .. b : Met(n)}
<1>7. \A e \in S : RootOf(e, b) \in 1 .. b
  BY <1>1, RootIs DEF ChainsOf
<1>8. 0 \in P
  <2>1. \A e \in S : ~(RootOf(e, b) <= 0)
    BY <1>1, <1>7
  <2>2. Met(0)
    BY <1>6, <2>1
  <2>3. 0 \in 0 .. b
    BY <1>1
  <2> QED
    BY <2>2, <2>3
<1>9. ASSUME NEW n \in P, n < b PROVE n + 1 \in P
  <2> DEFINE s == passed[n]
             t == buckets[n + 1]
  <2>1. Met(n) /\ n \in 0 .. b
    OBVIOUS
  <2>2. n \in Nat /\ n + 1 \in 1 .. b /\ n + 1 \in 0 .. b
    BY <1>1, <1>9, <2>1
  <2>3. passed[n + 1] = s \o t
    <3>1. (n + 1) - 1 = n
      BY <2>2
    <3>2. passed[n + 1] = passed[(n + 1) - 1] \o buckets[n + 1]
      BY <1>6, <2>2
    <3> QED
      BY <3>1, <3>2
  <2>4. s \in Seq(Elements) /\ t \in Seq(Elements) /\ Len(s) \in Nat /\ Len(t) \in Nat
    BY <1>2, <2>1, <2>2
  <2>5. /\ s \o t \in Seq(Elements) /\ Len(s \o t) = Len(s) + Len(t)
        /\ \A k \in 1 .. Len(s) : (s \o t)[k] = s[k]
        /\ \A k \in 1 .. Len(t) : (s \o t)[Len(s) + k] = t[k]
        /\ \A k \in 1 .. Len(s \o t) : k \in 1 .. Len(s) \/ \E l \in 1 .. Len(t) : k = Len(s) + l
    <3> HIDE DEF s, t
    <3> QED
      BY <2>4, Joined
  <2>6. /\ \A k \in 1 .. Len(s) : s[k] \in S /\ RootOf(s[k], b) <= n
        /\ \A k, l \in 1 .. Len(s) : s[k] = s[l] => k = l
        /\ \A e \in S : RootOf(e, b) <= n => \E k \in 1 .. Len(s) : s[k] = e
    BY <2>1
  <2>7. /\ \A k \in 1 .. Len(t) : t[k] \in S /\ RootOf(t[k], b) = n + 1
        /\ \A k, l \in 1 .. Len(t) : t[k] = t[l] => k = l
        /\ \A e \in S : RootOf(e, b) = n + 1 => \E k \in 1 .. Len(t) : t[k] = e
    BY <2>2 DEF ChainsOf
  <2> HIDE DEF s, t
  <2>8. \A k \in 1 .. Len(s) : \A l \in 1 .. Len(t) : s[k] # t[l]
    <3> SUFFICES ASSUME NEW k \in 1 .. Len(s), NEW l \in 1 .. Len(t), s[k] = t[l] PROVE FALSE
      OBVIOUS
    <3>1. RootOf(s[k], b) <= n /\ RootOf(s[k], b) = n + 1
      BY <2>6, <2>7
    <3> QED
      BY <2>2, <3>1
  <2>9. \A k \in 1 .. Len(s \o t) : (s \o t)[k] \in S /\ RootOf((s \o t)[k], b) <= n + 1
    <3> SUFFICES ASSUME NEW k \in 1 .. Len(s \o t) PROVE (s \o t)[k] \in S /\ RootOf((s \o t)[k], b) <= n + 1
      OBVIOUS
    <3>1. CASE k \in 1 .. Len(s)
      <4>1. (s \o t)[k] = s[k] /\ s[k] \in S /\ RootOf(s[k], b) <= n
        BY <2>5, <2>6, <3>1
      <4>2. RootOf(s[k], b) \in Nat
        BY <1>1, <1>7, <4>1
      <4>3. RootOf(s[k], b) <= n + 1
        BY <2>2, <4>1, <4>2
      <4> QED
        BY <4>1, <4>3
    <3>2. CASE \E l \in 1 .. Len(t) : k = Len(s) + l
      <4>1. (s \o t)[k] \in S /\ RootOf((s \o t)[k], b) = n + 1
        BY <2>5, <2>7, <3>2
      <4> QED
        BY <2>2, <4>1
    <3> QED
      BY <2>5, <3>1, <3>2
  <2>10. \A k, l \in 1 .. Len(s \o t) : (s \o t)[k] = (s \o t)[l] => k = l
    <3> SUFFICES ASSUME NEW k \in 1 .. Len(s \o t), NEW l \in 1 .. Len(s \o t), (s \o t)[k] = (s \o t)[l] PROVE k = l
      OBVIOUS
    <3>1. CASE k \in 1 .. Len(s) /\ l \in 1 .. Len(s)
      BY <2>5, <2>6, <3>1
    <3>2. ASSUME k \in 1 .. Len(s), NEW j \in 1 .. Len(t), l = Len(s) + j PROVE FALSE
      <4>1. (s \o t)[k] = s[k] /\ (s \o t)[l] = t[j]
        BY <2>5, <3>2
      <4> QED
        BY <2>8, <3>2, <4>1
    <3>3. ASSUME l \in 1 .. Len(s), NEW j \in 1 .. Len(t), k = Len(s) + j PROVE FALSE
      <4>1. (s \o t)[l] = s[l] /\ (s \o t)[k] = t[j]
        BY <2>5, <3>3
      <4> QED
        BY <2>8, <3>3, <4>1
    <3>4. ASSUME NEW i \in 1 .. Len(t), NEW j \in 1 .. Len(t), k = Len(s) + i, l = Len(s) + j PROVE k = l
      <4>1. (s \o t)[k] = t[i] /\ (s \o t)[l] = t[j]
        BY <2>5, <3>4
      <4>2. i = j
        BY <2>7, <4>1
      <4> QED
        BY <3>4, <4>2
    <3>5. k \in 1 .. Len(s) \/ \E i \in 1 .. Len(t) : k = Len(s) + i
      BY <2>5
    <3>6. l \in 1 .. Len(s) \/ \E j \in 1 .. Len(t) : l = Len(s) + j
      BY <2>5
    <3> QED
      BY <3>1, <3>2, <3>3, <3>4, <3>5, <3>6, Zenon
  <2>11. \A e \in S : RootOf(e, b) <= n + 1 => \E k \in 1 .. Len(s \o t) : (s \o t)[k] = e
    <3> SUFFICES ASSUME NEW e \in S, RootOf(e, b) <= n + 1 PROVE \E k \in 1 .. Len(s \o t) : (s \o t)[k] = e
      OBVIOUS
    <3>1. RootOf(e, b) \in Nat
      BY <1>1, <1>7
    <3>2. CASE RootOf(e, b) <= n
      <4>1. PICK k \in 1 .. Len(s) : s[k] = e
        BY <2>6, <3>2
      <4>2. k \in 1 .. Len(s \o t) /\ (s \o t)[k] = e
        BY <2>4, <2>5, <4>1
      <4> QED
        BY <4>2
    <3>3. CASE RootOf(e, b) = n + 1
      <4>1. PICK k \in 1 .. Len(t) : t[k] = e
        BY <2>7, <3>3
      <4>2. Len(s) + k \in 1 .. Len(s \o t) /\ (s \o t)[Len(s) + k] = e
        BY <2>4, <2>5, <4>1
      <4> QED
        BY <4>2
    <3> QED
      BY <2>2, <3>1, <3>2, <3>3
  <2>12. Met(n + 1)
    BY <2>3, <2>5, <2>9, <2>10, <2>11
  <2> QED
    BY <2>2, <2>12
<1>10. Met(b)
  <2>1. P \in SUBSET (0 .. b) /\ b \in 0 .. b
    BY <1>1
  <2> HIDE DEF P
  <2>2. b \in P
    BY <1>1, <1>8, <1>9, <2>1, CountingUp
  <2> QED
    BY <2>2 DEF P
<1>11. \A e \in S : RootOf(e, b) <= b
  BY <1>1, <1>7
<1> QED
  BY <1>5, <1>10, <1>11

LEMMA InsertedLength ==
  ASSUME NEW buckets \in Seq(Seq(Elements)), Len(buckets) > 0, NEW e \in Elements
  PROVE  Inserted(buckets, e) \in Seq(Seq(Elements)) /\ Len(Inserted(buckets, e)) = Len(buckets)
<1> DEFINE r == RootOf(e, Len(buckets))
           chain == Append(buckets[r], e)
<1>1. r \in 1 .. Len(buckets)
  BY RootIs
<1>2. Inserted(buckets, e) = [buckets EXCEPT ![r] = chain]
  BY DEF Inserted, Root, RootOf
<1>3. buckets[r] \in Seq(Elements)
  BY <1>1
<1>4. chain \in Seq(Elements)
  BY <1>3
<1> HIDE DEF r, chain
<1> QED
  BY <1>1, <1>2, <1>4

(* Rehashing loses no element and doubles none. *)
LEMMA RehashedChains ==
  ASSUME ChainsOf(m_buckets, members), NEW capacity \in Nat, capacity > 0
  PROVE  ChainsOf(Rehashed(capacity), members) /\ Len(Rehashed(capacity)) = capacity
<1> DEFINE old == Iteration(m_buckets)
           b == Len(old)
           none == [i \in 1 .. capacity |-> <<>>]
           moved[n \in 0 .. Len(old)] == IF n = 0 THEN none ELSE Inserted(moved[n - 1], old[n])
           V == {buckets \in Seq(Seq(Elements)) : Len(buckets) = capacity}
<1>1. /\ old \in Seq(Elements) /\ b \in Nat
      /\ \A k \in 1 .. b : old[k] \in members /\ old[k] \in Elements
      /\ \A k, l \in 1 .. b : old[k] = old[l] => k = l
      /\ \A e \in members : \E k \in 1 .. b : old[k] = e
      /\ members \subseteq Elements
  <2>1. /\ old \in Seq(Elements)
        /\ \A k \in 1 .. b : old[k] \in members
        /\ \A k, l \in 1 .. b : old[k] = old[l] => k = l
        /\ \A e \in members : \E k \in 1 .. b : old[k] = e
    <3> HIDE DEF b
    <3> QED
      BY IterationOfChains DEF b
  <2>2. members \subseteq Elements
    BY DEF ChainsOf
  <2> HIDE DEF old
  <2> QED
    BY <2>1, <2>2
<1> HIDE DEF old
<1>2. none \in V /\ none \in Seq(Seq(Elements)) /\ Len(none) = capacity /\ \A i \in 1 .. capacity : none[i] = <<>>
  OBVIOUS
<1> HIDE DEF none
<1>3. \E f : f = [n \in 0 .. Len(old) |-> IF n = 0 THEN none ELSE Inserted(f[n - 1], old[n])]
  <2> DEFINE next == [x \in (1 .. b) \X V |-> Inserted(x[2], old[x[1]])]
  <2>1. next \in [(1 .. b) \X V -> V]
    <3>1. ASSUME NEW x \in (1 .. b) \X V PROVE Inserted(x[2], old[x[1]]) \in V
      <4>1. x[2] \in Seq(Seq(Elements)) /\ Len(x[2]) = capacity /\ old[x[1]] \in Elements
        BY <1>1
      <4> QED
        BY <4>1, InsertedLength
    <3> QED
      BY <3>1
  <2>2. PICK f \in [0 .. b -> V] : f[0] = none /\ \A n \in 1 .. b : f[n] = next[<<n, f[n - 1]>>]
    <3> HIDE DEF next, V, b
    <3>1. Recursion(b, V, none, next)
      BY <1>1, <1>2, <2>1 DEF Recursion
    <3>2. \E f : Computes(f, b, V, none, next)
      BY <3>1, RecursionExists
    <3> QED
      BY <3>2 DEF Computes
  <2>3. \A n \in 1 .. b : f[n] = Inserted(f[n - 1], old[n])
    <3> SUFFICES ASSUME NEW n \in 1 .. b PROVE f[n] = Inserted(f[n - 1], old[n])
      OBVIOUS
    <3>1. n - 1 \in 0 .. b
      BY <1>1
    <3> HIDE DEF V
    <3>2. f[n - 1] \in V
      BY <3>1
    <3>3. next[<<n, f[n - 1]>>] = Inserted(f[n - 1], old[n])
      BY <3>2
    <3> QED
      BY <2>2, <3>3
  <2>4. \A n \in 0 .. b : n = 0 \/ n \in 1 .. b
    BY <1>1
  <2>5. f = [n \in 0 .. b |-> IF n = 0 THEN none ELSE Inserted(f[n - 1], old[n])]
    <3> HIDE DEF V, next
    <3> QED
      BY <2>2, <2>3, <2>4
  <2> QED
    BY <2>5
<1>4. moved = [n \in 0 .. Len(old) |-> IF n = 0 THEN none ELSE Inserted(moved[n - 1], old[n])]
  BY <1>3, Zenon
<1>5. Rehashed(capacity) = moved[b]
  BY DEF Rehashed, old, none
<1> HIDE DEF moved, V
<1>6. moved[0] = none /\ \A n \in 1 .. b : moved[n] = Inserted(moved[n - 1], old[n])
  <2>1. 0 \in 0 .. b /\ \A n \in 1 .. b : n \in 0 .. b /\ n # 0
    BY <1>1
  <2> QED
    BY <1>4, <2>1
<1> DEFINE First(n) == {old[k] : k \in 1 .. n}
           MovedSoFar(n) == ChainsOf(moved[n], First(n)) /\ Len(moved[n]) = capacity
           P == {n \in 0 .. b : MovedSoFar(n)}
<1>7. 0 \in P
  <2>1. First(0) = {}
    OBVIOUS
  <2> HIDE DEF First
  <2>2. ChainsOf(none, First(0))
    BY <1>2, <2>1 DEF ChainsOf
  <2>3. 0 \in 0 .. b
    BY <1>1
  <2> QED
    BY <1>2, <1>6, <2>2, <2>3
<1>8. ASSUME NEW n \in P, n < b PROVE n + 1 \in P
  <2>1. MovedSoFar(n) /\ n \in 0 .. b
    OBVIOUS
  <2>2. n \in Nat /\ n + 1 \in 1 .. b /\ n + 1 \in 0 .. b /\ (n + 1) - 1 = n
    BY <1>1, <1>8, <2>1
  <2>3. moved[n + 1] = Inserted(moved[n], old[n + 1])
    BY <1>6, <2>2
  <2>4. old[n + 1] \notin First(n)
    <3> SUFFICES ASSUME NEW k \in 1 .. n, old[k] = old[n + 1] PROVE FALSE
      OBVIOUS
    <3>1. k \in 1 .. b /\ k # n + 1
      BY <1>1, <2>1, <2>2
    <3> QED
      BY <1>1, <2>2, <3>1
  <2>5. First(n + 1) = First(n) \cup {old[n + 1]}
    <3>1. 1 .. n + 1 = (1 .. n) \cup {n + 1}
      BY <2>2
    <3> QED
      BY <3>1
  <2>6. old[n + 1] \in Elements
    BY <1>1, <2>2
  <2> HIDE DEF First
  <2>7. MovedSoFar(n + 1)
    <3> DEFINE m == moved[n]
               e == old[n + 1]
               S == First(n)
    <3>1. ChainsOf(m, S) /\ Len(m) > 0 /\ e \in Elements /\ e \notin S /\ Len(m) = capacity
      BY <2>1, <2>4, <2>6
    <3> HIDE DEF m, e, S
    <3>2. ChainsOf(Inserted(m, e), S \cup {e}) /\ Len(Inserted(m, e)) = Len(m)
      BY <3>1, InsertedChains
    <3> QED
      BY <2>3, <2>5, <3>1, <3>2 DEF m, e, S
  <2> QED
    BY <2>2, <2>7
<1>9. MovedSoFar(b)
  <2>1. P \in SUBSET (0 .. b) /\ b \in 0 .. b
    BY <1>1
  <2> HIDE DEF P, b
  <2>2. b \in P
    BY <1>1, <1>7, <1>8, <2>1, CountingUp
  <2> QED
    BY <2>2 DEF P
<1>10. First(b) = members
  BY <1>1
<1> QED
  BY <1>5, <1>9, <1>10

LEMMA Removed ==
  ASSUME NEW S, NEW s \in Seq(S), NEW i \in 1 .. Len(s)
  PROVE  /\ RemoveAt(s, i) \in Seq(S) /\ Len(RemoveAt(s, i)) = Len(s) - 1
         /\ \A k \in 1 .. Len(s) - 1 : RemoveAt(s, i)[k] = s[IF k < i THEN k ELSE k + 1]
<1> DEFINE front == SubSeq(s, 1, i - 1)
           rest == SubSeq(s, i + 1, Len(s))
<1>1. front \in Seq(S) /\ Len(front) = i - 1 /\ \A k \in 1 .. i - 1 : front[k] = s[k]
  OBVIOUS
<1>2. rest \in Seq(S) /\ Len(rest) = Len(s) - i /\ \A k \in 1 .. Len(s) - i : rest[k] = s[k + i]
  OBVIOUS
<1>3. RemoveAt(s, i) = front \o rest
  BY DEF RemoveAt
<1>4. Len(s) \in Nat /\ i \in Nat
  OBVIOUS
<1> HIDE DEF front, rest
<1>5. RemoveAt(s, i) \in Seq(S) /\ Len(RemoveAt(s, i)) = Len(s) - 1
  BY <1>1, <1>2, <1>3, <1>4, Joined
<1>6. ASSUME NEW k \in 1 .. Len(s) - 1 PROVE RemoveAt(s, i)[k] = s[IF k < i THEN k ELSE k + 1]
  <2>1. CASE k < i
    <3>1. k \in 1 .. Len(front) /\ k \in 1 .. i - 1
      BY <1>1, <1>4, <2>1
    <3>2. (front \o rest)[k] = front[k]
      BY <1>1, <1>2, <3>1, Joined
    <3> QED
      BY <1>1, <1>3, <2>1, <3>1, <3>2
  <2>2. CASE ~(k < i)
    <3> DEFINE l == k - (i - 1)
    <3>1. l \in 1 .. Len(rest) /\ l \in 1 .. Len(s) - i /\ Len(front) + l = k /\ l + i = k + 1
      BY <1>1, <1>2, <1>4, <2>2
    <3> HIDE DEF l
    <3>2. (front \o rest)[Len(front) + l] = rest[l]
      BY <1>1, <1>2, <3>1, Joined
    <3> QED
      BY <1>2, <1>3, <2>2, <3>1, <3>2
  <2> QED
    BY <2>1, <2>2
<1> QED
  BY <1>5, <1>6

(* Taking an element out of its chain takes nothing else. *)
LEMMA RemovedChains ==
  ASSUME NEW buckets, NEW S, ChainsOf(buckets, S), Len(buckets) > 0, NEW e \in Elements,
         NEW i \in 1 .. Len(buckets[RootOf(e, Len(buckets))]), buckets[RootOf(e, Len(buckets))][i] = e
  PROVE  ChainsOf([buckets EXCEPT ![RootOf(e, Len(buckets))] = RemoveAt(@, i)], S \ {e})
<1> DEFINE r == RootOf(e, Len(buckets))
           old == buckets[r]
           chain == RemoveAt(old, i)
           new == [buckets EXCEPT ![r] = chain]
           At(k) == IF k < i THEN k ELSE k + 1
<1>1. buckets \in Seq(Seq(Elements)) /\ Len(buckets) \in Nat /\ S \subseteq Elements /\ r \in 1 .. Len(buckets)
  <2>1. buckets \in Seq(Seq(Elements)) /\ S \subseteq Elements
    BY DEF ChainsOf
  <2>2. Len(buckets) \in Nat
    BY <2>1
  <2>3. r \in 1 .. Len(buckets)
    BY <2>2, RootIs
  <2> QED
    BY <2>1, <2>2, <2>3
<1>2. old \in Seq(Elements) /\ Len(old) \in Nat /\ i \in 1 .. Len(old) /\ old[i] = e
  BY <1>1
<1>3. chain \in Seq(Elements) /\ Len(chain) = Len(old) - 1 /\ \A k \in 1 .. Len(old) - 1 : chain[k] = old[At(k)]
  <2> HIDE DEF old
  <2> QED
    BY <1>2, Removed
<1>4. \A k \in 1 .. Len(old) : \A l \in 1 .. Len(old) : old[k] = old[l] => k = l
  <2> HIDE DEF r
  <2> QED
    BY <1>1 DEF ChainsOf
<1>5. \A k \in 1 .. Len(old) : old[k] \in S /\ RootOf(old[k], Len(buckets)) = r
  <2> HIDE DEF r
  <2> QED
    BY <1>1 DEF ChainsOf
<1> HIDE DEF chain, r
<1>6. new \in Seq(Seq(Elements)) /\ Len(new) = Len(buckets) /\ new[r] = chain /\ \A j \in 1 .. Len(buckets) : j # r => new[j] = buckets[j]
  BY <1>1, <1>3
<1>7. \A k \in 1 .. Len(old) - 1 : At(k) \in 1 .. Len(old) /\ At(k) # i
  BY <1>2
<1>8. \A k, l \in 1 .. Len(old) - 1 : At(k) = At(l) => k = l
  BY <1>2
<1>9. \A k \in 1 .. Len(old) : k # i => \E l \in 1 .. Len(old) - 1 : At(l) = k
  <2> SUFFICES ASSUME NEW k \in 1 .. Len(old), k # i PROVE \E l \in 1 .. Len(old) - 1 : At(l) = k
    OBVIOUS
  <2>1. CASE k < i
    <3>1. k \in 1 .. Len(old) - 1 /\ At(k) = k
      BY <1>2, <2>1
    <3> QED
      BY <3>1
  <2>2. CASE ~(k < i)
    <3>1. k - 1 \in 1 .. Len(old) - 1 /\ At(k - 1) = k
      BY <1>2, <2>2
    <3> QED
      BY <3>1
  <2> QED
    BY <2>1, <2>2
<1> HIDE DEF At, new, old
<1>10. ASSUME NEW j \in 1 .. Len(buckets)
       PROVE  /\ \A k \in 1 .. Len(new[j]) : new[j][k] \in S \ {e} /\ RootOf(new[j][k], Len(buckets)) = j
              /\ \A k, l \in 1 .. Len(new[j]) : new[j][k] = new[j][l] => k = l
  <2>1. CASE j # r
    <3>1. new[j] = buckets[j] /\ RootOf(e, Len(buckets)) # j
      BY <1>6, <2>1 DEF r
    <3>2. \A k \in 1 .. Len(buckets[j]) : buckets[j][k] \in S /\ RootOf(buckets[j][k], Len(buckets)) = j
      BY DEF ChainsOf
    <3>3. \A k \in 1 .. Len(buckets[j]) : buckets[j][k] # e
      BY <3>1, <3>2
    <3>4. \A k, l \in 1 .. Len(buckets[j]) : buckets[j][k] = buckets[j][l] => k = l
      BY DEF ChainsOf
    <3> QED
      BY <3>1, <3>2, <3>3, <3>4
  <2>2. CASE j = r
    <3>1. new[j] = chain /\ Len(chain) = Len(old) - 1
      BY <1>3, <1>6, <2>2
    <3>2. \A k \in 1 .. Len(old) - 1 : chain[k] \in S \ {e} /\ RootOf(chain[k], Len(buckets)) = j
      BY <1>2, <1>3, <1>4, <1>5, <1>7, <2>2
    <3>3. \A k, l \in 1 .. Len(old) - 1 : chain[k] = chain[l] => k = l
      <4> SUFFICES ASSUME NEW k \in 1 .. Len(old) - 1, NEW l \in 1 .. Len(old) - 1, chain[k] = chain[l] PROVE k = l
        OBVIOUS
      <4>1. old[At(k)] = old[At(l)]
        BY <1>3
      <4>2. At(k) = At(l)
        BY <1>4, <1>7, <4>1
      <4> QED
        BY <1>8, <4>2
    <3> QED
      BY <3>1, <3>2, <3>3
  <2> QED
    BY <2>1, <2>2
<1>11. ASSUME NEW x \in S \ {e} PROVE \E k \in 1 .. Len(new[RootOf(x, Len(buckets))]) : new[RootOf(x, Len(buckets))][k] = x
  <2> DEFINE q == RootOf(x, Len(buckets))
  <2>1. q \in 1 .. Len(buckets)
    BY <1>1, RootIs
  <2>2. PICK k \in 1 .. Len(buckets[q]) : buckets[q][k] = x
    BY DEF ChainsOf
  <2> HIDE DEF q
  <2>3. CASE q # r
    <3>1. new[q] = buckets[q]
      BY <1>6, <2>1, <2>3
    <3> QED
      BY <2>2, <3>1 DEF q
  <2>4. CASE q = r
    <3>1. k \in 1 .. Len(old) /\ old[k] = x /\ k # i
      BY <1>2, <2>2, <2>4 DEF old
    <3>2. PICK l \in 1 .. Len(old) - 1 : At(l) = k
      BY <1>9, <3>1
    <3>3. l \in 1 .. Len(chain) /\ chain[l] = x
      BY <1>3, <3>1, <3>2
    <3>4. new[q] = chain
      BY <1>6, <2>4
    <3> QED
      BY <3>3, <3>4 DEF q
  <2> QED
    BY <2>3, <2>4
<1>12. ChainsOf(new, S \ {e})
  <2>1. S \ {e} \subseteq Elements /\ Len(new) > 0 /\ Len(new) = Len(buckets) /\ new \in Seq(Seq(Elements))
    BY <1>1, <1>6
  <2>2. \A j \in 1 .. Len(new) :
          /\ \A k \in 1 .. Len(new[j]) : new[j][k] \in S \ {e} /\ RootOf(new[j][k], Len(new)) = j
          /\ \A k, l \in 1 .. Len(new[j]) : new[j][k] = new[j][l] => k = l
    BY <1>10, <2>1
  <2>3. \A x \in S \ {e} : \E k \in 1 .. Len(new[RootOf(x, Len(new))]) : new[RootOf(x, Len(new))][k] = x
    BY <1>11, <2>1
  <2> HIDE DEF RootOf
  <2> QED
    BY <2>1, <2>2, <2>3 DEF ChainsOf
<1> QED
  BY <1>12 DEF new, chain, old, r

-----------------------------------------------------------------------------
(* The inductive invariant of the hash set. *)
SetInv == ChainsOf(m_buckets, members) /\ IsFiniteSet(members) /\ m_size = Cardinality(members)

LEMMA SizeOfMembers == ASSUME SetInv PROVE m_size \in Nat /\ (m_size > 0 <=> members # {})
<1>1. m_size \in Nat
  BY FS_CardinalityType DEF SetInv
<1>2. m_size = 0 <=> members = {}
  BY FS_EmptySet DEF SetInv
<1> QED
  BY <1>1, <1>2

LEMMA FindsMembers == ASSUME SetInv, NEW e \in Elements PROVE Finds(e) <=> e \in members
<1>1. m_size \in Nat /\ (m_size > 0 <=> members # {})
  BY SizeOfMembers
<1>2. CASE members = {}
  BY <1>1, <1>2 DEF Finds
<1>3. CASE members # {}
  <2> DEFINE r == RootOf(e, Len(m_buckets))
  <2>1. Len(m_buckets) > 0 /\ Len(m_buckets) \in Nat
    BY <1>3 DEF SetInv, ChainsOf
  <2>2. r \in 1 .. Len(m_buckets)
    BY <2>1, RootIs
  <2>3. Finds(e) <=> \E k \in 1 .. Len(m_buckets[r]) : m_buckets[r][k] = e
    BY <1>1, <1>3 DEF Finds, Contains, Root, RootOf
  <2>4. e \in members => \E k \in 1 .. Len(m_buckets[r]) : m_buckets[r][k] = e
    BY DEF SetInv, ChainsOf
  <2>5. \A k \in 1 .. Len(m_buckets[r]) : m_buckets[r][k] \in members
    <3> HIDE DEF r
    <3> QED
      BY <2>2 DEF SetInv, ChainsOf
  <2> QED
    BY <2>3, <2>4, <2>5
<1> QED
  BY <1>2, <1>3

LEMMA EnsuredChains ==
  ASSUME SetInv, NEW capacity \in Nat
  PROVE  ChainsOf(Ensured(capacity), members) /\ Len(Ensured(capacity)) >= capacity
<1>1. Len(m_buckets) \in Nat /\ ChainsOf(m_buckets, members)
  BY DEF SetInv, ChainsOf
<1>2. CASE capacity > Len(m_buckets)
  <2> DEFINE c == Larger(Len(m_buckets) * 2 + 1, capacity)
  <2>1. c \in Nat /\ c > 0 /\ c >= capacity
    BY <1>1 DEF Larger
  <2> HIDE DEF c
  <2>2. ChainsOf(Rehashed(c), members) /\ Len(Rehashed(c)) = c
    BY <1>1, <2>1, RehashedChains
  <2>3. Ensured(capacity) = Rehashed(c)
    BY <1>2 DEF Ensured, c
  <2> QED
    BY <2>1, <2>2, <2>3
<1>3. CASE ~(capacity > Len(m_buckets))
  BY <1>1, <1>3 DEF Ensured
<1> QED
  BY <1>2, <1>3

LEMMA SetInitHolds == ASSUME SetInit PROVE SetInv
<1>1. ChainsOf(m_buckets, members)
  BY DEF SetInit, ChainsOf
<1> QED
  BY <1>1, FS_EmptySet DEF SetInit, SetInv

LEMMA EnsureCapacityKeeps == ASSUME SetInv, NEW capacity \in Nat, EnsureCapacity(capacity) PROVE SetInv'
<1>1. ChainsOf(m_buckets', members') /\ members' = members /\ m_size' = m_size
  BY EnsuredChains DEF EnsureCapacity
<1> QED
  BY <1>1 DEF SetInv, ChainsOf, RootOf

LEMMA RehashKeeps == ASSUME SetInv, NEW capacity \in 0 .. MaxCapacity, Rehash(capacity) PROVE SetInv'
<1>1. capacity \in Nat /\ capacity > 0
  BY SetAssumption DEF Rehash
<1>2. ChainsOf(Rehashed(capacity), members)
  BY <1>1, RehashedChains DEF SetInv
<1> QED
  BY <1>2 DEF Rehash, SetInv, ChainsOf, RootOf

(* Where add() appends to the bucket it found before it asked for room, the *)
(* array has not been rehashed in between, and the bucket is the last one  *)
(* of the chain that a new search would come to.                           *)
LEMMA AddInserts ==
  ASSUME SetInv, NEW e \in Elements, Add(e), ~Finds(e)
  PROVE  m_buckets' = Inserted(Ensured(m_size + 1), e)
<1>1. CASE InsertsAnew
  BY <1>1 DEF Add
<1>2. CASE ~InsertsAnew
  <2>1. m_buckets \in Seq(Seq(Elements)) /\ m_size \in Nat
    BY SizeOfMembers DEF SetInv, ChainsOf
  <2>2. ~(m_size + 1 > Len(m_buckets)) /\ m_size # 0
    BY <1>2 DEF InsertsAnew
  <2>3. Ensured(m_size + 1) = m_buckets
    BY <2>2 DEF Ensured
  <2>4. LastBucket(e) = [capacity |-> Len(m_buckets), root |-> Root(e, m_buckets), place |-> Len(m_buckets[Root(e, m_buckets)])]
    BY <2>2 DEF LastBucket
  <2>5. DoAppend(m_buckets, LastBucket(e), e) = Inserted(m_buckets, e)
    BY <2>4 DEF DoAppend, Inserted
  <2>6. m_buckets' = DoAppend(m_buckets, LastBucket(e), e)
    BY <1>2, <2>3 DEF Add
  <2> QED
    BY <2>3, <2>5, <2>6
<1> QED
  BY <1>1, <1>2

LEMMA AddKeeps == ASSUME SetInv, NEW e \in Elements, Add(e) PROVE SetInv'
<1>1. m_size \in Nat
  BY SizeOfMembers
<1>2. CASE Finds(e)
  <2>1. members' = members /\ m_buckets' = m_buckets /\ m_size' = m_size
    BY <1>2, FindsMembers DEF Add
  <2> QED
    BY <2>1 DEF SetInv, ChainsOf, RootOf
<1>3. CASE ~Finds(e)
  <2>1. e \notin members
    BY <1>3, FindsMembers
  <2> DEFINE b == Ensured(m_size + 1)
  <2>2. ChainsOf(b, members) /\ Len(b) > 0
    <3>1. m_size + 1 \in Nat
      BY <1>1
    <3>2. ChainsOf(b, members) /\ Len(b) >= m_size + 1
      BY <3>1, EnsuredChains
    <3>3. Len(b) \in Nat
      BY <3>2 DEF ChainsOf
    <3> HIDE DEF b
    <3> QED
      BY <1>1, <3>2, <3>3
  <2> HIDE DEF b
  <2>3. ChainsOf(Inserted(b, e), members \cup {e})
    BY <2>1, <2>2, InsertedChains
  <2>4. m_buckets' = Inserted(b, e) /\ m_size' = m_size + 1 /\ members' = members \cup {e}
    BY <1>3, AddInserts DEF Add, b
  <2>5. IsFiniteSet(members \cup {e}) /\ Cardinality(members \cup {e}) = m_size + 1
    BY <2>1, FS_AddElement DEF SetInv
  <2>6. ChainsOf(m_buckets', members')
    BY <2>3, <2>4
  <2> QED
    BY <2>4, <2>5, <2>6 DEF SetInv, ChainsOf, RootOf
<1> QED
  BY <1>2, <1>3

LEMMA RemoveElementKeeps == ASSUME SetInv, NEW e \in Elements, RemoveElement(e) PROVE SetInv'
<1>1. m_size \in Nat /\ (m_size > 0 <=> members # {})
  BY SizeOfMembers
<1>2. CASE Finds(e)
  <2>1. e \in members /\ Len(m_buckets) > 0
    BY <1>2, FindsMembers DEF SetInv, ChainsOf
  <2> DEFINE r == RootOf(e, Len(m_buckets))
  <2>2. PICK i \in 1 .. Len(m_buckets[r]) : m_buckets[r][i] = e /\ m_buckets' = [m_buckets EXCEPT ![r] = RemoveAt(@, i)]
    BY <1>2 DEF RemoveElement, Root, RootOf
  <2>3. ChainsOf([m_buckets EXCEPT ![r] = RemoveAt(@, i)], members \ {e})
    BY <2>1, <2>2, RemovedChains DEF SetInv
  <2>4. ChainsOf(m_buckets', members') /\ members' = members \ {e} /\ m_size' = m_size - 1
    BY <1>2, <2>2, <2>3 DEF RemoveElement
  <2>5. IsFiniteSet(members \ {e}) /\ Cardinality(members \ {e}) = m_size - 1
    BY <2>1, FS_RemoveElement DEF SetInv
  <2> QED
    BY <2>4, <2>5 DEF SetInv, ChainsOf, RootOf
<1>3. CASE ~Finds(e)
  <2>1. members' = members /\ m_buckets' = m_buckets /\ m_size' = m_size
    BY <1>3, FindsMembers DEF RemoveElement
  <2> QED
    BY <2>1 DEF SetInv, ChainsOf, RootOf
<1> QED
  BY <1>2, <1>3

LEMMA ClearSetKeeps == ASSUME ClearSet PROVE SetInv'
<1>1. ChainsOf(m_buckets', members')
  BY DEF ClearSet, ChainsOf
<1> QED
  BY <1>1, FS_EmptySet DEF ClearSet, SetInv, ChainsOf, RootOf

LEMMA SetNextKeeps == ASSUME SetInv, [SetNext]_setVars PROVE SetInv'
<1>1. CASE UNCHANGED setVars
  BY <1>1 DEF setVars, SetInv, ChainsOf, RootOf
<1>2. ASSUME NEW capacity \in 0 .. MaxCapacity, EnsureCapacity(capacity) PROVE SetInv'
  BY <1>2, EnsureCapacityKeeps, SetAssumption
<1> QED
  BY <1>1, <1>2, AddKeeps, RemoveElementKeeps, RehashKeeps, ClearSetKeeps DEF SetNext

LEMMA SetInvariant == SetSpec => []SetInv
<1>1. SetInit => SetInv
  BY SetInitHolds
<1>2. SetInv /\ [SetNext]_setVars => SetInv'
  BY SetNextKeeps
<1> QED
  BY <1>1, <1>2, PTL DEF SetSpec

(* Whatever has been added, removed and rehashed, in whatever order and    *)
(* however the hashes collide: HashSet::find_hash() finds the members and  *)
(* nothing else, the iterator meets each of them once, and size() is their *)
(* number.                                                                 *)
THEOREM SetSound == SetSpec => []HashSetSound
<1>1. ASSUME SetInv PROVE HashSetSound
  <2>1. \A e \in Elements : Finds(e) <=> e \in members
    BY <1>1, FindsMembers
  <2> DEFINE it == Iteration(m_buckets)
  <2>2. /\ it \in Seq(Elements)
        /\ \A k \in 1 .. Len(it) : it[k] \in members
        /\ \A k, l \in 1 .. Len(it) : it[k] = it[l] => k = l
        /\ \A e \in members : \E k \in 1 .. Len(it) : it[k] = e
    BY <1>1, IterationOfChains DEF SetInv
  <2> HIDE DEF it
  <2>3. DOMAIN it = 1 .. Len(it)
    BY <2>2
  <2>4. IsInjective(it) /\ ToSet(it) = members
    BY <2>2, <2>3 DEF IsInjective, ToSet
  <2> QED
    BY <1>1, <2>1, <2>4 DEF HashSetSound, SetInv, it
<1> QED
  BY <1>1, SetInvariant, PTL

================================================================================
