--------------------------- MODULE WorkStealingQueue ---------------------------
(***************************************************************************)
(* WorkStealingQueue<T, SlotCountShift> (engine/include/vull/container): a *)
(* ring whose owner puts jobs in at the head and takes them out again at   *)
(* the head, while thieves take them at the tail.  One action per atomic   *)
(* operation on a word that others write; a job is named by its number.    *)
(***************************************************************************)
EXTENDS Integers, FiniteSets

CONSTANTS
  Thieves,
  JobSlots,   (* k_slot_count                                             *)
  JobLimit     (* bound: jobs ever put in                                  *)

ASSUME StealingAssumption == JobSlots \in Nat \ {0} /\ JobLimit \in Nat

VARIABLES
  m_slots, m_head, m_tail,
  owner,       (* where the owner is in its call, and its locals           *)
  thief,       (* the same of each thief                                   *)
  jobs,        (* how many jobs enqueue() has accepted                     *)
  taken        (* how often each job has been returned                     *)

stealingVars == <<m_slots, m_head, m_tail, owner, thief, jobs, taken>>

NoJob == 0
Idle == [at |-> "idle"]
Slot(i) == i % JobSlots

StealingInit ==
  /\ m_slots = [s \in 0 .. JobSlots - 1 |-> NoJob]
  /\ m_head = 0 /\ m_tail = 0
  /\ owner = Idle /\ thief = [t \in Thieves |-> Idle]
  /\ jobs = 0 /\ taken = [j \in 1 .. JobLimit |-> 0]

GiveBack(job) == taken' = [taken EXCEPT ![job] = @ + 1]

-----------------------------------------------------------------------------
(* enqueue(), by the owner *)

(* The ring is not full; if it is, enqueue() returns false. *)
EnqueueCheck ==
  /\ owner = Idle /\ jobs < JobLimit /\ m_head - m_tail < JobSlots
  /\ owner' = [at |-> "store"]
  /\ UNCHANGED <<m_slots, m_head, m_tail, thief, jobs, taken>>

StoreSlot ==
  /\ owner.at = "store"
  /\ m_slots' = [m_slots EXCEPT ![Slot(m_head)] = jobs + 1]
  /\ owner' = [at |-> "publish"]
  /\ UNCHANGED <<m_head, m_tail, thief, jobs, taken>>

PublishHead ==
  /\ owner.at = "publish"
  /\ m_head' = m_head + 1 /\ jobs' = jobs + 1
  /\ owner' = Idle
  /\ UNCHANGED <<m_slots, m_tail, thief, taken>>

-----------------------------------------------------------------------------
(* dequeue(), by the owner *)

TakeHead ==
  /\ owner = Idle
  /\ m_head' = m_head - 1
  /\ owner' = [at |-> "look"]
  /\ UNCHANGED <<m_slots, m_tail, thief, jobs, taken>>

(* The load of the tail and, unless the queue is empty, that of the slot,  *)
(* which nobody but the owner writes.                                      *)
LookAtTail ==
  /\ owner.at = "look"
  /\ owner' = [at |-> CASE m_tail > m_head -> "restore" [] m_tail = m_head -> "race" [] m_tail < m_head -> "return",
               job |-> m_slots[Slot(m_head)], tail |-> m_tail]
  /\ UNCHANGED <<m_slots, m_head, m_tail, thief, jobs, taken>>

ReturnJob ==
  /\ owner.at = "return"
  /\ GiveBack(owner.job) /\ owner' = Idle
  /\ UNCHANGED <<m_slots, m_head, m_tail, thief, jobs>>

(* Mutant of RaceForLast: the last job is taken without asking the thieves. *)
RaceForLastUnasked ==
  /\ owner.at = "race"
  /\ m_tail' = owner.tail + 1 /\ GiveBack(owner.job)
  /\ owner' = [at |-> "restore"]
  /\ UNCHANGED <<m_slots, m_head, thief, jobs>>

(* The last job goes to whoever moves the tail over it. *)
RaceForLast ==
  /\ owner.at = "race"
  /\ IF m_tail = owner.tail THEN m_tail' = m_tail + 1 /\ GiveBack(owner.job)
                            ELSE UNCHANGED <<m_tail, taken>>
  /\ owner' = [at |-> "restore"]
  /\ UNCHANGED <<m_slots, m_head, thief, jobs>>

RestoreHead ==
  /\ owner.at = "restore"
  /\ m_head' = m_head + 1 /\ owner' = Idle
  /\ UNCHANGED <<m_slots, m_tail, thief, jobs, taken>>

-----------------------------------------------------------------------------
(* steal(), by a thief *)

ThiefGoto(t, place) == thief' = [thief EXCEPT ![t] = place]

LoadTail(t) ==
  /\ thief[t] = Idle
  /\ ThiefGoto(t, [at |-> "head", tail |-> m_tail])
  /\ UNCHANGED <<m_slots, m_head, m_tail, owner, jobs, taken>>

LoadHead(t) ==
  /\ thief[t].at = "head"
  /\ ThiefGoto(t, IF thief[t].tail >= m_head THEN Idle ELSE [thief[t] EXCEPT !.at = "load"])
  /\ UNCHANGED <<m_slots, m_head, m_tail, owner, jobs, taken>>

LoadSlot(t) ==
  /\ thief[t].at = "load"
  /\ ThiefGoto(t, [at |-> "exchange", tail |-> thief[t].tail, job |-> m_slots[Slot(thief[t].tail)]])
  /\ UNCHANGED <<m_slots, m_head, m_tail, owner, jobs, taken>>

Steal(t) ==
  /\ thief[t].at = "exchange"
  /\ IF m_tail = thief[t].tail THEN m_tail' = m_tail + 1 /\ GiveBack(thief[t].job)
                               ELSE UNCHANGED <<m_tail, taken>>
  /\ ThiefGoto(t, Idle)
  /\ UNCHANGED <<m_slots, m_head, owner, jobs>>

StealingNext ==
  \/ EnqueueCheck \/ StoreSlot \/ PublishHead
  \/ TakeHead \/ LookAtTail \/ ReturnJob \/ RaceForLast \/ RestoreHead
  \/ \E t \in Thieves : LoadTail(t) \/ LoadHead(t) \/ LoadSlot(t) \/ Steal(t)

StealingSpec == StealingInit /\ [][StealingNext]_stealingVars

-----------------------------------------------------------------------------
(* Properties *)

(* The jobs between the tail and the head, by their places. *)
Places == m_tail .. m_head - 1

(* No job is returned twice, and between two calls of the owner none is    *)
(* lost: those that were not returned are in the ring, each in one place,  *)
(* and there are no others.                                                *)
TakenOnce ==
  /\ \A j \in 1 .. JobLimit : taken[j] <= (IF j <= jobs THEN 1 ELSE 0)
  /\ owner = Idle =>
       /\ Cardinality(Places) <= JobSlots
       /\ {m_slots[Slot(i)] : i \in Places} = {j \in 1 .. jobs : taken[j] = 0}
       /\ \A i, k \in Places : Slot(i) = Slot(k) => i = k

=============================================================================
