---------------------------- MODULE TaskletMutex ----------------------------
(***************************************************************************)
(* tasklet::Mutex (engine/sources/tasklet/mutex.cc): one atomic pointer    *)
(* that is the unlocked sentinel, null (locked, nobody waits) or the head  *)
(* of an intrusive list of waiting tasklets linked through                 *)
(* Tasklet::m_linked_tasklet.  A tasklet that fails to lock pushes itself  *)
(* and suspends; unlock() detaches the whole list and reschedules it one   *)
(* tasklet at a time.  A plain thread spins.                               *)
(*                                                                         *)
(* tasklet::suspend() is the two steps a waker can see: the tasklet is on  *)
(* the list before its fiber is Suspended, and tasklet::schedule() spins   *)
(* until it is (unsuspend_fiber(), scheduler.cc).                          *)
(***************************************************************************)
EXTENDS Naturals, FiniteSets

CONSTANTS
  Tasklets,     (* callers in a tasklet context                            *)
  Threads,      (* callers outside one                                     *)
  Unlocked,     (* UNLOCKED_SENTINEL                                       *)
  Null          (* nullptr                                                 *)

Callers == Tasklets \cup Threads

ASSUME MutexAssumption ==
  /\ Tasklets \cap Threads = {}
  /\ Unlocked \notin Callers
  /\ Null \notin Callers
  /\ Unlocked # Null

VARIABLES
  m_wait_list,
  link,         (* m_linked_tasklet of each tasklet                        *)
  seen,         (* the local "tasklet" of lock(): the value that failed it *)
  cursor,       (* the local "tasklet" of unlock(): rest of its list       *)
  target,       (* the tasklet unlock() is rescheduling                    *)
  pc

vars == <<m_wait_list, link, seen, cursor, target, pc>>

Locations ==
  {"idle", "lock", "push", "suspend", "suspended", "owner", "pop", "schedule"}

(* Tasklets that gave up running until somebody reschedules them. *)
Parked == {t \in Tasklets : pc[t] \in {"suspend", "suspended"}}

Goto(c, l) == pc' = [pc EXCEPT ![c] = l]

Init ==
  /\ m_wait_list = Unlocked
  /\ link = [t \in Tasklets |-> Null]
  /\ seen = [t \in Tasklets |-> Null]
  /\ cursor = [c \in Callers |-> Null]
  /\ target = [c \in Callers |-> Null]
  /\ pc = [c \in Callers |-> "idle"]

-----------------------------------------------------------------------------

(* Mutant of TryLock: takes a locked mutex without waiters for a free one. *)
TryLockNull(c) ==
  /\ pc[c] = "idle"
  /\ m_wait_list \in {Unlocked, Null}
  /\ m_wait_list' = Null
  /\ Goto(c, "owner")
  /\ UNCHANGED <<link, seen, cursor, target>>

TryLock(c) ==
  /\ pc[c] = "idle"
  /\ m_wait_list = Unlocked
  /\ m_wait_list' = Null
  /\ Goto(c, "owner")
  /\ UNCHANGED <<link, seen, cursor, target>>

Lock(c) ==
  /\ pc[c] = "idle"
  /\ Goto(c, "lock")
  /\ UNCHANGED <<m_wait_list, link, seen, cursor, target>>

(* The first exchange of the loop of lock(). *)
Exchange(c) ==
  /\ pc[c] = "lock"
  /\ m_wait_list = Unlocked
  /\ m_wait_list' = Null
  /\ Goto(c, "owner")
  /\ UNCHANGED <<link, seen, cursor, target>>

(* It failed: a tasklet links itself in front of what it saw.  A thread    *)
(* goes back to the top of the loop, which changes nothing.                *)
Link(t) ==
  /\ pc[t] = "lock"
  /\ m_wait_list # Unlocked
  /\ seen' = [seen EXCEPT ![t] = m_wait_list]
  /\ link' = [link EXCEPT ![t] = m_wait_list]
  /\ Goto(t, "push")
  /\ UNCHANGED <<m_wait_list, cursor, target>>

(* Mutant of Push: a store in place of the second exchange. *)
PushStores(t) ==
  /\ pc[t] = "push"
  /\ m_wait_list' = t
  /\ Goto(t, "suspend")
  /\ UNCHANGED <<link, seen, cursor, target>>

(* The second exchange enters the list, or clears the link and retries. *)
Push(t) ==
  /\ pc[t] = "push"
  /\ IF m_wait_list = seen[t]
     THEN /\ m_wait_list' = t
          /\ Goto(t, "suspend")
          /\ UNCHANGED link
     ELSE /\ link' = [link EXCEPT ![t] = Null]
          /\ Goto(t, "lock")
          /\ UNCHANGED m_wait_list
  /\ UNCHANGED <<seen, cursor, target>>

(* The helper fiber marks the fiber of the tasklet Suspended. *)
Suspend(t) ==
  /\ pc[t] = "suspend"
  /\ Goto(t, "suspended")
  /\ UNCHANGED <<m_wait_list, link, seen, cursor, target>>

Unlock(c) ==
  /\ pc[c] = "owner"
  /\ m_wait_list' = Unlocked
  /\ cursor' = [cursor EXCEPT ![c] = m_wait_list]
  /\ Goto(c, IF m_wait_list = Null THEN "idle" ELSE "pop")
  /\ UNCHANGED <<link, seen, target>>

(* pop_linked_tasklet() and the exchange that advances the cursor. *)
Pop(c) ==
  /\ pc[c] = "pop"
  /\ target' = [target EXCEPT ![c] = cursor[c]]
  /\ cursor' = [cursor EXCEPT ![c] = link[cursor[c]]]
  /\ link' = [link EXCEPT ![cursor[c]] = Null]
  /\ Goto(c, "schedule")
  /\ UNCHANGED <<m_wait_list, seen>>

(* Mutant of Schedule: only the first waiter is rescheduled. *)
ScheduleFirstOnly(c) ==
  /\ pc[c] = "schedule"
  /\ pc[target[c]] = "suspended"
  /\ pc' = [pc EXCEPT ![target[c]] = "lock", ![c] = "idle"]
  /\ target' = [target EXCEPT ![c] = Null]
  /\ UNCHANGED <<m_wait_list, link, seen, cursor>>

(* schedule(): the target resumes at the top of the loop of lock(). *)
Schedule(c) ==
  /\ pc[c] = "schedule"
  /\ pc[target[c]] = "suspended"
  /\ pc' = [pc EXCEPT ![target[c]] = "lock",
                      ![c] = IF cursor[c] = Null THEN "idle" ELSE "pop"]
  /\ target' = [target EXCEPT ![c] = Null]
  /\ UNCHANGED <<m_wait_list, link, seen, cursor>>

-----------------------------------------------------------------------------

Continue(c) ==
  \/ Exchange(c)
  \/ c \in Tasklets /\ (Link(c) \/ Push(c) \/ Suspend(c))
  \/ Unlock(c)
  \/ Pop(c)
  \/ Schedule(c)

Next == \E c \in Callers : TryLock(c) \/ Lock(c) \/ Continue(c)

Spec == Init /\ [][Next]_vars

(* A caller that can run does run (workers run ready fibers, the operating *)
(* system runs threads), and an owner leaves its critical section; nobody  *)
(* has to lock.                                                            *)
FairSpec == Spec /\ \A c \in Callers : WF_vars(Continue(c))

-----------------------------------------------------------------------------

(* The pointers are pointers of their kind. *)
TypeOK ==
  /\ m_wait_list \in Tasklets \cup {Unlocked, Null}
  /\ link \in [Tasklets -> Tasklets \cup {Null}]
  /\ seen \in [Tasklets -> Tasklets \cup {Null}]
  /\ cursor \in [Callers -> Tasklets \cup {Null}]
  /\ target \in [Callers -> Tasklets \cup {Null}]
  /\ pc \in [Callers -> Locations]

(* Exclusive ownership, also against callers that raced with the wake of a *)
(* whole list ("non-recursive exclusive ownership", mutex.hh).             *)
MutualExclusion == \A c, d \in Callers : pc[c] = "owner" /\ pc[d] = "owner" => c = d

(* The sentinel is in the word exactly while nobody owns the mutex. *)
LockedByOwner == m_wait_list = Unlocked <=> \A c \in Callers : pc[c] # "owner"

(* Who points at tasklet t: the head of the list, a link of a parked       *)
(* tasklet, the cursor or the target of an unlock() under way.             *)
Pointers(t) ==
  {<<"head", x>> : x \in {y \in {m_wait_list} : y = t}}
  \cup {<<"link", u>> : u \in {v \in Parked : link[v] = t}}
  \cup {<<"cursor", c>> : c \in {d \in Callers : pc[d] \in {"pop", "schedule"} /\ cursor[d] = t}}
  \cup {<<"target", c>> : c \in {d \in Callers : pc[d] = "schedule" /\ target[d] = t}}

(* Every parked tasklet is reachable by exactly one future wake-up, and    *)
(* nobody else is: none is lost, none is rescheduled twice or while it     *)
(* runs, whatever lock() and unlock() calls overlap.                       *)
OnePointerEach ==
  \A t \in Tasklets : Cardinality(Pointers(t)) = IF t \in Parked THEN 1 ELSE 0

(* The owner as the abstract lock sees it, in the locations p. *)
OwnerIn(p) ==
  IF \E c \in Callers : p[c] = "owner" THEN CHOOSE c \in Callers : p[c] = "owner" ELSE Null

Owner == OwnerIn(pc)

Abstract == INSTANCE AbstractLock WITH owner <- Owner, NoOwner <- Null

(* The wait-list code implements the lock of mutex.hh. *)
ImplementsLock == Abstract!Spec

(* A tasklet that suspended in lock() is rescheduled: the owner at that    *)
(* time unlocks and walks its whole list.                                  *)
SuspendedIsWoken == \A t \in Tasklets : pc[t] = "suspended" ~> pc[t] = "lock"

(* The mutex does not stay free for ever while somebody is in lock(); which*)
(* caller gets it is not promised (every wake-up is a thundering herd).    *)
SomebodyLocks == (\E c \in Callers : pc[c] \in {"lock", "push", "suspend", "suspended"})
                   ~> (\E c \in Callers : pc[c] = "owner")

(* The list of waiters is right, the pointers in it included.              *)
ListSound == TypeOK /\ OnePointerEach

=============================================================================
