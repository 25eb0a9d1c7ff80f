------------------------------ MODULE Semaphore ------------------------------
(***************************************************************************)
(* platform::Semaphore (engine/sources/platform/linux.cc): a 64 bit word   *)
(* whose low half counts permits and whose high half counts the threads    *)
(* registered as waiters, with a futex on the low half.  One action per    *)
(* atomic operation or system call; doing[t] is the place of thread t in   *)
(* the member function it runs, data[t] that function's local copy of the  *)
(* word.                                                                   *)
(***************************************************************************)
EXTENDS Naturals, FiniteSets

CONSTANTS
  Users,        (* the threads that use the semaphore                      *)
  MaxCount,     (* largest value of the low half: 2^32 - 1 in the code     *)
  PermitLimit   (* bound: permits outstanding at once                      *)

(* The callers never have 2^32 permits outstanding: post() has no check.   *)
ASSUME SemaphoreAssumption ==
  /\ IsFiniteSet(Users)
  /\ MaxCount \in Nat
  /\ PermitLimit \in 0 .. MaxCount

VARIABLES
  m_data,       (* the word: [count, waiters]                              *)
  data,         (* per thread, its last load of the word, while it is read *)
  doing

semaphoreVars == <<m_data, data, doing>>

Word == [count : Nat, waiters : Nat]
ZeroWord == [count |-> 0, waiters |-> 0]

UserPlaces ==
  {"idle", "wake", "try", "fast", "register", "sleep", "asleep", "reload", "acquire"}

(* Threads counted in the high half, and threads in the futex's queue. *)
Registered == {t \in Users : doing[t] \in {"sleep", "asleep", "reload", "acquire"}}
Asleep == {t \in Users : doing[t] = "asleep"}

(* Threads that are going to look at the word or wake one that will. *)
Helping == {t \in Users : doing[t] \in {"wake", "sleep", "reload", "acquire"}}

UserGoes(t, l) == doing' = [doing EXCEPT ![t] = l]

(* t goes on at l with d as its copy, which only these places read. *)
GoWith(t, l, d) ==
  /\ UserGoes(t, l)
  /\ data' = [data EXCEPT ![t] = IF l \in {"try", "fast", "register", "acquire"} THEN d ELSE ZeroWord]

(* Where the loop of wait() continues once data[t] is d. *)
LoopOn(d) == IF d.count = 0 THEN "sleep" ELSE "acquire"

(* fetch_add(1) on the whole word: a full low half carries into the high. *)
Increment(w) ==
  IF w.count = MaxCount
  THEN [count |-> 0, waiters |-> w.waiters + 1]
  ELSE [w EXCEPT !.count = @ + 1]

SemaphoreInit ==
  /\ m_data = ZeroWord
  /\ data = [t \in Users |-> ZeroWord]
  /\ doing = [t \in Users |-> "idle"]

-----------------------------------------------------------------------------
(* post() *)

(* Mutant of PostPermit: wakes only when the count leaves zero. *)
PostWakesOnlyFromZero(t) ==
  /\ doing[t] = "idle"
  /\ m_data.count < PermitLimit
  /\ m_data' = Increment(m_data)
  /\ UserGoes(t, IF m_data.waiters > 0 /\ m_data.count = 0 THEN "wake" ELSE "idle")
  /\ UNCHANGED data

PostPermit(t) ==
  /\ doing[t] = "idle"
  /\ m_data.count < PermitLimit
  /\ m_data' = Increment(m_data)
  /\ UserGoes(t, IF m_data.waiters > 0 THEN "wake" ELSE "idle")
  /\ UNCHANGED data

(* FUTEX_WAKE of one thread; it does nothing when none sleeps. *)
FutexWake(t) ==
  /\ doing[t] = "wake"
  /\ IF Asleep = {}
     THEN UserGoes(t, "idle")
     ELSE \E s \in Asleep : doing' = [doing EXCEPT ![t] = "idle", ![s] = "reload"]
  /\ UNCHANGED <<m_data, data>>

-----------------------------------------------------------------------------
(* try_wait() *)

TryPermit(t) ==
  /\ doing[t] = "idle"
  /\ GoWith(t, IF m_data.count = 0 THEN "idle" ELSE "try", m_data)
  /\ UNCHANGED m_data

(* A failed compare exchange reloads data; a spurious failure of the weak  *)
(* form reloads the value it already had, a stuttering step.               *)
TryExchange(t) ==
  /\ doing[t] = "try"
  /\ IF m_data = data[t]
     THEN /\ m_data' = [m_data EXCEPT !.count = @ - 1]
          /\ GoWith(t, "idle", data[t])
     ELSE /\ GoWith(t, IF m_data.count = 0 THEN "idle" ELSE "try", m_data)
          /\ UNCHANGED m_data

-----------------------------------------------------------------------------
(* wait() *)

Wait(t) ==
  /\ doing[t] = "idle"
  /\ GoWith(t, IF m_data.count = 0 THEN "register" ELSE "fast", m_data)
  /\ UNCHANGED m_data

(* Mutant of FastExchange: returns even when the exchange failed. *)
FastExchangeAlwaysReturns(t) ==
  /\ doing[t] = "fast"
  /\ IF m_data = data[t] THEN m_data' = [m_data EXCEPT !.count = @ - 1] ELSE UNCHANGED m_data
  /\ GoWith(t, "idle", data[t])

(* The single weak compare exchange before registering. *)
FastExchange(t) ==
  /\ doing[t] = "fast"
  /\ \/ /\ m_data = data[t]
        /\ m_data' = [m_data EXCEPT !.count = @ - 1]
        /\ GoWith(t, "idle", data[t])
     \/ /\ GoWith(t, "register", m_data)
        /\ UNCHANGED m_data

(* fetch_add(1 << 32); data[t] still is the value loaded before it. *)
Register(t) ==
  /\ doing[t] = "register"
  /\ m_data' = [m_data EXCEPT !.waiters = @ + 1]
  /\ GoWith(t, LoopOn(data[t]), data[t])

(* Mutant of FutexWait: sleeps without comparing the word. *)
FutexWaitUnconditional(t) ==
  /\ doing[t] = "sleep"
  /\ UserGoes(t, "asleep")
  /\ UNCHANGED <<m_data, data>>

(* FUTEX_WAIT with expected value 0: the kernel compares and queues the    *)
(* thread in one step, and returns at once when the low half is not 0.     *)
FutexWait(t) ==
  /\ doing[t] = "sleep"
  /\ UserGoes(t, IF m_data.count = 0 THEN "asleep" ELSE "reload")
  /\ UNCHANGED <<m_data, data>>

(* A signal ends the system call without a wake. *)
Interrupted(t) ==
  /\ doing[t] = "asleep"
  /\ UserGoes(t, "reload")
  /\ UNCHANGED <<m_data, data>>

Reload(t) ==
  /\ doing[t] = "reload"
  /\ GoWith(t, LoopOn(m_data), m_data)
  /\ UNCHANGED m_data

(* data - 1 - (1 << 32): take a permit and stop being a waiter. *)
Acquire(t) ==
  /\ doing[t] = "acquire"
  /\ IF m_data = data[t]
     THEN /\ m_data' = [count |-> m_data.count - 1, waiters |-> m_data.waiters - 1]
          /\ GoWith(t, "idle", data[t])
     ELSE /\ GoWith(t, LoopOn(m_data), m_data)
          /\ UNCHANGED m_data

-----------------------------------------------------------------------------

(* Steps of a member function that has been called. *)
ContinueCall(t) ==
  \/ FutexWake(t)
  \/ TryExchange(t)
  \/ FastExchange(t)
  \/ Register(t)
  \/ FutexWait(t)
  \/ Reload(t)
  \/ Acquire(t)

CallSemaphore(t) == PostPermit(t) \/ TryPermit(t) \/ Wait(t)

SemaphoreNext == \E t \in Users : CallSemaphore(t) \/ ContinueCall(t) \/ Interrupted(t)

SemaphoreSpec == SemaphoreInit /\ [][SemaphoreNext]_semaphoreVars

(* The operating system runs every thread that can run; nobody is obliged  *)
(* to call the semaphore, and no signal has to arrive.                     *)
SemaphoreFairSpec == SemaphoreSpec /\ \A t \in Users : WF_semaphoreVars(ContinueCall(t))

-----------------------------------------------------------------------------

(* The word and the local copies are words, and the permits stay below     *)
(* the limit of the callers, so the low half never carries (post()).       *)
SemaphoreTyped ==
  /\ m_data \in Word
  /\ m_data.count <= PermitLimit
  /\ data \in [Users -> Word]
  /\ doing \in [Users -> UserPlaces]

(* The high half is exactly the number of threads between their fetch_add  *)
(* and their successful exchange in wait(), although each builds the new   *)
(* word from a copy that may be stale: it never underflows, and post()     *)
(* never takes a registered thread for absent.                             *)
WaitersExact == m_data.waiters = Cardinality(Registered)

(* No lost wake-up: while a thread sleeps on the futex, every permit in    *)
(* the word is covered by a thread that is awake on its way to the word or *)
(* that is about to issue a FUTEX_WAKE.                                    *)
NoLostWakeup == Asleep # {} => m_data.count <= Cardinality(Helping)

(* A thread tries the exchange only with a copy that showed a permit, so   *)
(* data - 1 never borrows from the high half (try_wait() and wait()).      *)
NoBorrow == \A t \in Users : doing[t] \in {"try", "fast", "acquire"} => data[t].count > 0

Safe == SemaphoreTyped /\ WaitersExact /\ NoLostWakeup /\ NoBorrow

(* What the callers rely on: see CountingSemaphore. *)
Waiting == {t \in Users :
  doing[t] \in {"fast", "register", "sleep", "asleep", "reload", "acquire"}}

Abstract == INSTANCE CountingSemaphore WITH Threads <- Users, permits <- m_data.count, waiting <- Waiting

(* The futex code takes the permits one by one and hands each to one       *)
(* caller: every step is a step of CountingSemaphore or invisible to it.   *)
ImplementsCountingSemaphore == Abstract!Spec

(* With threads that keep running, no permit and no blocked thread are     *)
(* left waiting for each other.                                            *)
WaitersServed == Abstract!WaitersServed

=============================================================================
