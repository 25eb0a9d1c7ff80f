------------------------------- MODULE Promise -------------------------------
(***************************************************************************)
(* tasklet::PromiseBase (engine/sources/tasklet/promise.cc): one 64 bit    *)
(* word that holds the head of a list of waiting tasklets, a bit that says *)
(* that plain threads wait on a futex, and a bit that says fulfilled.  The *)
(* futex is the upper half of the word, which contains both bits and the   *)
(* upper half of the pointer.                                              *)
(*                                                                         *)
(* One action per atomic operation, system call or call of the scheduler.  *)
(* The scheduler's promise is modelled as in TaskletMutex: schedule() of a *)
(* tasklet that waits takes effect once its fiber is Suspended, schedule() *)
(* of a tasklet that has not started puts it on the tasklet queue.         *)
(***************************************************************************)
EXTENDS Naturals, FiniteSets

CONSTANTS
  Tasklets,       (* tasklets that call wait()                             *)
  Threads,        (* plain threads that call wait()                        *)
  Continuations,  (* tasklets passed to wake_on_fulfillment()              *)
  Far,            (* those of them whose pointers have an upper half that
                     differs from that of the others                       *)
  Null,           (* nullptr                                               *)
  MaxRounds       (* bound: how often the promise is fulfilled             *)

ASSUME PromiseAssumption ==
  /\ Tasklets \cap Threads = {}
  /\ Tasklets \cap Continuations = {}
  /\ Threads \cap Continuations = {}
  /\ Null \notin Tasklets \cup Threads \cup Continuations
  /\ MaxRounds \in Nat \ {0}

Waiters == Tasklets \cup Threads
Linked == Tasklets \cup Continuations
All == Waiters \cup Continuations

VARIABLES
  m_state,      (* [list, threads, fulfilled]                              *)
  m_storage,    (* whether fulfill() has stored the value                  *)
  link,         (* m_linked_tasklet                                        *)
  seen,         (* the local "state" of add_waiter() and wait(), Fresh once
                   it is dead                                            *)
  pc,
  fulfiller,    (* [pc, state, cursor, target] of fulfill() and wake_all() *)
  round         (* how often the promise has been reset                    *)

vars == <<m_state, m_storage, link, seen, pc, fulfiller, round>>

Fresh == [list |-> Null, threads |-> FALSE, fulfilled |-> FALSE]
Fulfilled == [list |-> Null, threads |-> FALSE, fulfilled |-> TRUE]

State == [list : Linked \cup {Null}, threads : BOOLEAN, fulfilled : BOOLEAN]

Upper(p) == IF p = Null THEN 0 ELSE IF p \in Far THEN 2 ELSE 1

(* futex_word(): what a sleeping thread compares. *)
FutexWord(s) == <<Upper(s.list), s.threads, s.fulfilled>>

Locations ==
  {"idle", "add", "suspend", "suspended", "or", "futex", "asleep", "reload", "queued"}

Goto(p, l) == pc' = [pc EXCEPT ![p] = l]
Saw(p, s) == seen' = [seen EXCEPT ![p] = s]

Init ==
  /\ m_state = Fresh
  /\ m_storage = FALSE
  /\ link = [t \in Linked |-> Null]
  /\ seen = [p \in All |-> Fresh]
  /\ pc = [p \in All |-> "idle"]
  /\ fulfiller = [pc |-> "idle", state |-> Fresh, cursor |-> Null, target |-> Null]
  /\ round = 0

-----------------------------------------------------------------------------
(* wait() and wake_on_fulfillment() of a tasklet: add_waiter() first. *)

LoadState(t) ==
  /\ t \in Linked
  /\ pc[t] = "idle"
  /\ Saw(t, m_state)
  /\ Goto(t, "add")
  /\ UNCHANGED <<m_state, m_storage, link, fulfiller, round>>

(* Mutant of AlreadyFulfilled: nobody schedules the continuation. *)
AlreadyFulfilledDrops(t) ==
  /\ t \in Linked
  /\ pc[t] = "add"
  /\ seen[t].fulfilled
  /\ link' = [link EXCEPT ![t] = Null]
  /\ Goto(t, "idle")
  /\ Saw(t, Fresh)
  /\ UNCHANGED <<m_state, m_storage, fulfiller, round>>

(* add_waiter() returns false: wait() returns at once, a continuation is   *)
(* scheduled at once.                                                      *)
AlreadyFulfilled(t) ==
  /\ t \in Linked
  /\ pc[t] = "add"
  /\ seen[t].fulfilled
  /\ link' = [link EXCEPT ![t] = Null]
  /\ Goto(t, IF t \in Tasklets THEN "idle" ELSE "queued")
  /\ Saw(t, Fresh)
  /\ UNCHANGED <<m_state, m_storage, fulfiller, round>>

(* Mutant of AddWaiter: the link is not renewed when the loop repeats. *)
AddWaiterKeepsLink(t) ==
  /\ t \in Linked
  /\ pc[t] = "add"
  /\ ~seen[t].fulfilled
  /\ IF m_state = seen[t]
     THEN /\ m_state' = [m_state EXCEPT !.list = t]
          /\ Goto(t, IF t \in Tasklets THEN "suspend" ELSE "suspended")
          /\ Saw(t, Fresh)
          /\ UNCHANGED link
     ELSE /\ link' = [link EXCEPT ![t] = seen[t].list]
          /\ Saw(t, m_state)
          /\ UNCHANGED <<m_state, pc>>
  /\ UNCHANGED <<m_storage, fulfiller, round>>

(* One turn of the loop of add_waiter(): link in front of the head that    *)
(* was seen, then the compare exchange, which keeps the flag bits.         *)
AddWaiter(t) ==
  /\ t \in Linked
  /\ pc[t] = "add"
  /\ ~seen[t].fulfilled
  /\ link' = [link EXCEPT ![t] = seen[t].list]
  /\ IF m_state = seen[t]
     THEN /\ m_state' = [m_state EXCEPT !.list = t]
          /\ Goto(t, IF t \in Tasklets THEN "suspend" ELSE "suspended")
          /\ Saw(t, Fresh)
     ELSE /\ Saw(t, m_state)
          /\ UNCHANGED <<m_state, pc>>
  /\ UNCHANGED <<m_storage, fulfiller, round>>

(* suspend(): the fiber of the tasklet becomes Suspended.                  *)
Suspend(t) ==
  /\ t \in Tasklets
  /\ pc[t] = "suspend"
  /\ Goto(t, "suspended")
  /\ UNCHANGED <<m_state, m_storage, link, seen, fulfiller, round>>

-----------------------------------------------------------------------------
(* wait() of a plain thread. *)

LoadInThread(p) ==
  /\ p \in Threads
  /\ pc[p] \in {"idle", "reload"}
  /\ IF m_state.fulfilled
     THEN Goto(p, "idle") /\ Saw(p, Fresh)
     ELSE Goto(p, "or") /\ Saw(p, m_state)
  /\ UNCHANGED <<m_state, m_storage, link, fulfiller, round>>

(* fetch_or of the threads bit, which may hit a promise fulfilled since.   *)
SetThreadsBit(p) ==
  /\ p \in Threads
  /\ pc[p] = "or"
  /\ m_state' = [m_state EXCEPT !.threads = TRUE]
  /\ Goto(p, "futex")
  /\ UNCHANGED <<m_storage, link, seen, fulfiller, round>>

(* Mutant of FutexWait: wait() does not look at the word again. *)
FutexWaitOnce(p) ==
  /\ p \in Threads
  /\ pc[p] = "futex"
  /\ LET expected == [seen[p] EXCEPT !.threads = TRUE] IN
       Goto(p, IF FutexWord(m_state) = FutexWord(expected) THEN "asleep" ELSE "idle")
  /\ Saw(p, Fresh)
  /\ UNCHANGED <<m_state, m_storage, link, fulfiller, round>>

(* wait_address(): sleep only if the word still is the expected one.       *)
FutexWait(p) ==
  /\ p \in Threads
  /\ pc[p] = "futex"
  /\ LET expected == [seen[p] EXCEPT !.threads = TRUE] IN
       Goto(p, IF FutexWord(m_state) = FutexWord(expected) THEN "asleep" ELSE "reload")
  /\ Saw(p, Fresh)
  /\ UNCHANGED <<m_state, m_storage, link, fulfiller, round>>

Interrupted(p) ==
  /\ p \in Threads
  /\ pc[p] = "asleep"
  /\ Goto(p, "reload")
  /\ UNCHANGED <<m_state, m_storage, link, seen, fulfiller, round>>

-----------------------------------------------------------------------------
(* fulfill(): store the value, then wake_all(). *)

StoreValue ==
  /\ fulfiller.pc = "idle"
  /\ ~m_state.fulfilled
  /\ m_storage' = TRUE
  /\ fulfiller' = [fulfiller EXCEPT !.pc = "exchange"]
  /\ UNCHANGED <<m_state, link, seen, pc, round>>

ExchangeState ==
  /\ fulfiller.pc = "exchange"
  /\ m_state' = Fulfilled
  /\ fulfiller' = [fulfiller EXCEPT !.pc = "wake", !.state = m_state]
  /\ UNCHANGED <<m_storage, link, seen, pc, round>>

(* wake_address_all() if the threads bit was set.                          *)
WakeThreads ==
  /\ fulfiller.pc = "wake"
  /\ pc' = [p \in All |->
              IF fulfiller.state.threads /\ pc[p] = "asleep" THEN "reload" ELSE pc[p]]
  /\ fulfiller' = [fulfiller EXCEPT !.pc = "walk", !.cursor = fulfiller.state.list,
                                    !.state = Fresh]
  /\ UNCHANGED <<m_state, m_storage, link, seen, round>>

(* pop_linked_tasklet() before the tasklet is rescheduled. *)
PopWaiter ==
  /\ fulfiller.pc = "walk"
  /\ fulfiller.cursor # Null
  /\ link' = [link EXCEPT ![fulfiller.cursor] = Null]
  /\ fulfiller' = [fulfiller EXCEPT !.pc = "schedule", !.target = fulfiller.cursor,
                                    !.cursor = link[fulfiller.cursor]]
  /\ UNCHANGED <<m_state, m_storage, seen, pc, round>>

ScheduleWaiter ==
  /\ fulfiller.pc = "schedule"
  /\ pc[fulfiller.target] = "suspended"
  /\ Goto(fulfiller.target, IF fulfiller.target \in Tasklets THEN "idle" ELSE "queued")
  /\ fulfiller' = [fulfiller EXCEPT !.pc = "walk", !.target = Null]
  /\ UNCHANGED <<m_state, m_storage, link, seen, round>>

WakeDone ==
  /\ fulfiller.pc = "walk"
  /\ fulfiller.cursor = Null
  /\ fulfiller' = [fulfiller EXCEPT !.pc = "idle"]
  /\ UNCHANGED <<m_state, m_storage, link, seen, pc, round>>

-----------------------------------------------------------------------------

(* reset(), which the caller runs when nobody is inside wait() (the frame  *)
(* pacer after its own wait()); continuations of the round have been       *)
(* scheduled, the next round brings new ones.                              *)
Reset ==
  /\ m_state.fulfilled
  /\ round < MaxRounds - 1
  /\ \A p \in Waiters : pc[p] = "idle"
  /\ \A c \in Continuations : pc[c] \in {"idle", "queued"}
  /\ m_state' = Fresh
  /\ m_storage' = FALSE
  /\ round' = round + 1
  /\ pc' = [p \in All |-> "idle"]
  /\ UNCHANGED <<link, seen, fulfiller>>

-----------------------------------------------------------------------------

(* A call of wait() or wake_on_fulfillment(). *)
Call(p) == LoadState(p) \/ (pc[p] = "idle" /\ LoadInThread(p))

Continue(p) ==
  \/ AlreadyFulfilled(p)
  \/ AddWaiter(p)
  \/ Suspend(p)
  \/ pc[p] = "reload" /\ LoadInThread(p)
  \/ SetThreadsBit(p)
  \/ FutexWait(p)

Fulfill ==
  \/ StoreValue
  \/ ExchangeState
  \/ WakeThreads
  \/ PopWaiter
  \/ ScheduleWaiter
  \/ WakeDone

Next ==
  \/ \E p \in All : Call(p) \/ Continue(p) \/ Interrupted(p)
  \/ Fulfill
  \/ Reset

Spec == Init /\ [][Next]_vars

(* Waiters and the fulfiller keep running; the promise is fulfilled in     *)
(* every round.  Nobody has to wait, and no reset has to happen.           *)
FairSpec ==
  /\ Spec
  /\ \A p \in All : WF_vars(Continue(p))
  /\ WF_vars(Fulfill)

-----------------------------------------------------------------------------

(* The word, the links and the locals are of their kinds; a fulfilled word *)
(* points at nobody.                                                       *)
TypeOK ==
  /\ m_state \in State
  /\ m_state.fulfilled => m_state.list = Null
  /\ m_storage \in BOOLEAN
  /\ link \in [Linked -> Linked \cup {Null}]
  /\ seen \in [All -> State]
  /\ pc \in [All -> Locations]
  /\ fulfiller \in [pc : {"idle", "exchange", "wake", "walk", "schedule"}, state : State,
                    cursor : Linked \cup {Null}, target : Linked \cup {Null}]
  /\ round \in 0 .. MaxRounds - 1

(* wait() returns, and a continuation is scheduled, only when the promise  *)
(* is fulfilled and its value stored ("suspends the calling tasklet until  *)
(* the promise has been fulfilled", promise.hh).                           *)
ReturnsOnlyFulfilled ==
  [][\A p \in All :
       (pc[p] # "idle" /\ pc'[p] = "idle" /\ round' = round) \/ (pc[p] # "queued" /\ pc'[p] = "queued")
         => m_state.fulfilled /\ m_storage]_vars

(* Tasklets and continuations that only a wake-up can set going. *)
Parked == {t \in Linked : pc[t] \in {"suspend", "suspended"}}

Pointers(t) ==
  {<<"head", x>> : x \in {y \in {m_state.list} : y = t}}
  \cup {<<"taken", x>> : x \in {y \in {fulfiller.state.list} : y = t /\ fulfiller.pc = "wake"}}
  \cup {<<"link", u>> : u \in {v \in Parked : link[v] = t}}
  \cup {<<"cursor", x>> : x \in {y \in {fulfiller.cursor} : y = t}}
  \cup {<<"target", x>> : x \in {y \in {fulfiller.target} : y = t}}

(* Each of them is reachable by exactly one wake-up: the race of           *)
(* add_waiter() with wake_all() neither drops nor duplicates a waiter.     *)
OnePointerEach ==
  \A t \in Linked : Cardinality(Pointers(t)) = IF t \in Parked THEN 1 ELSE 0

(* A thread asleep on the futex is never forgotten: either the threads bit *)
(* is still in the word of an unfulfilled promise, or wake_all() carries   *)
(* it and has not issued its wake.                                         *)
SleepersKnown ==
  (\E p \in Threads : pc[p] = "asleep")
    => \/ m_state.threads /\ ~m_state.fulfilled
       \/ fulfiller.pc = "wake" /\ fulfiller.state.threads

(* Everybody who waits on the promise goes on once it is fulfilled, and    *)
(* every continuation is scheduled: no order of loads, exchanges, fetch_or *)
(* and futex calls strands a waiter.                                       *)
EveryWaiterReturns ==
  /\ \A p \in Waiters : pc[p] # "idle" ~> pc[p] = "idle"
  /\ \A c \in Continuations : pc[c] # "idle" ~> pc[c] = "queued"

(* Nobody who waits is out of reach of the wake-up, or in its reach twice. *)
WaitersSound == TypeOK /\ OnePointerEach /\ SleepersKnown

=============================================================================
