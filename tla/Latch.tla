--------------------------------- MODULE Latch ---------------------------------
(***************************************************************************)
(* tasklet::Latch (engine/sources/tasklet/latch.cc): a counter in front of *)
(* a promise.  Tasklets count down, some of them wait as well (arrive()),  *)
(* and one that only waits has the latch in its frame: it goes when that   *)
(* tasklet goes on (as in tools/tasklet_bench.cc).                         *)
(*                                                                         *)
(* Of the promise the steps that others can see are kept: a waiter joins   *)
(* its list unless it is fulfilled, fulfill() exchanges the list for the   *)
(* fulfilled bit and then schedules the waiters one by one without looking *)
(* at the promise again.                                                   *)
(***************************************************************************)
EXTENDS Naturals, FiniteSets

CONSTANTS
  Arriving,    (* tasklets that call arrive()                              *)
  Counting,    (* tasklets that call count_down()                          *)
  Holder       (* the tasklet that has the latch, and calls wait()         *)

ASSUME LatchAssumption ==
  /\ IsFiniteSet(Arriving) /\ IsFiniteSet(Counting)
  /\ Arriving \cap Counting = {} /\ Holder \notin Arriving \cup Counting

Participants == Arriving \cup Counting \cup {Holder}

VARIABLES
  m_value, m_waiting, m_fulfilled,
  at,          (* where each tasklet is                                    *)
  detached,    (* the list fulfill() has still to wake                     *)
  left         (* how the holder went on, if it has: "early" or "woken"    *)

latchVars == <<m_value, m_waiting, m_fulfilled, at, detached, left>>

LatchInit ==
  /\ m_value = Cardinality(Arriving \cup Counting)
  /\ m_waiting = {} /\ m_fulfilled = FALSE
  /\ at = [t \in Participants |-> IF t = Holder THEN "try" ELSE "start"]
  /\ detached = {} /\ left = "no"

Move(t, place) == at' = [at EXCEPT ![t] = place]

(* What a tasklet does after count_down(): arrive() goes on to wait(). *)
AfterCount(t) == IF t \in Arriving THEN "try" ELSE "done"

(* Mutant of CountDown: takes what fetch_sub returns for the new value. *)
CountDownOfNewValue(t) ==
  /\ at[t] = "start"
  /\ m_value' = m_value - 1
  /\ Move(t, IF m_value = 0 THEN "fulfil" ELSE AfterCount(t))
  /\ UNCHANGED <<m_waiting, m_fulfilled, detached, left>>

(* count_down(), up to the promise: whoever finds the value it subtracts   *)
(* is the last.                                                            *)
CountDown(t) ==
  /\ at[t] = "start"
  /\ m_value' = m_value - 1
  /\ Move(t, IF m_value = 1 THEN "fulfil" ELSE AfterCount(t))
  /\ UNCHANGED <<m_waiting, m_fulfilled, detached, left>>

(* fulfill(): the exchange. *)
Fulfil(t) ==
  /\ at[t] = "fulfil"
  /\ m_fulfilled' = TRUE
  /\ detached' = m_waiting /\ m_waiting' = {}
  /\ Move(t, "wake")
  /\ UNCHANGED <<m_value, left>>

(* fulfill(): a waiter is scheduled, or there is none left. *)
Wake(t) ==
  /\ at[t] = "wake"
  /\ \/ \E w \in detached :
          /\ detached' = detached \ {w}
          /\ at' = [at EXCEPT ![w] = "woken"]
     \/ detached = {} /\ Move(t, AfterCount(t)) /\ UNCHANGED detached
  /\ UNCHANGED <<m_value, m_waiting, m_fulfilled, left>>

(* wait(), its load of the value. *)
TryWait(t) ==
  /\ at[t] = "try"
  /\ Move(t, IF m_value = 0 THEN "early" ELSE "add")
  /\ UNCHANGED <<m_value, m_waiting, m_fulfilled, detached, left>>

(* wait(), its call of Promise::wait(). *)
AddWaiter(t) ==
  /\ at[t] = "add"
  /\ IF m_fulfilled THEN Move(t, "woken") /\ UNCHANGED m_waiting
                    ELSE m_waiting' = m_waiting \cup {t} /\ Move(t, "suspended")
  /\ UNCHANGED <<m_value, m_fulfilled, detached, left>>

(* wait() returns, after its assertion; the holder's frame ends. *)
Leave(t) ==
  /\ at[t] \in {"early", "woken"}
  /\ Move(t, "done")
  /\ left' = IF t = Holder THEN at[t] ELSE left
  /\ UNCHANGED <<m_value, m_waiting, m_fulfilled, detached>>

LatchNext ==
  \E t \in Participants : CountDown(t) \/ Fulfil(t) \/ Wake(t) \/ TryWait(t) \/ AddWaiter(t) \/ Leave(t)

LatchSpec == LatchInit /\ [][LatchNext]_latchVars

-----------------------------------------------------------------------------
(* Properties *)

(* Participants that have the latch still to read or write. *)
LatchUsers == {t \in Participants : at[t] \in {"start", "fulfil", "try", "add"}}

(* Nobody passes before all have counted down; the promise is fulfilled    *)
(* once, by the last; and when the calls are over nobody is left           *)
(* suspended.  If the holder was suspended, then nobody but tasklets that  *)
(* wait for themselves uses the latch once it has left; if it went early,  *)
(* on a zero it saw, the last count_down() may still have it to fulfil.    *)
LatchSound ==
  /\ \A t \in Participants : at[t] \in {"early", "woken"} => m_value = 0
  /\ Cardinality({t \in Participants : at[t] \in {"fulfil", "wake"}}) <= 1
  /\ m_fulfilled => m_value = 0 /\ m_waiting = {} /\ \A t \in Participants : at[t] # "fulfil"
  /\ \A t \in Participants : at[t] = "suspended" <=> t \in m_waiting \cup detached
  /\ m_value = 0 /\ (\A t \in Participants : at[t] \in {"suspended", "done"}) => \A t \in Participants : at[t] = "done"
  /\ left = "woken" => LatchUsers \subseteq Arriving /\ \A t \in LatchUsers : at[t] \in {"try", "add"}
  /\ left = "early" => LatchUsers \cap Counting = {} \/ \E t \in LatchUsers \cap Counting : LatchUsers \cap Counting = {t} /\ at[t] = "fulfil"

=============================================================================
