-------------------------- MODULE CountingSemaphore --------------------------
(***************************************************************************)
(* What platform::Semaphore promises its callers: a number of permits and  *)
(* the set of threads blocked in wait().  A thread leaves wait() exactly   *)
(* when it takes one permit; post() adds one; try_wait() takes one or      *)
(* changes nothing.  Semaphore.tla is the futex implementation.            *)
(***************************************************************************)
EXTENDS Naturals

CONSTANTS
  Threads,      (* the threads that use the semaphore                      *)
  PermitLimit   (* bound: permits outstanding at once                      *)

VARIABLES
  permits,      (* permits that may be taken                               *)
  waiting       (* threads inside wait()                                   *)

absVars == <<permits, waiting>>

Init ==
  /\ permits = 0
  /\ waiting = {}

Post ==
  /\ permits < PermitLimit
  /\ permits' = permits + 1
  /\ UNCHANGED waiting

(* A call of wait() that has not found its permit yet. *)
BeginWait(t) ==
  /\ t \notin waiting
  /\ waiting' = waiting \cup {t}
  /\ UNCHANGED permits

EndWait(t) ==
  /\ t \in waiting
  /\ permits > 0
  /\ permits' = permits - 1
  /\ waiting' = waiting \ {t}

(* A successful try_wait(); an unsuccessful one is a stuttering step. *)
TryWait(t) ==
  /\ t \notin waiting
  /\ permits > 0
  /\ permits' = permits - 1
  /\ UNCHANGED waiting

Take == \E t \in Threads : EndWait(t) \/ TryWait(t)

Next == Post \/ Take \/ \E t \in Threads : BeginWait(t)

Spec == Init /\ [][Next]_absVars

(***************************************************************************)
(* The liveness half of the promise: permits and blocked threads do not    *)
(* coexist for ever, somebody takes a permit.  Which thread is not         *)
(* promised (the futex queue and the compare exchange are not fair).       *)
(***************************************************************************)
WaitersServed == WF_absVars(\E t \in Threads : t \in waiting /\ Take)

FairSpec == Spec /\ WaitersServed

=============================================================================
