---------------------------- MODULE MCSuspending ----------------------------
(***************************************************************************)
(* Two things a tasklet suspends on, one of them chosen at the start.      *)
(*   mutex  three tasklets and one plain thread that lock and unlock for   *)
(*          ever                                                           *)
(*   io     three requests, one of them on a fence, and the dispatcher,    *)
(*          whose submission ring holds fewer                              *)
(***************************************************************************)
EXTENDS TaskletMutex, IoDispatcher

CONSTANTS a, b, c, th

MCTasklets == {a, b, c}
MCThreads == {th}

VARIABLES component

MCVars == <<component, vars, ioVars>>

MutexStep(A) == component = "mutex" /\ A /\ UNCHANGED <<component, ioVars>>
IoStep(A) == component = "io" /\ A /\ UNCHANGED <<component, vars>>

MCInit == component \in {"mutex", "io"} /\ Init /\ IoInit

MCNext == MutexStep(Next) \/ IoStep(IoNext)

(* The fairness of TaskletMutex and of IoDispatcher. *)
MCFairness ==
  /\ \A d \in Callers : WF_MCVars(MutexStep(Continue(d)))
  /\ WF_MCVars(IoStep(Dispatch))
  /\ WF_MCVars(IoStep(FireSubmit)) /\ WF_MCVars(IoStep(CompleteQuit))
  /\ \A r \in Requests :
       WF_MCVars(IoStep(CompleteRequest(r))) /\ WF_MCVars(IoStep(Count(r) \/ Signal(r)))

MCSpec == MCInit /\ [][MCNext]_MCVars /\ MCFairness

(* mutex.cc, lock(): a tasklet that suspended is woken, and a mutex that is *)
(* waited for is locked again; see TaskletMutex.  The tasklets differ in    *)
(* their names only: one of them stands for all.                            *)
NobodyIsForgotten == (pc[a] = "suspended" ~> pc[a] = "lock") /\ SomebodyLocks

=============================================================================
