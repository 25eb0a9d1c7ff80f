--------------------------- MODULE TaskletLifecycle ---------------------------
(***************************************************************************)
(* What the tasklet scheduler promises: a scheduled tasklet is started     *)
(* once, by one worker; whenever it pauses (yields or suspends) it may be  *)
(* resumed by any worker; a worker runs one tasklet at a time and a        *)
(* tasklet is never on two workers.                                        *)
(***************************************************************************)
CONSTANTS Workers, Tasklets, None

VARIABLES
  phase,    (* new, ready, running, paused or done, of each tasklet        *)
  runs      (* the tasklet each worker executes, or None                   *)

Init ==
  /\ phase = [t \in Tasklets |-> "new"]
  /\ runs = [w \in Workers |-> None]

Move(t, from, to) ==
  /\ phase[t] = from
  /\ phase' = [phase EXCEPT ![t] = to]

Schedule(t) == Move(t, "new", "ready") /\ UNCHANGED runs

Execute(w, t) ==
  /\ runs[w] = None
  /\ Move(t, "ready", "running") \/ Move(t, "paused", "running")
  /\ runs' = [runs EXCEPT ![w] = t]

Leave(w, t) ==
  /\ runs[w] = t
  /\ Move(t, "running", "paused") \/ Move(t, "running", "done")
  /\ runs' = [runs EXCEPT ![w] = None]

Next ==
  \E t \in Tasklets :
    \/ Schedule(t)
    \/ \E w \in Workers : Execute(w, t) \/ Leave(w, t)

Spec == Init /\ [][Next]_<<phase, runs>>

=============================================================================
