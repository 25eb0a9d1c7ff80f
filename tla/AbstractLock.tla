---------------------------- MODULE AbstractLock ----------------------------
(***************************************************************************)
(* What tasklet::Mutex promises (mutex.hh): exclusive ownership between    *)
(* the return of lock() or a successful try_lock() and unlock().           *)
(***************************************************************************)
CONSTANTS
  Callers,      (* tasklets and plain threads that use the mutex           *)
  NoOwner

VARIABLE owner

Init == owner = NoOwner

Lock(c) == owner = NoOwner /\ owner' = c

Unlock(c) == owner = c /\ owner' = NoOwner

Next == \E c \in Callers : Lock(c) \/ Unlock(c)

Spec == Init /\ [][Next]_owner

=============================================================================
