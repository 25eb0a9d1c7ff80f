---------------------------- MODULE SuspendingProofs ----------------------------
(***************************************************************************)
(* What suspends tasklets: the mutex and the IO dispatcher.                *)
(*                                                                         *)
(* tasklet::Mutex, for any sets of tasklets and threads: mutual exclusion  *)
(* rests on LockedByOwner: the only way to become owner is an exchange     *)
(* that found the sentinel, and the sentinel is absent while there is an   *)
(* owner.  TypeOK needs to know that a cursor or target in use is not null *)
(* and that a pushed value was not the sentinel.                           *)
(*                                                                         *)
(* IoDispatcher, for any finite set of requests, any fences among them,    *)
(* any submission ring that holds both polls, and any batch: a request, or *)
(* one of the two polls, is an entry that wanders from the queue over the  *)
(* submission ring and the kernel to the completions.  What is inductive   *)
(* is that these are four disjoint sets without repetitions                *)
(* (EntriesApart), that a request that was submitted is in one of them or  *)
(* fulfilled (RequestsKnown), that the poll of the submit event is never   *)
(* lost (PollKnown), and that pending requests come with somebody who is   *)
(* to set the event, or with the event set where its poll will see it      *)
(* (Told).                                                                 *)
(***************************************************************************)
EXTENDS TaskletMutex, IoDispatcher, FiniteSetTheorems, TLAPS

-----------------------------------------------------------------------------
(* The mutex. *)

(* unlock() only walks tasklets. *)
CursorsValid ==
  \A c \in Callers :
    /\ pc[c] = "pop" => cursor[c] \in Tasklets
    /\ pc[c] = "schedule" => target[c] \in Tasklets

(* Only tasklets enter the list code of lock(). *)
OnlyTaskletsPark ==
  \A c \in Callers : pc[c] \in {"push", "suspend", "suspended"} => c \in Tasklets

MutexInv == TypeOK /\ MutualExclusion /\ LockedByOwner /\ CursorsValid /\ OnlyTaskletsPark

LEMMA MutexInitInv == Init => MutexInv
BY MutexAssumption
   DEF Init, MutexInv, TypeOK, MutualExclusion, LockedByOwner, CursorsValid, OnlyTaskletsPark,
       Locations, Callers

LEMMA AcquireInv ==
  ASSUME MutexInv, NEW c \in Callers, TryLock(c) \/ Exchange(c)
  PROVE  MutexInv'
<1>1. /\ m_wait_list = Unlocked /\ m_wait_list' = Null
      /\ pc' = [pc EXCEPT ![c] = "owner"]
      /\ UNCHANGED <<link, seen, cursor, target>>
  BY DEF TryLock, Exchange, Goto
<1>2. \A d \in Callers : pc[d] # "owner"
  BY <1>1 DEF MutexInv, LockedByOwner
<1>3. \A d \in Callers : pc'[d] = IF d = c THEN "owner" ELSE pc[d]
  BY <1>1 DEF MutexInv, TypeOK
<1>4. TypeOK'
  BY <1>1 DEF MutexInv, TypeOK, Locations
<1>5. MutualExclusion' /\ LockedByOwner'
  BY <1>1, <1>2, <1>3, MutexAssumption DEF MutualExclusion, LockedByOwner
<1>6. CursorsValid' /\ OnlyTaskletsPark'
  BY <1>1, <1>3 DEF MutexInv, CursorsValid, OnlyTaskletsPark
<1> QED
  BY <1>4, <1>5, <1>6 DEF MutexInv

LEMMA WaitInv ==
  ASSUME MutexInv, NEW c \in Callers,
         Lock(c) \/ (c \in Tasklets /\ (Link(c) \/ Push(c) \/ Suspend(c)))
  PROVE  MutexInv'
<1>1. CASE Lock(c)
  BY <1>1, MutexAssumption
     DEF Lock, Goto, MutexInv, TypeOK, Locations, MutualExclusion, LockedByOwner,
         CursorsValid, OnlyTaskletsPark, Callers
<1>2. CASE c \in Tasklets /\ Link(c)
  <2>1. m_wait_list \in Tasklets \cup {Null}
    BY <1>2 DEF Link, MutexInv, TypeOK
  <2> QED
    BY <1>2, <2>1
       DEF Link, Goto, MutexInv, TypeOK, Locations, MutualExclusion, LockedByOwner,
           CursorsValid, OnlyTaskletsPark, Callers
<1>3. CASE c \in Tasklets /\ Push(c)
  <2>1. CASE m_wait_list = seen[c]
    <3>1. m_wait_list # Unlocked /\ c # Unlocked
      BY <1>3, <2>1, MutexAssumption DEF MutexInv, TypeOK, Callers
    <3> QED
      BY <1>3, <2>1, <3>1
         DEF Push, Goto, MutexInv, TypeOK, Locations, MutualExclusion, LockedByOwner,
             CursorsValid, OnlyTaskletsPark, Callers
  <2>2. CASE m_wait_list # seen[c]
    BY <1>3, <2>2
       DEF Push, Goto, MutexInv, TypeOK, Locations, MutualExclusion, LockedByOwner,
           CursorsValid, OnlyTaskletsPark, Callers
  <2> QED
    BY <2>1, <2>2
<1>4. CASE c \in Tasklets /\ Suspend(c)
  BY <1>4
     DEF Suspend, Goto, MutexInv, TypeOK, Locations, MutualExclusion, LockedByOwner,
         CursorsValid, OnlyTaskletsPark, Callers
<1> QED
  BY <1>1, <1>2, <1>3, <1>4

LEMMA WakeInv ==
  ASSUME MutexInv, NEW c \in Callers, Unlock(c) \/ Pop(c) \/ Schedule(c)
  PROVE  MutexInv'
<1>1. CASE Unlock(c)
  <2>1. m_wait_list # Unlocked
    BY <1>1 DEF Unlock, MutexInv, LockedByOwner
  <2>2. \A d \in Callers \ {c} : pc[d] # "owner"
    BY <1>1 DEF Unlock, MutexInv, MutualExclusion
  <2> QED
    BY <1>1, <2>1, <2>2
       DEF Unlock, Goto, MutexInv, TypeOK, Locations, MutualExclusion, LockedByOwner,
           CursorsValid, OnlyTaskletsPark
<1>2. CASE Pop(c)
  <2>1. cursor[c] \in Tasklets
    BY <1>2 DEF Pop, MutexInv, CursorsValid
  <2> QED
    BY <1>2, <2>1
       DEF Pop, Goto, MutexInv, TypeOK, Locations, MutualExclusion, LockedByOwner,
           CursorsValid, OnlyTaskletsPark
<1>3. CASE Schedule(c)
  <2>1. target[c] \in Tasklets /\ target[c] # c
    BY <1>3 DEF Schedule, MutexInv, CursorsValid
  <2> QED
    BY <1>3, <2>1
       DEF Schedule, MutexInv, TypeOK, Locations, MutualExclusion, LockedByOwner,
           CursorsValid, OnlyTaskletsPark, Callers
<1> QED
  BY <1>1, <1>2, <1>3

LEMMA MutexStepInv == MutexInv /\ [Next]_vars => MutexInv'
<1> SUFFICES ASSUME MutexInv, [Next]_vars PROVE MutexInv'
  OBVIOUS
<1>1. CASE UNCHANGED vars
  BY <1>1 DEF vars, MutexInv, TypeOK, MutualExclusion, LockedByOwner, CursorsValid, OnlyTaskletsPark
<1>2. ASSUME NEW c \in Callers, TryLock(c) \/ Lock(c) \/ Continue(c)
      PROVE  MutexInv'
  BY <1>2, AcquireInv, WaitInv, WakeInv DEF Continue
<1> QED
  BY <1>1, <1>2 DEF Next

LEMMA MutexInductive == Spec => []MutexInv
BY MutexInitInv, MutexStepInv, PTL DEF Spec

(* Two callers never own the mutex together, for any number of tasklets    *)
(* and threads that lock, try to lock, suspend and unlock concurrently.    *)
THEOREM MutexExclusion == Spec => []MutualExclusion
<1>1. MutexInv => MutualExclusion
  BY DEF MutexInv
<1> QED
  BY <1>1, MutexInductive, PTL

(* The word holds the unlocked sentinel exactly while nobody owns it. *)
THEOREM MutexLockedByOwner == Spec => []LockedByOwner
<1>1. MutexInv => LockedByOwner
  BY DEF MutexInv
<1> QED
  BY <1>1, MutexInductive, PTL

(* The pointers stay of their kind, in particular unlock() never walks     *)
(* into null or the sentinel.                                              *)
THEOREM MutexTypes == Spec => []TypeOK
<1>1. MutexInv => TypeOK
  BY DEF MutexInv
<1> QED
  BY <1>1, MutexInductive, PTL

-----------------------------------------------------------------------------
(* The refinement of AbstractLock. *)

(* The owner, read off any locations that exclude each other. *)
LEMMA OwnerIs ==
  ASSUME NEW p, \A c, d \in Callers : p[c] = "owner" /\ p[d] = "owner" => c = d
  PROVE  /\ \A c \in Callers : p[c] = "owner" <=> OwnerIn(p) = c
         /\ (\A c \in Callers : p[c] # "owner") => OwnerIn(p) = Null
<1>1. CASE \A c \in Callers : p[c] # "owner"
  BY <1>1, MutexAssumption DEF OwnerIn
<1>2. CASE \E c \in Callers : p[c] = "owner"
  <2>1. PICK c \in Callers : p[c] = "owner"
    BY <1>2
  <2>2. \A d \in Callers : p[d] = "owner" <=> d = c
    BY <2>1
  <2>3. (CHOOSE d \in Callers : p[d] = "owner") = c
    BY <2>1, <2>2
  <2> QED
    BY <1>2, <2>2, <2>3 DEF OwnerIn
<1> QED
  BY <1>1, <1>2

LEMMA OwnerBeforeAfter ==
  ASSUME MutexInv, MutexInv'
  PROVE  /\ \A c \in Callers : pc[c] = "owner" <=> Owner = c
         /\ (\A c \in Callers : pc[c] # "owner") => Owner = Null
         /\ \A c \in Callers : pc'[c] = "owner" <=> Owner' = c
         /\ (\A c \in Callers : pc'[c] # "owner") => Owner' = Null
BY OwnerIs DEF MutexInv, MutualExclusion, Owner

(* A step after which the same callers own the mutex keeps the owner. *)
LEMMA OwnerStays ==
  ASSUME MutexInv, MutexInv', \A c \in Callers : pc'[c] = "owner" <=> pc[c] = "owner"
  PROVE  Owner' = Owner
BY OwnerBeforeAfter

LEMMA StepRefines == MutexInv /\ MutexInv' /\ [Next]_vars => [Abstract!Next]_Owner
<1> SUFFICES ASSUME MutexInv, MutexInv', [Next]_vars PROVE [Abstract!Next]_Owner
  OBVIOUS
<1>1. CASE UNCHANGED vars
  BY <1>1, OwnerStays DEF vars
<1>2. ASSUME NEW c \in Callers, TryLock(c) \/ Exchange(c)
      PROVE  Abstract!Lock(c)
  <2>1. /\ \A d \in Callers : pc[d] # "owner"
        /\ pc'[c] = "owner"
    BY <1>2 DEF TryLock, Exchange, Goto, MutexInv, LockedByOwner, TypeOK
  <2> QED
    BY <2>1, OwnerBeforeAfter DEF Abstract!Lock
<1>3. ASSUME NEW c \in Callers, Unlock(c)
      PROVE  Abstract!Unlock(c)
  <2>1. pc[c] = "owner" /\ pc'[c] # "owner"
    BY <1>3 DEF Unlock, Goto, MutexInv, TypeOK
  <2>2. \A d \in Callers : pc'[d] # "owner"
    BY <1>3, <2>1 DEF Unlock, Goto, MutexInv, TypeOK, MutualExclusion
  <2> QED
    BY <2>1, <2>2, OwnerBeforeAfter DEF Abstract!Unlock
<1>4. ASSUME NEW c \in Callers,
             \/ Lock(c) \/ Pop(c) \/ Schedule(c)
             \/ c \in Tasklets /\ (Link(c) \/ Push(c) \/ Suspend(c))
      PROVE  Owner' = Owner
  <2>1. \A d \in Callers : pc'[d] = "owner" <=> pc[d] = "owner"
    BY <1>4 DEF Lock, Pop, Schedule, Link, Push, Suspend, Goto, MutexInv, TypeOK, CursorsValid, Callers
  <2> QED
    BY <2>1, OwnerStays
<1> QED
  BY <1>1, <1>2, <1>3, <1>4 DEF Next, Continue, Abstract!Next

(* The wait-list mutex is a lock: ownership passes only from nobody to a   *)
(* caller and from the owner to nobody.                                    *)
THEOREM MutexRefines == Spec => ImplementsLock
<1>1. Init => Abstract!Init
  BY MutexAssumption DEF Init, Abstract!Init, Owner, OwnerIn
<1> QED
  BY <1>1, MutexInductive, StepRefines, PTL DEF Spec, ImplementsLock, Abstract!Spec

-----------------------------------------------------------------------------
(* The list of waiters. *)

Once(t) == IF t \in Parked THEN \E p : Pointers(t) = {p} ELSE Pointers(t) = {}

(* The link a tasklet pushes is what it compares with, and a tasklet about *)
(* to be rescheduled has no link left: with these no link is lost when a   *)
(* tasklet parks or goes on.                                               *)
LinksKept ==
  /\ \A t \in Tasklets : pc[t] = "push" => link[t] = seen[t]
  /\ \A c \in Callers : pc[c] = "schedule" => link[target[c]] = Null

ListInv == LinksKept /\ \A t \in Tasklets : Once(t)

LEMMA OnceMeansOne == (\A t \in Tasklets : Once(t)) => OnePointerEach
<1>1. \A p : Cardinality({p}) = 1
  BY FS_Singleton
<1> QED
  BY <1>1, FS_EmptySet DEF Once, OnePointerEach

(* The kinds of pointers, one by one. *)
LEMMA PointerKinds ==
  ASSUME NEW t \in Tasklets
  PROVE  \A p : p \in Pointers(t) <=>
           \/ p = <<"head", t>> /\ m_wait_list = t
           \/ \E u \in Parked : p = <<"link", u>> /\ link[u] = t
           \/ \E c \in Callers : p = <<"cursor", c>> /\ pc[c] \in {"pop", "schedule"} /\ cursor[c] = t
           \/ \E c \in Callers : p = <<"target", c>> /\ pc[c] = "schedule" /\ target[c] = t
BY DEF Pointers

(* Where the sets of pointers and of parked tasklets stay, so does Once. *)
LEMMA OnceStays ==
  ASSUME NEW t \in Tasklets, Once(t), Pointers(t)' = Pointers(t), t \in Parked' <=> t \in Parked
  PROVE  Once(t)'
BY DEF Once

(* One pointer turns into another. *)
LEMMA OnceMoves ==
  ASSUME NEW t \in Tasklets, Once(t), NEW p, NEW q, p \in Pointers(t),
         Pointers(t)' = (Pointers(t) \ {p}) \cup {q}, t \in Parked' <=> t \in Parked
  PROVE  Once(t)'
BY DEF Once

LEMMA InitList == Init => ListInv
BY MutexAssumption DEF Init, ListInv, LinksKept, Once, Parked, Pointers, Callers

LEMMA PlainStepList ==
  ASSUME MutexInv, ListInv, NEW c \in Callers,
         TryLock(c) \/ Exchange(c) \/ Lock(c) \/ (c \in Tasklets /\ (Link(c) \/ Suspend(c)))
  PROVE  ListInv'
<1>1. \A d \in Callers : d # c => pc'[d] = pc[d]
  BY DEF TryLock, Exchange, Lock, Link, Suspend, Goto, MutexInv, TypeOK
<1>2. /\ pc[c] \notin {"pop", "schedule"} /\ pc'[c] \notin {"pop", "schedule"}
      /\ c \in Parked' <=> c \in Parked
      /\ cursor' = cursor /\ target' = target
  BY DEF TryLock, Exchange, Lock, Link, Suspend, Goto, MutexInv, TypeOK, Parked, Callers
<1>3. Parked' = Parked
  BY <1>1, <1>2 DEF Parked, Callers
<1>4. \A u \in Parked : link'[u] = link[u]
  BY DEF TryLock, Exchange, Lock, Link, Suspend, Goto, MutexInv, TypeOK, Parked
<1>5. \A t \in Tasklets : m_wait_list' = t <=> m_wait_list = t
  BY MutexAssumption DEF TryLock, Exchange, Lock, Link, Suspend, Callers
<1>6. LinksKept'
  <2>1. \A t \in Tasklets : pc'[t] = "push" => link'[t] = seen'[t]
    BY DEF TryLock, Exchange, Lock, Link, Suspend, Goto, MutexInv, TypeOK, ListInv, LinksKept, Callers
  <2>2. ASSUME NEW d \in Callers, pc'[d] = "schedule"
        PROVE  link'[target'[d]] = Null
    <3>1. pc[d] = "schedule" /\ target[d] \in Tasklets /\ link[target[d]] = Null
      BY <2>2, <1>1, <1>2 DEF ListInv, LinksKept, MutexInv, CursorsValid
    <3>2. <<"target", d>> \in Pointers(target[d])
      BY <3>1, PointerKinds
    <3>3. target[d] \in Parked
      BY <3>1, <3>2 DEF ListInv, Once
    <3> QED
      BY <3>1, <3>3, <1>2, <1>4
  <2> QED
    BY <2>1, <2>2 DEF LinksKept
<1>7. ASSUME NEW t \in Tasklets PROVE Pointers(t)' = Pointers(t)
  <2>1. \A p : p \in Pointers(t)' <=>
           \/ p = <<"head", t>> /\ m_wait_list' = t
           \/ \E u \in Parked' : p = <<"link", u>> /\ link'[u] = t
           \/ \E d \in Callers : p = <<"cursor", d>> /\ pc'[d] \in {"pop", "schedule"} /\ cursor'[d] = t
           \/ \E d \in Callers : p = <<"target", d>> /\ pc'[d] = "schedule" /\ target'[d] = t
    BY DEF Pointers
  <2>2. \A p : p \in Pointers(t)' <=> p \in Pointers(t)
    <3>1. \A d \in Callers : (pc'[d] \in {"pop", "schedule"} <=> pc[d] \in {"pop", "schedule"})
                             /\ (pc'[d] = "schedule" <=> pc[d] = "schedule")
      BY <1>1, <1>2
    <3> QED
      BY <2>1, <3>1, <1>2, <1>3, <1>4, <1>5, PointerKinds
  <2> QED
    BY <2>2 DEF Pointers
<1> QED
  BY <1>3, <1>6, <1>7, OnceStays DEF ListInv

(* The second exchange: the tasklet becomes the head, and what was the     *)
(* head is now led to by its link.                                         *)
LEMMA PushList ==
  ASSUME MutexInv, ListInv, NEW c \in Tasklets, Push(c)
  PROVE  ListInv'
<1>1. /\ c \in Callers /\ c \notin Parked
      /\ pc[c] = "push" /\ pc'[c] \in {"suspend", "lock"}
      /\ \A d \in Callers : d # c => pc'[d] = pc[d]
      /\ cursor' = cursor /\ target' = target /\ seen' = seen
      /\ \A u \in Tasklets : u # c => link'[u] = link[u]
  BY DEF Push, Goto, MutexInv, TypeOK, Parked, Callers
<1>2. Pointers(c) = {}
  BY <1>1 DEF ListInv, Once
<1>3. LinksKept'
  <2>1. ASSUME NEW d \in Callers, pc'[d] = "schedule"
        PROVE  link'[target'[d]] = Null
    <3>1. pc[d] = "schedule" /\ target[d] \in Tasklets /\ link[target[d]] = Null
      BY <2>1, <1>1 DEF ListInv, LinksKept, MutexInv, CursorsValid
    <3>2. <<"target", d>> \in Pointers(target[d])
      BY <3>1, PointerKinds
    <3>3. target[d] # c
      BY <3>2, <1>2
    <3> QED
      BY <3>1, <3>3, <1>1
  <2> QED
    BY <2>1, <1>1 DEF ListInv, LinksKept, Callers
<1>4. ASSUME NEW t \in Tasklets
      PROVE  \A p : p \in Pointers(t)' <=>
           \/ p = <<"head", t>> /\ m_wait_list' = t
           \/ \E u \in Parked' : p = <<"link", u>> /\ link'[u] = t
           \/ \E d \in Callers : p = <<"cursor", d>> /\ pc[d] \in {"pop", "schedule"} /\ cursor[d] = t
           \/ \E d \in Callers : p = <<"target", d>> /\ pc[d] = "schedule" /\ target[d] = t
  <2>1. \A p : p \in Pointers(t)' <=>
           \/ p = <<"head", t>> /\ m_wait_list' = t
           \/ \E u \in Parked' : p = <<"link", u>> /\ link'[u] = t
           \/ \E d \in Callers : p = <<"cursor", d>> /\ pc'[d] \in {"pop", "schedule"} /\ cursor'[d] = t
           \/ \E d \in Callers : p = <<"target", d>> /\ pc'[d] = "schedule" /\ target'[d] = t
    BY DEF Pointers
  <2>2. \A d \in Callers : (pc'[d] \in {"pop", "schedule"} <=> pc[d] \in {"pop", "schedule"})
                           /\ (pc'[d] = "schedule" <=> pc[d] = "schedule")
    BY <1>1
  <2> QED
    BY <2>1, <2>2, <1>1
<1>5. CASE m_wait_list # seen[c]
  <2>1. m_wait_list' = m_wait_list /\ Parked' = Parked
    BY <1>1, <1>5 DEF Push, Goto, MutexInv, TypeOK, Parked, Callers
  <2>2. ASSUME NEW t \in Tasklets PROVE Pointers(t)' = Pointers(t)
    <3>1. \A p : p \in Pointers(t)' <=> p \in Pointers(t)
      BY <1>1, <1>4, <2>1, PointerKinds DEF Parked
    <3> QED
      BY <3>1 DEF Pointers
  <2> QED
    BY <1>3, <2>1, <2>2, OnceStays DEF ListInv
<1>6. CASE m_wait_list = seen[c]
  <2>1. /\ m_wait_list' = c /\ Parked' = Parked \cup {c} /\ link' = link /\ link[c] = m_wait_list
    BY <1>1, <1>6 DEF Push, Goto, MutexInv, TypeOK, Parked, Callers, ListInv, LinksKept
  <2>2. ASSUME NEW t \in Tasklets, t # c, t # m_wait_list PROVE Once(t)'
    <3>1. \A p : p \in Pointers(t)' <=> p \in Pointers(t)
      BY <1>4, <2>1, <2>2, PointerKinds
    <3>2. Pointers(t)' = Pointers(t)
      BY <3>1 DEF Pointers
    <3> QED
      BY <3>2, <2>1, <2>2, OnceStays DEF ListInv
  <2>3. ASSUME NEW t \in Tasklets, t # c, t = m_wait_list PROVE Once(t)'
    <3>1. <<"head", t>> \in Pointers(t)
      BY <2>3, PointerKinds
    <3>2. \A p : p \in Pointers(t)' <=> p \in (Pointers(t) \ {<<"head", t>>}) \cup {<<"link", c>>}
      BY <1>4, <2>1, <2>3, PointerKinds
    <3>3. Pointers(t)' = (Pointers(t) \ {<<"head", t>>}) \cup {<<"link", c>>}
      BY <3>2 DEF Pointers
    <3> QED
      BY <3>1, <3>3, <2>1, <2>3, OnceMoves DEF ListInv
  <2>4. Once(c)'
    <3>1. \A p : p \notin Pointers(c)
      BY <1>2
    <3>2. m_wait_list # c
      BY <3>1, PointerKinds
    <3>3. \A p : p \in Pointers(c)' <=> p = <<"head", c>>
      BY <1>4, <2>1, <3>1, <3>2, PointerKinds
    <3>4. Pointers(c)' = {<<"head", c>>}
      BY <3>3 DEF Pointers
    <3> QED
      BY <3>4, <2>1 DEF Once
  <2> QED
    BY <1>3, <2>2, <2>3, <2>4 DEF ListInv
<1> QED
  BY <1>5, <1>6

(* unlock() detaches the list: the head is now the cursor. *)
LEMMA UnlockList ==
  ASSUME MutexInv, ListInv, NEW c \in Callers, Unlock(c)
  PROVE  ListInv'
<1>1. /\ pc[c] = "owner" /\ pc'[c] = (IF m_wait_list = Null THEN "idle" ELSE "pop")
      /\ \A d \in Callers : d # c => pc'[d] = pc[d] /\ cursor'[d] = cursor[d]
      /\ cursor'[c] = m_wait_list /\ m_wait_list' = Unlocked
      /\ target' = target /\ seen' = seen /\ link' = link
  BY DEF Unlock, Goto, MutexInv, TypeOK
<1>2. Parked' = Parked
  BY <1>1 DEF Parked, Callers
<1>3. LinksKept'
  BY <1>1 DEF ListInv, LinksKept, Callers
<1>4. \A t \in Tasklets : t # Null /\ t # Unlocked
  BY MutexAssumption DEF Callers
<1>5. ASSUME NEW t \in Tasklets
      PROVE  \A p : p \in Pointers(t)' <=>
           \/ \E u \in Parked : p = <<"link", u>> /\ link[u] = t
           \/ p = <<"cursor", c>> /\ m_wait_list = t
           \/ \E d \in Callers : p = <<"cursor", d>> /\ pc[d] \in {"pop", "schedule"} /\ cursor[d] = t
           \/ \E d \in Callers : p = <<"target", d>> /\ pc[d] = "schedule" /\ target[d] = t
  <2>1. \A p : p \in Pointers(t)' <=>
           \/ p = <<"head", t>> /\ m_wait_list' = t
           \/ \E u \in Parked' : p = <<"link", u>> /\ link'[u] = t
           \/ \E d \in Callers : p = <<"cursor", d>> /\ pc'[d] \in {"pop", "schedule"} /\ cursor'[d] = t
           \/ \E d \in Callers : p = <<"target", d>> /\ pc'[d] = "schedule" /\ target'[d] = t
    BY DEF Pointers
  <2>2. \A d \in Callers :
          /\ pc'[d] \in {"pop", "schedule"} /\ cursor'[d] = t
               <=> (d = c /\ m_wait_list = t) \/ (pc[d] \in {"pop", "schedule"} /\ cursor[d] = t)
          /\ pc'[d] = "schedule" <=> pc[d] = "schedule"
    BY <1>1, <1>4
  <2> QED
    BY <2>1, <2>2, <1>1, <1>2, <1>4
<1>6. ASSUME NEW t \in Tasklets, t # m_wait_list PROVE Once(t)'
  <2>1. \A p : p \in Pointers(t)' <=> p \in Pointers(t)
    BY <1>5, <1>6, PointerKinds
  <2>2. Pointers(t)' = Pointers(t)
    BY <2>1 DEF Pointers
  <2> QED
    BY <2>2, <1>2, OnceStays DEF ListInv
<1>7. ASSUME NEW t \in Tasklets, t = m_wait_list PROVE Once(t)'
  <2>1. <<"head", t>> \in Pointers(t)
    BY <1>7, PointerKinds
  <2>2. \A p : p \in Pointers(t)' <=> p \in (Pointers(t) \ {<<"head", t>>}) \cup {<<"cursor", c>>}
    BY <1>5, <1>7, PointerKinds
  <2>3. Pointers(t)' = (Pointers(t) \ {<<"head", t>>}) \cup {<<"cursor", c>>}
    BY <2>2 DEF Pointers
  <2> QED
    BY <2>1, <2>3, <1>2, OnceMoves DEF ListInv
<1> QED
  BY <1>3, <1>6, <1>7 DEF ListInv

(* pop_linked_tasklet(): the cursor becomes the target, and the link of it *)
(* the cursor.                                                             *)
LEMMA PopList ==
  ASSUME MutexInv, ListInv, NEW c \in Callers, Pop(c)
  PROVE  ListInv'
<1>a. PICK x \in Tasklets : x = cursor[c]
  BY DEF Pop, MutexInv, CursorsValid
<1>b. PICK y \in Tasklets \cup {Null} : y = link[x]
  BY DEF MutexInv, TypeOK
<1>1. /\ pc[c] = "pop" /\ pc'[c] = "schedule"
      /\ \A d \in Callers : d # c => pc'[d] = pc[d] /\ cursor'[d] = cursor[d] /\ target'[d] = target[d]
      /\ cursor'[c] = y /\ target'[c] = x
      /\ \A u \in Tasklets : link'[u] = IF u = x THEN Null ELSE link[u]
      /\ seen' = seen /\ m_wait_list' = m_wait_list
  BY <1>a, <1>b DEF Pop, Goto, MutexInv, TypeOK
<1>2. Parked' = Parked
  BY <1>1 DEF Parked, Callers
<1>3. <<"cursor", c>> \in Pointers(x) /\ x \in Parked
  BY <1>1, <1>a, PointerKinds DEF ListInv, Once
<1>4. LinksKept'
  BY <1>1, <1>3, MutexAssumption DEF ListInv, LinksKept, Parked, Callers, MutexInv, CursorsValid
<1>5. \A t \in Tasklets : t # Null
  BY MutexAssumption DEF Callers
<1>6. ASSUME NEW t \in Tasklets
      PROVE  \A p : p \in Pointers(t)' <=>
           \/ p = <<"head", t>> /\ m_wait_list = t
           \/ \E u \in Parked : p = <<"link", u>> /\ link[u] = t /\ u # x
           \/ p = <<"cursor", c>> /\ y = t
           \/ \E d \in Callers : p = <<"cursor", d>> /\ pc[d] \in {"pop", "schedule"} /\ cursor[d] = t /\ d # c
           \/ p = <<"target", c>> /\ x = t
           \/ \E d \in Callers : p = <<"target", d>> /\ pc[d] = "schedule" /\ target[d] = t
  <2>1. \A p : p \in Pointers(t)' <=>
           \/ p = <<"head", t>> /\ m_wait_list' = t
           \/ \E u \in Parked' : p = <<"link", u>> /\ link'[u] = t
           \/ \E d \in Callers : p = <<"cursor", d>> /\ pc'[d] \in {"pop", "schedule"} /\ cursor'[d] = t
           \/ \E d \in Callers : p = <<"target", d>> /\ pc'[d] = "schedule" /\ target'[d] = t
    BY DEF Pointers
  <2>2. \A u \in Parked : link'[u] = t <=> link[u] = t /\ u # x
    BY <1>1, <1>5 DEF Parked
  <2>3. \A d \in Callers :
          /\ pc'[d] \in {"pop", "schedule"} /\ cursor'[d] = t
               <=> (d = c /\ y = t) \/ (d # c /\ pc[d] \in {"pop", "schedule"} /\ cursor[d] = t)
          /\ pc'[d] = "schedule" /\ target'[d] = t
               <=> (d = c /\ x = t) \/ (pc[d] = "schedule" /\ target[d] = t)
    BY <1>1
  <2> QED
    BY <2>1, <2>2, <2>3, <1>1, <1>2
<1>7. y # x
  <2>1. y = x => <<"link", x>> \in Pointers(x)
    BY <1>b, <1>3, PointerKinds
  <2>2. <<"link", x>> # <<"cursor", c>>
    OBVIOUS
  <2> QED
    BY <2>1, <2>2, <1>3 DEF ListInv, Once
<1>8. Once(x)'
  <2>1. \A p : p \in Pointers(x)' <=> p \in (Pointers(x) \ {<<"cursor", c>>}) \cup {<<"target", c>>}
    BY <1>6, <1>7, <1>a, <1>b, PointerKinds
  <2>2. Pointers(x)' = (Pointers(x) \ {<<"cursor", c>>}) \cup {<<"target", c>>}
    BY <2>1 DEF Pointers
  <2> QED
    BY <2>2, <1>2, <1>3, OnceMoves DEF ListInv
<1>9. ASSUME NEW t \in Tasklets, t # x, t = y PROVE Once(t)'
  <2>1. <<"link", x>> \in Pointers(t)
    BY <1>9, <1>3, <1>b, PointerKinds
  <2>2. \A p : p \in Pointers(t)' <=> p \in (Pointers(t) \ {<<"link", x>>}) \cup {<<"cursor", c>>}
    BY <1>6, <1>9, <1>a, <1>b, PointerKinds
  <2>3. Pointers(t)' = (Pointers(t) \ {<<"link", x>>}) \cup {<<"cursor", c>>}
    BY <2>2 DEF Pointers
  <2> QED
    BY <2>1, <2>3, <1>2, OnceMoves DEF ListInv
<1>10. ASSUME NEW t \in Tasklets, t # x, t # y PROVE Once(t)'
  <2>1. \A p : p \in Pointers(t)' <=> p \in Pointers(t)
    BY <1>6, <1>10, <1>a, <1>b, PointerKinds
  <2>2. Pointers(t)' = Pointers(t)
    BY <2>1 DEF Pointers
  <2> QED
    BY <2>2, <1>2, OnceStays DEF ListInv
<1> QED
  BY <1>4, <1>8, <1>9, <1>10 DEF ListInv

(* schedule(): the target goes on, and with it its only pointer. *)
LEMMA ScheduleList ==
  ASSUME MutexInv, ListInv, NEW c \in Callers, Schedule(c)
  PROVE  ListInv'
<1>a. PICK x \in Tasklets : x = target[c]
  BY DEF Schedule, MutexInv, CursorsValid
<1>1. /\ pc[c] = "schedule" /\ pc'[c] = (IF cursor[c] = Null THEN "idle" ELSE "pop")
      /\ pc[x] = "suspended" /\ pc'[x] = "lock" /\ x # c /\ x \in Callers
      /\ \A d \in Callers : d # c /\ d # x => pc'[d] = pc[d]
      /\ \A d \in Callers : d # c => target'[d] = target[d]
      /\ cursor' = cursor /\ link' = link /\ seen' = seen /\ m_wait_list' = m_wait_list
  BY <1>a DEF Schedule, MutexInv, TypeOK, Callers
<1>2. Parked' = Parked \ {x} /\ x \in Parked
  BY <1>1 DEF Parked, Callers
<1>3. link[x] = Null /\ \A t \in Tasklets : t # Null
  BY <1>1, <1>a, MutexAssumption DEF ListInv, LinksKept, Callers
<1>4. LinksKept'
  BY <1>1 DEF ListInv, LinksKept, Callers
<1>5. ASSUME NEW t \in Tasklets
      PROVE  \A p : p \in Pointers(t)' <=> p \in Pointers(t) /\ ~(p = <<"target", c>> /\ x = t)
  <2>1. \A p : p \in Pointers(t)' <=>
           \/ p = <<"head", t>> /\ m_wait_list' = t
           \/ \E u \in Parked' : p = <<"link", u>> /\ link'[u] = t
           \/ \E d \in Callers : p = <<"cursor", d>> /\ pc'[d] \in {"pop", "schedule"} /\ cursor'[d] = t
           \/ \E d \in Callers : p = <<"target", d>> /\ pc'[d] = "schedule" /\ target'[d] = t
    BY DEF Pointers
  <2>2. \A u \in Tasklets : u \in Parked' /\ link'[u] = t <=> u \in Parked /\ link[u] = t
    BY <1>1, <1>2, <1>3
  <2>3. \A d \in Callers :
          /\ pc'[d] \in {"pop", "schedule"} /\ cursor'[d] = t <=> pc[d] \in {"pop", "schedule"} /\ cursor[d] = t
          /\ pc'[d] = "schedule" /\ target'[d] = t <=> d # c /\ pc[d] = "schedule" /\ target[d] = t
    BY <1>1, <1>3
  <2>4. Parked' \subseteq Tasklets /\ Parked \subseteq Tasklets
    BY DEF Parked
  <2> QED
    BY <2>1, <2>2, <2>3, <2>4, <1>1, <1>a, PointerKinds
<1>6. Once(x)'
  <2>1. <<"target", c>> \in Pointers(x)
    BY <1>1, <1>a, PointerKinds
  <2>2. Pointers(x) = {<<"target", c>>}
    BY <2>1 DEF ListInv, Once
  <2>3. \A p : p \notin Pointers(x)'
    BY <2>2, <1>5
  <2>4. Pointers(x)' = {}
    BY <2>3
  <2> QED
    BY <2>4, <1>2 DEF Once
<1>7. ASSUME NEW t \in Tasklets, t # x PROVE Once(t)'
  <2>1. \A p : p \in Pointers(t)' <=> p \in Pointers(t)
    BY <1>5, <1>7
  <2>2. Pointers(t)' = Pointers(t)
    BY <2>1 DEF Pointers
  <2> QED
    BY <2>2, <1>2, <1>7, OnceStays DEF ListInv
<1> QED
  BY <1>4, <1>6, <1>7 DEF ListInv

LEMMA StepList == MutexInv /\ ListInv /\ [Next]_vars => ListInv'
<1> SUFFICES ASSUME MutexInv, ListInv, [Next]_vars PROVE ListInv'
  OBVIOUS
<1>1. CASE UNCHANGED vars
  <2>1. Parked' = Parked /\ LinksKept'
    BY <1>1 DEF vars, ListInv, LinksKept, Parked
  <2>2. \A t \in Tasklets : Pointers(t)' = Pointers(t)
    BY <1>1, <2>1 DEF vars, Pointers
  <2> QED
    BY <2>1, <2>2, OnceStays DEF ListInv
<1>2. ASSUME NEW c \in Callers, TryLock(c) \/ Lock(c) \/ Continue(c)
      PROVE  ListInv'
  BY <1>2, PlainStepList, PushList, UnlockList, PopList, ScheduleList DEF Continue
<1> QED
  BY <1>1, <1>2 DEF Next

(* The list of waiters is right whatever calls overlap: each parked tasklet *)
(* is led to by exactly one pointer, so that it is woken once, and none     *)
(* that runs is led to at all.                                              *)
THEOREM MutexListSound == Spec => []ListSound
<1>1. Init => MutexInv /\ ListInv
  BY MutexInitInv, InitList
<1>2. MutexInv /\ ListInv /\ [Next]_vars => (MutexInv /\ ListInv)'
  BY MutexStepInv, StepList
<1>3. MutexInv /\ ListInv => ListSound
  BY OnceMeansOne DEF MutexInv, ListInv, ListSound
<1> QED
  BY <1>1, <1>2, <1>3, PTL DEF Spec

-----------------------------------------------------------------------------
(* The IO dispatcher. *)

Elements(q) == {q[i] : i \in DOMAIN q}
Distinct(q) == \A i, j \in DOMAIN q : q[i] = q[j] => i = j

(* A multishot poll completes several times; its last completion, like     *)
(* the only one of any other entry, says that there are no more.           *)
Final(i) == ~cq[i].more
Completed == {cq[i].entry : i \in {j \in DOMAIN cq : Final(j)}}

CompletionsKnown ==
  /\ \A i \in DOMAIN cq : ~Final(i) => cq[i].entry = Submit
  /\ \A i, j \in DOMAIN cq : cq[i].entry = cq[j].entry /\ Final(i) /\ Final(j) => i = j

(* What has left the queue and is not yet handled. *)
Held == Elements(sq) \cup armed \cup Completed

EntriesApart ==
  /\ Distinct(queue) /\ Distinct(sq)
  /\ Elements(queue) \cap Held = {}
  /\ Elements(sq) \cap armed = {}
  /\ Elements(sq) \cap Completed = {}
  /\ armed \cap Completed = {}

(* A request that was submitted is somewhere, or fulfilled. *)
RequestsKnown ==
  \A r \in Requests :
    fulfilled[r] = IF submitter[r] = "new" \/ r \in Elements(queue) \cup Held THEN 0 ELSE 1

NewUnknown == \A r \in Requests : submitter[r] = "new" => r \notin Elements(queue) \cup Held

PollKnown == Submit \in Held

(* An open descriptor is the one its request will close. *)
FdsKnown == \A r \in Fences : r \in open => fd[r] = r /\ r \in Held

Places == CompletionsKnown /\ EntriesApart /\ RequestsKnown /\ NewUnknown /\ PollKnown /\ FdsKnown

(* What the dispatcher has prepared and still wants to, stage by stage. *)
RoomLeft ==
  /\ stage = "wait" => sq = <<>>
  /\ stage = "handle" => Elements(sq) \subseteq {Submit}
  /\ stage = "fill" => Len(sq) + todo <= SqEntries
  /\ stage # "fill" => todo = 0 /\ rest = 0
  /\ stage # "handle" => batch = 0
  /\ batch <= Len(cq)

(* The event is set, and its poll has fired, will fire, or will be armed. *)
PollSees ==
  \/ notified /\ Submit \in armed
  \/ Submit \in Elements(sq)
  \/ \E i \in DOMAIN cq : cq[i].entry = Submit

Told ==
  pending > 0 /\ stage \in {"submit", "wait", "fill"} =>
    (event /\ PollSees) \/ \E r \in Requests : submitter[r] = "signal"

DispatcherInv == DispatcherTyped /\ QueueAccounted /\ Places /\ RoomLeft /\ Told

-----------------------------------------------------------------------------
(* Sequences. *)

LEMMA Appended ==
  ASSUME NEW S, NEW q \in Seq(S), NEW x \in S
  PROVE  /\ Append(q, x) \in Seq(S)
         /\ Len(Append(q, x)) = Len(q) + 1
         /\ Elements(Append(q, x)) = Elements(q) \cup {x}
         /\ Distinct(q) /\ x \notin Elements(q) => Distinct(Append(q, x))
<1>1. /\ Append(q, x) \in Seq(S) /\ Len(Append(q, x)) = Len(q) + 1 /\ Len(q) \in Nat
      /\ DOMAIN q = 1 .. Len(q) /\ DOMAIN Append(q, x) = 1 .. Len(q) + 1
      /\ \A i \in 1 .. Len(q) : Append(q, x)[i] = q[i]
      /\ Append(q, x)[Len(q) + 1] = x
  OBVIOUS
<1>2. \A i : i \in 1 .. Len(q) + 1 <=> i \in 1 .. Len(q) \/ i = Len(q) + 1
  BY <1>1
<1>3. Elements(Append(q, x)) = Elements(q) \cup {x}
  BY <1>1, <1>2 DEF Elements
<1>4. ASSUME Distinct(q), x \notin Elements(q) PROVE Distinct(Append(q, x))
  BY <1>1, <1>2, <1>4 DEF Elements, Distinct
<1> QED
  BY <1>1, <1>3, <1>4

LEMMA Dequeued ==
  ASSUME NEW S, NEW q \in Seq(S), Len(q) > 0
  PROVE  /\ Head(q) \in S /\ Head(q) \in Elements(q)
         /\ Tail(q) \in Seq(S)
         /\ Len(Tail(q)) = Len(q) - 1
         /\ Distinct(q) => /\ Elements(Tail(q)) = Elements(q) \ {Head(q)}
                           /\ Distinct(Tail(q))
<1>1. /\ Len(q) \in Nat /\ DOMAIN q = 1 .. Len(q) /\ Head(q) = q[1]
      /\ Tail(q) \in Seq(S) /\ Len(Tail(q)) = Len(q) - 1
      /\ DOMAIN Tail(q) = 1 .. Len(q) - 1
      /\ \A i \in 1 .. Len(q) - 1 : Tail(q)[i] = q[i + 1]
      /\ \A i \in 1 .. Len(q) : q[i] \in S
  OBVIOUS
<1>2. Head(q) \in S /\ Head(q) \in Elements(q)
  BY <1>1 DEF Elements
<1>3. \A i \in 1 .. Len(q) - 1 : i + 1 \in 1 .. Len(q)
  BY <1>1
<1>4. Elements(Tail(q)) \subseteq Elements(q)
  BY <1>1, <1>3 DEF Elements
<1>5. Elements(q) \subseteq Elements(Tail(q)) \cup {Head(q)}
  <2>1. \A i \in 1 .. Len(q) : i = 1 \/ (i - 1 \in 1 .. Len(q) - 1 /\ Tail(q)[i - 1] = q[i])
    BY <1>1
  <2> SUFFICES ASSUME NEW i \in 1 .. Len(q), q[i] # Head(q)
               PROVE  q[i] \in Elements(Tail(q))
    BY <1>1 DEF Elements
  <2> QED
    BY <1>1, <2>1 DEF Elements
<1>6. ASSUME Distinct(q) PROVE Distinct(Tail(q)) /\ Head(q) \notin Elements(Tail(q))
  BY <1>1, <1>3, <1>6 DEF Elements, Distinct
<1> QED
  BY <1>1, <1>2, <1>4, <1>5, <1>6

(* A completion arrives, and is handled. *)
Completions == [entry : Entries, more : BOOLEAN]
PollCompleted == \E i \in DOMAIN cq : cq[i].entry = Submit

LEMMA Arrives ==
  ASSUME cq \in Seq(Completions), CompletionsKnown, NEW e \in Entries, NEW more \in BOOLEAN,
         more => e = Submit, e \notin Completed, cq' = Append(cq, [entry |-> e, more |-> more])
  PROVE  /\ cq' \in Seq(Completions) /\ Len(cq') = Len(cq) + 1 /\ cq' # <<>>
         /\ Completed' = IF more THEN Completed ELSE Completed \cup {e}
         /\ CompletionsKnown'
         /\ PollCompleted \/ e = Submit => PollCompleted'
<1> DEFINE x == [entry |-> e, more |-> more]
<1>1. x \in Completions /\ x.entry = e /\ x.more = more
  BY DEF Completions
<1> HIDE DEF x
<1> PICK n : n = Len(cq) + 1
  OBVIOUS
<1>2. /\ cq' \in Seq(Completions) /\ Len(cq') = Len(cq) + 1 /\ Len(cq) \in Nat
      /\ DOMAIN cq = 1 .. Len(cq) /\ DOMAIN cq' = 1 .. n
      /\ \A i \in 1 .. Len(cq) : cq'[i] = cq[i]
      /\ cq'[n] = x
  BY <1>1 DEF x
<1>3. \A i : i \in DOMAIN cq' <=> i \in DOMAIN cq \/ i = n
  BY <1>2
<1>4. n \notin DOMAIN cq
  BY <1>2
<1>5. \A i \in DOMAIN cq : Final(i)' <=> Final(i)
  BY <1>2 DEF Final
<1>6. Final(n)' <=> ~more
  BY <1>1, <1>2 DEF Final
<1>7. \A y : y \in Completed <=> \E i \in DOMAIN cq : Final(i) /\ cq[i].entry = y
  BY DEF Completed
<1>8. \A y : y \in Completed' <=> \E i \in DOMAIN cq' : Final(i)' /\ cq'[i].entry = y
  BY DEF Completed, Final
<1>9. Completed' = IF more THEN Completed ELSE Completed \cup {e}
  <2>1. \A y : y \in Completed' <=> y \in Completed \/ (~more /\ y = e)
    BY <1>1, <1>2, <1>3, <1>5, <1>6, <1>7, <1>8
  <2> QED
    BY <2>1
<1>10. CompletionsKnown'
  <2>1. \A i \in DOMAIN cq' : ~Final(i)' => cq'[i].entry = Submit
    BY <1>1, <1>2, <1>3, <1>5, <1>6 DEF CompletionsKnown
  <2>2. \A i, j \in DOMAIN cq' : cq'[i].entry = cq'[j].entry /\ Final(i)' /\ Final(j)' => i = j
    BY <1>1, <1>2, <1>3, <1>5, <1>6, <1>7 DEF CompletionsKnown
  <2> QED
    BY <2>1, <2>2 DEF CompletionsKnown
<1>11. PollCompleted \/ e = Submit => PollCompleted'
  BY <1>1, <1>2, <1>3 DEF PollCompleted
<1>12. cq' # <<>>
  BY <1>2
<1> QED
  BY <1>2, <1>9, <1>10, <1>11, <1>12

LEMMA Handled ==
  ASSUME cq \in Seq(Completions), CompletionsKnown, Len(cq) > 0, cq' = Tail(cq)
  PROVE  /\ cq' \in Seq(Completions) /\ Len(cq') = Len(cq) - 1
         /\ Head(cq) \in Completions
         /\ CompletionsKnown'
         /\ Head(cq).more => Head(cq).entry = Submit /\ Completed' = Completed
         /\ ~Head(cq).more => /\ Head(cq).entry \in Completed
                              /\ Completed' = Completed \ {Head(cq).entry}
<1>1. /\ Len(cq) \in Nat /\ DOMAIN cq = 1 .. Len(cq) /\ Head(cq) = cq[1]
      /\ cq' \in Seq(Completions) /\ Len(cq') = Len(cq) - 1
      /\ DOMAIN cq' = 1 .. Len(cq) - 1
      /\ \A i \in 1 .. Len(cq) - 1 : cq'[i] = cq[i + 1]
      /\ Head(cq) \in Completions
  OBVIOUS
<1>2. /\ \A i \in DOMAIN cq' : i + 1 \in DOMAIN cq /\ i + 1 # 1 /\ cq'[i] = cq[i + 1]
      /\ \A i, j \in DOMAIN cq' : i + 1 = j + 1 => i = j
      /\ \A i \in DOMAIN cq : i = 1 \/ \E j \in DOMAIN cq' : i = j + 1
      /\ 1 \in DOMAIN cq
  <2>1. \A i \in 1 .. Len(cq) : i = 1 \/ (i - 1 \in 1 .. Len(cq) - 1 /\ i = (i - 1) + 1)
    BY <1>1
  <2>2. \A i \in DOMAIN cq : i = 1 \/ \E j \in DOMAIN cq' : i = j + 1
    BY <1>1, <2>1
  <2> QED
    BY <1>1, <2>2
<1>3. \A i \in DOMAIN cq' : Final(i)' <=> Final(i + 1)
  BY <1>2 DEF Final
<1>4. \A y : y \in Completed <=> \E i \in DOMAIN cq : Final(i) /\ cq[i].entry = y
  BY DEF Completed
<1>5. \A y : y \in Completed' <=> \E i \in DOMAIN cq' : Final(i)' /\ cq'[i].entry = y
  BY DEF Completed, Final
<1>6. \A y : y \in Completed' <=> \E i \in DOMAIN cq : i # 1 /\ Final(i) /\ cq[i].entry = y
  BY <1>2, <1>3, <1>5
<1>7. Final(1) <=> ~Head(cq).more
  BY <1>1 DEF Final
<1>8. Head(cq).more => Head(cq).entry = Submit /\ Completed' = Completed
  <2> SUFFICES ASSUME Head(cq).more PROVE Head(cq).entry = Submit /\ Completed' = Completed
    OBVIOUS
  <2>1. \A y : y \in Completed' <=> y \in Completed
    BY <1>4, <1>6, <1>7
  <2>2. Completed' = Completed
    BY <2>1
  <2> QED
    BY <1>1, <1>2, <1>7, <2>2 DEF CompletionsKnown
<1>9. ~Head(cq).more => Head(cq).entry \in Completed /\ Completed' = Completed \ {Head(cq).entry}
  <2> SUFFICES ASSUME ~Head(cq).more
               PROVE  Head(cq).entry \in Completed /\ Completed' = Completed \ {Head(cq).entry}
    OBVIOUS
  <2>1. Head(cq).entry \in Completed
    BY <1>1, <1>2, <1>4, <1>7
  <2>2. \A i \in DOMAIN cq : Final(i) /\ cq[i].entry = Head(cq).entry => i = 1
    BY <1>1, <1>2, <1>7 DEF CompletionsKnown
  <2>3. \A y : y \in Completed' <=> y \in Completed /\ y # Head(cq).entry
    BY <1>1, <1>4, <1>6, <2>2
  <2>4. Completed' = Completed \ {Head(cq).entry}
    BY <2>3
  <2> QED
    BY <2>1, <2>4
<1>10. CompletionsKnown'
  <2>1. \A i \in DOMAIN cq' : ~Final(i)' => cq'[i].entry = Submit
    BY <1>2, <1>3 DEF CompletionsKnown
  <2>2. \A i, j \in DOMAIN cq' : cq'[i].entry = cq'[j].entry /\ Final(i)' /\ Final(j)' => i = j
    BY <1>2, <1>3 DEF CompletionsKnown
  <2> QED
    BY <2>1, <2>2 DEF CompletionsKnown
<1> QED
  BY <1>1, <1>8, <1>9, <1>10

-----------------------------------------------------------------------------
(* The initial states. *)

LEMMA MinOfTwo ==
  ASSUME NEW a \in Nat, NEW b \in Nat
  PROVE  Min({a, b}) \in Nat /\ Min({a, b}) <= a /\ Min({a, b}) <= b
<1> DEFINE least == IF a <= b THEN a ELSE b
<1>1. least \in {a, b} /\ \A y \in {a, b} : least <= y
  OBVIOUS
<1>2. /\ (CHOOSE x \in {a, b} : \A y \in {a, b} : x <= y) \in {a, b}
      /\ \A y \in {a, b} : (CHOOSE x \in {a, b} : \A z \in {a, b} : x <= z) <= y
  BY <1>1
<1> QED
  BY <1>2 DEF Min

Counting == {r \in Requests : submitter[r] = "count"}

LEMMA CountingFinite == IsFiniteSet(Counting) /\ Cardinality(Counting) \in Nat
<1>1. IsFiniteSet(Counting)
  BY DispatcherAssumption, FS_Subset DEF Counting
<1> QED
  BY <1>1, FS_CardinalityType

LEMMA Started == ASSUME IoInit PROVE DispatcherInv
<1> USE DEF IoInit
<1>1. DispatcherTyped
  <2>1. sq \in Seq(Entries) /\ Len(sq) = 2
    BY DEF Entries
  <2>2. cq \in Seq([entry : Entries, more : BOOLEAN]) /\ queue \in Seq(Requests)
    OBVIOUS
  <2> QED
    BY <2>1, <2>2, DispatcherAssumption DEF DispatcherTyped
<1>2. QueueAccounted
  <2>1. Counting = {}
    BY DEF Counting
  <2>2. Cardinality({r \in Requests : submitter[r] = "count"}) = 0
    BY <2>1, FS_EmptySet DEF Counting
  <2> QED
    BY <2>2 DEF QueueAccounted
<1>3. /\ Elements(queue) = {} /\ Completed = {} /\ Elements(sq) = {Submit, Quit}
      /\ Distinct(queue) /\ Distinct(sq)
  <2>1. Distinct(queue) /\ Elements(queue) = {} /\ Completed = {}
    BY DEF Elements, Distinct, Completed
  <2>2. DOMAIN sq = {1, 2} /\ sq[1] = Quit /\ sq[2] = Submit
    OBVIOUS
  <2>3. Elements(sq) = {Submit, Quit} /\ Distinct(sq)
    BY <2>2, DispatcherAssumption DEF Elements, Distinct
  <2> QED
    BY <2>1, <2>3
<1>4. CompletionsKnown
  BY DEF CompletionsKnown
<1>5. Places
  BY <1>3, <1>4, DispatcherAssumption
     DEF Places, EntriesApart, RequestsKnown, NewUnknown, PollKnown, FdsKnown, Held
<1>6. RoomLeft /\ Told
  BY DEF RoomLeft, Told
<1> QED
  BY <1>1, <1>2, <1>5, <1>6 DEF DispatcherInv

-----------------------------------------------------------------------------
(* Steps after which everything is where it was. *)

Unmoved ==
  /\ UNCHANGED <<queue, sq, armed, cq, fulfilled, files>>
  /\ \A r \in Requests : submitter[r] = "new" <=> submitter'[r] = "new"

LEMMA PlacesUnmoved ==
  ASSUME Places, Unmoved
  PROVE  Places' /\ Completed' = Completed /\ Held' = Held
<1> USE DEF Unmoved, files
<1>1. \A i : Final(i)' <=> Final(i)
  BY DEF Final
<1>2. Completed' = Completed
  BY DEF Completed, Final
<1>3. Held' = Held
  BY <1>2 DEF Held
<1>4. CompletionsKnown'
  BY <1>1 DEF CompletionsKnown, Places
<1>5. EntriesApart'
  BY <1>2, <1>3 DEF EntriesApart, Places
<1>6. RequestsKnown' /\ NewUnknown' /\ PollKnown' /\ FdsKnown'
  BY <1>3 DEF RequestsKnown, NewUnknown, PollKnown, FdsKnown, Places
<1> QED
  BY <1>2, <1>3, <1>4, <1>5, <1>6 DEF Places

(* Told stays if the event does, or is set, and nobody stops to be about to set it. *)
LEMMA StillTold ==
  ASSUME Told, PollSees /\ event => PollSees' /\ event',
         \A r \in Requests : submitter[r] = "signal" => submitter'[r] = "signal",
         pending' > 0 => pending > 0,
         stage' \in {"submit", "wait", "fill"} => stage \in {"submit", "wait", "fill"}
  PROVE  Told'
  BY DEF Told

LEMMA StillAccounted ==
  ASSUME QueueAccounted, submitter' = submitter, Len(queue') = Len(queue),
         pending' + todo' + rest' = pending + todo + rest
  PROVE  QueueAccounted'
<1>1. Counting' = Counting
  BY DEF Counting
<1> QED
  BY <1>1 DEF QueueAccounted, Counting

LEMMA CountKeeps ==
  ASSUME DispatcherInv, NEW r \in Requests, Count(r) PROVE DispatcherInv'
<1> USE DEF Count, SubmitterGoto
<1>1. DispatcherTyped /\ DispatcherTyped'
  BY DEF DispatcherInv, DispatcherTyped, dispatcher, kernel, files
<1>2. QueueAccounted'
  <2>1. Counting' = Counting \ {r} /\ r \in Counting
    BY <1>1 DEF Counting, DispatcherTyped
  <2>2. Cardinality(Counting') = Cardinality(Counting) - 1
    BY <2>1, CountingFinite, FS_RemoveElement
  <2> QED
    BY <1>1, <2>2, CountingFinite DEF DispatcherInv, QueueAccounted, Counting, DispatcherTyped, dispatcher
<1>3. Unmoved
  BY <1>1 DEF Unmoved, DispatcherTyped, kernel, files
<1>4. Places'
  BY <1>3, PlacesUnmoved DEF DispatcherInv
<1>5. RoomLeft'
  BY DEF DispatcherInv, RoomLeft, dispatcher, kernel
<1>6. Told'
  <2>1. CASE pending = 0
    BY <1>1, <2>1 DEF Told, DispatcherTyped
  <2>2. CASE pending > 0
    BY <1>1, <2>2 DEF DispatcherInv, Told, DispatcherTyped, PollSees, dispatcher, kernel
  <2> QED
    BY <1>1, <2>1, <2>2 DEF DispatcherTyped
<1> QED
  BY <1>1, <1>2, <1>4, <1>5, <1>6 DEF DispatcherInv

LEMMA SignalKeeps ==
  ASSUME DispatcherInv, NEW r \in Requests, Signal(r) PROVE DispatcherInv'
<1> USE DEF Signal, SetEvent, SubmitterGoto
<1>1. DispatcherTyped /\ DispatcherTyped'
  BY DEF DispatcherInv, DispatcherTyped, dispatcher, kernel, files
<1>2. QueueAccounted'
  <2>1. Counting' = Counting
    BY <1>1 DEF Counting, DispatcherTyped
  <2> QED
    BY <1>1, <2>1 DEF DispatcherInv, QueueAccounted, Counting, dispatcher
<1>3. Unmoved
  BY <1>1 DEF Unmoved, DispatcherTyped, files
<1>4. Places'
  BY <1>3, PlacesUnmoved DEF DispatcherInv
<1>5. RoomLeft'
  BY DEF DispatcherInv, RoomLeft, dispatcher
<1>6. PollSees'
  <2>1. Submit \in Held
    BY DEF DispatcherInv, Places, PollKnown
  <2>2. CASE Submit \in Completed
    BY <2>2 DEF Completed, PollSees
  <2> QED
    BY <2>1, <2>2 DEF Held, PollSees
<1>7. Told'
  BY <1>6 DEF Told
<1> QED
  BY <1>1, <1>2, <1>4, <1>5, <1>7 DEF DispatcherInv

LEMMA SignalRestKeeps ==
  ASSUME DispatcherInv, SignalRest PROVE DispatcherInv'
<1> USE DEF SignalRest, SetEvent, Enter, Loop
<1>1. DispatcherTyped /\ DispatcherTyped'
  BY DEF DispatcherInv, DispatcherTyped, submission, files
<1>2. QueueAccounted'
  BY <1>1, StillAccounted DEF DispatcherInv, submission
<1>3. Unmoved
  BY <1>1 DEF Unmoved, submission, files
<1>4. Places'
  BY <1>3, PlacesUnmoved DEF DispatcherInv
<1>5. RoomLeft'
  BY DEF DispatcherInv, RoomLeft
<1>6. PollSees'
  <2>1. Submit \in Held
    BY DEF DispatcherInv, Places, PollKnown
  <2>2. CASE Submit \in Completed
    BY <2>2 DEF Completed, PollSees
  <2> QED
    BY <2>1, <2>2 DEF Held, PollSees
<1>7. Told'
  BY <1>6 DEF Told
<1> QED
  BY <1>1, <1>2, <1>4, <1>5, <1>7 DEF DispatcherInv

LEMMA QuitEventKeeps ==
  ASSUME DispatcherInv, SetQuitEvent PROVE DispatcherInv'
<1> USE DEF SetQuitEvent, submission, dispatcher, kernel, files
<1>1. DispatcherTyped /\ DispatcherTyped'
  BY DEF DispatcherInv, DispatcherTyped
<1>2. QueueAccounted'
  BY <1>1, StillAccounted DEF DispatcherInv
<1>3. Unmoved
  BY <1>1 DEF Unmoved
<1>4. Places'
  BY <1>3, PlacesUnmoved DEF DispatcherInv
<1>5. RoomLeft'
  BY DEF DispatcherInv, RoomLeft
<1>6. Told'
  BY StillTold DEF DispatcherInv, PollSees
<1> QED
  BY <1>1, <1>2, <1>4, <1>5, <1>6 DEF DispatcherInv

LEMMA WaitKeeps ==
  ASSUME DispatcherInv, WaitForCompletion PROVE DispatcherInv'
<1> USE DEF WaitForCompletion, Enter, submission, kernel, files
<1>1. DispatcherTyped /\ Len(cq) \in Nat
  BY DEF DispatcherInv, DispatcherTyped
<1>2. batch' \in Nat /\ batch' <= Len(cq)
  BY <1>1, MinOfTwo, DispatcherAssumption
<1>3. DispatcherTyped'
  BY <1>1, <1>2 DEF DispatcherTyped
<1>4. QueueAccounted'
  BY StillAccounted DEF DispatcherInv
<1>5. Unmoved
  BY DEF Unmoved
<1>6. Places'
  BY <1>5, PlacesUnmoved DEF DispatcherInv
<1>7. Elements(sq) = {}
  BY DEF DispatcherInv, RoomLeft, Elements
<1>8. RoomLeft'
  BY <1>2, <1>7 DEF DispatcherInv, RoomLeft
<1>9. Told'
  BY DEF Told
<1> QED
  BY <1>3, <1>4, <1>6, <1>8, <1>9 DEF DispatcherInv

LEMMA PendingKeeps ==
  ASSUME DispatcherInv, TakePending PROVE DispatcherInv'
<1> USE DEF TakePending, Enter, kernel, files
<1>1. DispatcherTyped /\ Len(sq) \in Nat /\ SqEntries - Len(sq) \in Nat
  BY DispatcherAssumption DEF DispatcherInv, DispatcherTyped
<1>2. todo' \in Nat /\ todo' <= pending /\ todo' <= SqEntries - Len(sq)
  BY <1>1, MinOfTwo DEF DispatcherTyped
<1>3. rest' \in Nat /\ rest' = pending - todo' /\ Len(sq) + todo' <= SqEntries
  BY <1>1, <1>2, DispatcherAssumption DEF DispatcherTyped
<1>4. DispatcherTyped'
  BY <1>1, <1>2, <1>3 DEF DispatcherTyped
<1>5. QueueAccounted'
  BY <1>1, <1>2, <1>3, StillAccounted DEF DispatcherInv, DispatcherTyped, RoomLeft
<1>6. Unmoved
  BY DEF Unmoved
<1>7. Places'
  BY <1>6, PlacesUnmoved DEF DispatcherInv
<1>8. RoomLeft'
  BY <1>3 DEF DispatcherInv, RoomLeft
<1>9. Told'
  BY DEF Told
<1> QED
  BY <1>4, <1>5, <1>7, <1>8, <1>9 DEF DispatcherInv

LEMMA RecountKeeps ==
  ASSUME DispatcherInv, RecountRest PROVE DispatcherInv'
<1> USE DEF RecountRest, Enter, Loop, kernel, files
<1>1. DispatcherTyped /\ DispatcherTyped'
  BY DEF DispatcherInv, DispatcherTyped
<1>2. QueueAccounted'
  BY <1>1, StillAccounted DEF DispatcherInv, DispatcherTyped
<1>3. Unmoved
  BY DEF Unmoved
<1>4. Places'
  BY <1>3, PlacesUnmoved DEF DispatcherInv
<1>5. RoomLeft'
  BY DEF DispatcherInv, RoomLeft
<1>6. Told'
  BY <1>1 DEF DispatcherInv, Told, PollSees, DispatcherTyped
<1> QED
  BY <1>1, <1>2, <1>4, <1>5, <1>6 DEF DispatcherInv

-----------------------------------------------------------------------------
(* Steps that move an entry. *)

LEMMA SameCompletions ==
  ASSUME cq' = cq
  PROVE  Completed' = Completed /\ (CompletionsKnown => CompletionsKnown')
<1>1. \A i : Final(i)' <=> Final(i)
  BY DEF Final
<1> QED
  BY <1>1 DEF Completed, CompletionsKnown, Final

LEMMA EnqueueKeeps ==
  ASSUME DispatcherInv, NEW r \in Requests, Enqueue(r) PROVE DispatcherInv'
<1> USE DEF Enqueue, SubmitterGoto, dispatcher, kernel, files
<1>1. DispatcherTyped /\ queue \in Seq(Requests)
  BY DEF DispatcherInv, DispatcherTyped
<1>2. r \notin Elements(queue) /\ r \notin Held
  BY DEF DispatcherInv, Places, NewUnknown
<1>3. /\ queue' \in Seq(Requests) /\ Len(queue') = Len(queue) + 1
      /\ Elements(queue') = Elements(queue) \cup {r} /\ Distinct(queue')
  BY <1>1, <1>2, Appended DEF DispatcherInv, Places, EntriesApart
<1>4. DispatcherTyped'
  BY <1>1, <1>3 DEF DispatcherTyped
<1>5. QueueAccounted'
  <2>1. Counting' = Counting \cup {r} /\ r \notin Counting
    BY <1>1 DEF Counting, DispatcherTyped
  <2>2. Cardinality(Counting') = Cardinality(Counting) + 1
    BY <2>1, CountingFinite, FS_AddElement
  <2> QED
    BY <1>1, <1>3, <2>2, CountingFinite DEF DispatcherInv, QueueAccounted, Counting, DispatcherTyped
<1>6. Places'
  <2>1. Completed' = Completed /\ CompletionsKnown'
    BY SameCompletions DEF DispatcherInv, Places
  <2>2. Held' = Held
    BY <2>1 DEF Held
  <2>3. EntriesApart'
    BY <1>2, <1>3, <2>1, <2>2 DEF DispatcherInv, Places, EntriesApart
  <2>4. \A s \in Requests : submitter'[s] = IF s = r THEN "count" ELSE submitter[s]
    BY <1>1 DEF DispatcherTyped
  <2>5. RequestsKnown' /\ NewUnknown'
    BY <1>2, <1>3, <2>2, <2>4 DEF DispatcherInv, Places, RequestsKnown, NewUnknown
  <2>6. PollKnown' /\ FdsKnown'
    BY <2>2 DEF DispatcherInv, Places, PollKnown, FdsKnown
  <2> QED
    BY <2>1, <2>3, <2>5, <2>6 DEF Places
<1>7. RoomLeft'
  BY DEF DispatcherInv, RoomLeft
<1>8. Told'
  BY <1>1, StillTold DEF DispatcherInv, DispatcherTyped, PollSees
<1> QED
  BY <1>4, <1>5, <1>6, <1>7, <1>8 DEF DispatcherInv

(* The last completion of an entry takes it from the kernel. *)
LEMMA CompletePlaces ==
  ASSUME DispatcherInv, NEW e \in armed, NEW more \in BOOLEAN, more => e = Submit, Complete(e, more),
         UNCHANGED <<submitter, queue, sq, fulfilled, files>>
  PROVE  /\ cq' \in Seq(Completions) /\ armed' \subseteq Entries
         /\ Len(cq') = Len(cq) + 1 /\ cq' # <<>>
         /\ Places'
         /\ PollCompleted \/ e = Submit => PollCompleted'
<1> USE DEF Complete, files
<1>1. DispatcherTyped /\ cq \in Seq(Completions) /\ e \in Entries
  BY DEF DispatcherInv, DispatcherTyped, Completions
<1>2. e \notin Completed /\ CompletionsKnown
  BY DEF DispatcherInv, Places, EntriesApart
<1>3. /\ cq' \in Seq(Completions) /\ Len(cq') = Len(cq) + 1 /\ cq' # <<>>
      /\ Completed' = IF more THEN Completed ELSE Completed \cup {e}
      /\ CompletionsKnown'
      /\ PollCompleted \/ e = Submit => PollCompleted'
  BY <1>1, <1>2, Arrives
<1>4. armed' = IF more THEN armed ELSE armed \ {e}
  OBVIOUS
<1>5. Held' = Held
  BY <1>3, <1>4 DEF Held
<1>6. EntriesApart'
  BY <1>3, <1>4, <1>5 DEF DispatcherInv, Places, EntriesApart, Held
<1>7. RequestsKnown' /\ NewUnknown' /\ PollKnown' /\ FdsKnown'
  BY <1>5 DEF DispatcherInv, Places, RequestsKnown, NewUnknown, PollKnown, FdsKnown
<1>8. armed' \subseteq Entries
  BY <1>1, <1>4 DEF DispatcherTyped
<1> QED
  BY <1>3, <1>6, <1>7, <1>8 DEF Places

LEMMA CompleteKeeps ==
  ASSUME DispatcherInv, NEW e \in armed, e # Submit, Complete(e, FALSE),
         UNCHANGED <<submission, event, quitting, dispatcher, sq, notified, fulfilled, files>>
  PROVE  DispatcherInv'
<1> USE DEF submission, dispatcher, files
<1>1. /\ cq' \in Seq(Completions) /\ armed' \subseteq Entries
      /\ Len(cq') = Len(cq) + 1 /\ cq' # <<>>
      /\ Places' /\ (PollCompleted => PollCompleted')
  BY CompletePlaces
<1>2. DispatcherTyped /\ DispatcherTyped'
  BY <1>1 DEF DispatcherInv, DispatcherTyped, Completions
<1>3. QueueAccounted'
  BY StillAccounted DEF DispatcherInv
<1>4. RoomLeft'
  BY <1>1, <1>2 DEF DispatcherInv, RoomLeft, DispatcherTyped
<1>5. Told'
  <2>1. Submit \in armed => Submit \in armed'
    BY DEF Complete
  <2>2. PollSees => PollSees'
    BY <1>1, <2>1 DEF PollSees, PollCompleted
  <2> QED
    BY <2>2, StillTold DEF DispatcherInv
<1> QED
  BY <1>1, <1>2, <1>3, <1>4, <1>5 DEF DispatcherInv

LEMMA FireKeeps ==
  ASSUME DispatcherInv, FireSubmit PROVE DispatcherInv'
<1> USE DEF FireSubmit, submission, dispatcher, files
<1>1. CASE ~event
  <2>1. UNCHANGED <<armed, cq>>
    BY <1>1
  <2>2. DispatcherTyped /\ DispatcherTyped'
    BY <2>1 DEF DispatcherInv, DispatcherTyped
  <2>3. QueueAccounted'
    BY StillAccounted DEF DispatcherInv
  <2>4. Unmoved
    BY <2>1 DEF Unmoved
  <2>5. Places'
    BY <2>4, PlacesUnmoved DEF DispatcherInv
  <2>6. RoomLeft' /\ Told'
    BY <1>1, <2>1 DEF DispatcherInv, RoomLeft, Told
  <2> QED
    BY <2>2, <2>3, <2>5, <2>6 DEF DispatcherInv
<1>2. CASE event
  <2> PICK more \in BOOLEAN : Complete(Submit, more)
    BY <1>2
  <2>1. /\ cq' \in Seq(Completions) /\ armed' \subseteq Entries
        /\ Len(cq') = Len(cq) + 1 /\ cq' # <<>>
        /\ Places' /\ PollCompleted'
    BY CompletePlaces
  <2>2. DispatcherTyped /\ DispatcherTyped'
    BY <2>1 DEF DispatcherInv, DispatcherTyped, Completions
  <2>3. QueueAccounted'
    BY StillAccounted DEF DispatcherInv
  <2>4. RoomLeft'
    BY <2>1, <2>2 DEF DispatcherInv, RoomLeft, DispatcherTyped
  <2>5. Told'
    BY <1>2, <2>1 DEF Told, PollSees, PollCompleted
  <2> QED
    BY <2>1, <2>2, <2>3, <2>4, <2>5 DEF DispatcherInv
<1> QED
  BY <1>1, <1>2

LEMMA SubmitKeeps ==
  ASSUME DispatcherInv, SubmitEntries PROVE DispatcherInv'
<1> USE DEF SubmitEntries, Enter, submission, files
<1>1. DispatcherTyped /\ sq \in Seq(Entries)
  BY DEF DispatcherInv, DispatcherTyped
<1>2. armed' = armed \cup Elements(sq) /\ Elements(sq) \subseteq Entries
  BY <1>1 DEF Elements
<1>3. Elements(sq') = {} /\ Distinct(sq') /\ Len(sq') = 0 /\ sq' \in Seq(Entries)
  BY DEF Elements, Distinct
<1>4. DispatcherTyped'
  BY <1>1, <1>2, <1>3, DispatcherAssumption DEF DispatcherTyped
<1>5. QueueAccounted'
  BY StillAccounted DEF DispatcherInv
<1>6. Places'
  <2>1. Completed' = Completed /\ CompletionsKnown'
    BY SameCompletions DEF DispatcherInv, Places
  <2>2. Held' = Held
    BY <1>2, <1>3, <2>1 DEF Held
  <2>3. EntriesApart'
    BY <1>2, <1>3, <2>1, <2>2 DEF DispatcherInv, Places, EntriesApart, Held
  <2>4. RequestsKnown' /\ NewUnknown' /\ PollKnown' /\ FdsKnown'
    BY <2>2 DEF DispatcherInv, Places, RequestsKnown, NewUnknown, PollKnown, FdsKnown
  <2> QED
    BY <2>1, <2>3, <2>4 DEF Places
<1>7. RoomLeft'
  BY DEF DispatcherInv, RoomLeft
<1>8. Told'
  <2>1. Submit \in Elements(sq) => Submit \in armed' \ armed
    BY <1>2 DEF DispatcherInv, Places, EntriesApart
  <2>2. PollSees /\ event => PollSees'
    BY <1>2, <2>1 DEF PollSees
  <2> QED
    BY <2>2, StillTold DEF DispatcherInv
<1> QED
  BY <1>4, <1>5, <1>6, <1>7, <1>8 DEF DispatcherInv

LEMMA TakePlaces ==
  ASSUME DispatcherInv, NEW e \in Entries, Take(e)
  PROVE  /\ DispatcherTyped /\ stage = "handle" /\ CompletionsKnown
         /\ cq' \in Seq(Completions) /\ Len(cq') = Len(cq) - 1 /\ Len(cq) \in Nat
         /\ batch' \in Nat /\ batch' <= Len(cq')
         /\ Head(cq).more \in BOOLEAN /\ CompletionsKnown'
         /\ Head(cq).more => e = Submit /\ Completed' = Completed
         /\ ~Head(cq).more => e \in Completed /\ Completed' = Completed \ {e}
<1> USE DEF Take
<1>1. DispatcherTyped /\ cq \in Seq(Completions) /\ CompletionsKnown /\ batch \in Nat
      /\ Len(cq) \in Nat /\ batch <= Len(cq) /\ Len(cq) > 0
  BY DEF DispatcherInv, DispatcherTyped, Places, RoomLeft, Completions
<1>2. /\ cq' \in Seq(Completions) /\ Len(cq') = Len(cq) - 1
      /\ Head(cq) \in Completions
      /\ CompletionsKnown'
      /\ Head(cq).more => Head(cq).entry = Submit /\ Completed' = Completed
      /\ ~Head(cq).more => /\ Head(cq).entry \in Completed
                           /\ Completed' = Completed \ {Head(cq).entry}
  BY <1>1, Handled
<1>3. Head(cq).more \in BOOLEAN
  BY <1>2 DEF Completions
<1> QED
  BY <1>1, <1>2, <1>3

LEMMA HandleQuitKeeps ==
  ASSUME DispatcherInv, HandleQuit PROVE DispatcherInv'
<1> USE DEF HandleQuit, submission, files
<1>1. Quit \in Entries /\ Quit # Submit /\ Quit \notin Requests /\ Take(Quit)
  BY DispatcherAssumption DEF Entries
<1>2. /\ DispatcherTyped /\ stage = "handle" /\ CompletionsKnown'
      /\ cq' \in Seq(Completions) /\ Len(cq') = Len(cq) - 1
      /\ batch' \in Nat /\ batch' <= Len(cq')
      /\ Completed' = Completed \ {Quit}
  BY <1>1, TakePlaces
<1>3. DispatcherTyped'
  BY <1>2 DEF DispatcherTyped, Completions
<1>4. QueueAccounted'
  BY StillAccounted DEF DispatcherInv
<1>5. Places'
  <2>1. Held' \subseteq Held /\ \A y : y \in Held /\ y # Quit => y \in Held'
    BY <1>2 DEF Held
  <2>2. EntriesApart'
    BY <1>2, <2>1 DEF DispatcherInv, Places, EntriesApart
  <2>3. \A r \in Requests : r \in Held' <=> r \in Held
    BY <1>1, <2>1
  <2>4. RequestsKnown' /\ NewUnknown' /\ PollKnown' /\ FdsKnown'
    BY <1>1, <2>1, <2>3, DispatcherAssumption
       DEF DispatcherInv, Places, RequestsKnown, NewUnknown, PollKnown, FdsKnown
  <2> QED
    BY <1>2, <2>2, <2>4 DEF Places
<1>6. RoomLeft' /\ Told'
  BY <1>2 DEF DispatcherInv, RoomLeft, Told
<1> QED
  BY <1>3, <1>4, <1>5, <1>6 DEF DispatcherInv

LEMMA HandleSubmitKeeps ==
  ASSUME DispatcherInv, HandleSubmit PROVE DispatcherInv'
<1> USE DEF HandleSubmit, submission, files
<1>1. Submit \in Entries /\ Submit \notin Requests /\ Take(Submit)
  BY DispatcherAssumption DEF Entries
<1>2. /\ DispatcherTyped /\ stage = "handle" /\ CompletionsKnown'
      /\ cq' \in Seq(Completions) /\ Len(cq') = Len(cq) - 1
      /\ batch' \in Nat /\ batch' <= Len(cq')
      /\ Head(cq).more \in BOOLEAN
      /\ Head(cq).more => Completed' = Completed
      /\ ~Head(cq).more => Submit \in Completed /\ Completed' = Completed \ {Submit}
  BY <1>1, TakePlaces
<1>3. sq \in Seq(Entries) /\ Elements(sq) \subseteq {Submit} /\ Distinct(sq)
  BY <1>2 DEF DispatcherInv, DispatcherTyped, RoomLeft, Places, EntriesApart
<1>4. /\ sq' \in Seq(Entries) /\ Len(sq') <= SqEntries /\ Distinct(sq')
      /\ Elements(sq') \subseteq {Submit}
      /\ Head(cq).more => Elements(sq') = Elements(sq)
      /\ ~Head(cq).more => Elements(sq) = {} /\ Elements(sq') = {Submit}
  <2>1. CASE Head(cq).more
    BY <1>2, <1>3, <2>1 DEF DispatcherTyped
  <2>2. CASE ~Head(cq).more
    <3>1. Submit \notin Elements(sq)
      BY <1>2, <2>2 DEF DispatcherInv, Places, EntriesApart
    <3>2. Elements(sq) = {} /\ Len(sq) = 0
      <4>1. Elements(sq) = {}
        BY <1>3, <3>1
      <4>2. Len(sq) # 0 => 1 \in DOMAIN sq
        BY <1>3
      <4> QED
        BY <1>3, <4>1, <4>2 DEF Elements
    <3>3. sq' = Append(sq, Submit)
      BY <2>2
    <3>4. /\ sq' \in Seq(Entries) /\ Len(sq') = Len(sq) + 1 /\ Distinct(sq')
          /\ Elements(sq') = Elements(sq) \cup {Submit}
      BY <1>1, <1>3, <3>1, <3>3, Appended
    <3> QED
      BY <2>2, <3>2, <3>4, DispatcherAssumption
  <2> QED
    BY <2>1, <2>2
<1>5. DispatcherTyped'
  BY <1>2, <1>4 DEF DispatcherTyped, Completions
<1>6. QueueAccounted'
  BY StillAccounted DEF DispatcherInv
<1>7. Places'
  <2>1. Held' = Held
    BY <1>2, <1>4 DEF Held
  <2>2. EntriesApart'
    BY <1>2, <1>4, <2>1 DEF DispatcherInv, Places, EntriesApart
  <2>3. RequestsKnown' /\ NewUnknown' /\ PollKnown' /\ FdsKnown'
    BY <2>1 DEF DispatcherInv, Places, RequestsKnown, NewUnknown, PollKnown, FdsKnown
  <2> QED
    BY <1>2, <2>2, <2>3 DEF Places
<1>8. RoomLeft' /\ Told'
  BY <1>2, <1>4 DEF DispatcherInv, RoomLeft, Told
<1> QED
  BY <1>5, <1>6, <1>7, <1>8 DEF DispatcherInv

LEMMA HandleRequestKeeps ==
  ASSUME DispatcherInv, NEW r \in Requests, HandleRequest(r) PROVE DispatcherInv'
<1> USE DEF HandleRequest, submission
<1>1. r \in Entries /\ r # Submit /\ Take(r)
  BY DispatcherAssumption DEF Entries
<1>2. /\ DispatcherTyped /\ stage = "handle" /\ CompletionsKnown'
      /\ cq' \in Seq(Completions) /\ Len(cq') = Len(cq) - 1
      /\ batch' \in Nat /\ batch' <= Len(cq')
      /\ r \in Completed /\ Completed' = Completed \ {r}
  BY <1>1, TakePlaces
<1>3. \A s \in Requests : fulfilled'[s] = IF s = r THEN fulfilled[r] + 1 ELSE fulfilled[s]
  BY <1>2 DEF DispatcherTyped
<1>4. /\ r \in Held /\ r \notin Held' /\ Held' \subseteq Held
      /\ \A y : y \in Held /\ y # r => y \in Held'
      /\ r \notin Elements(queue) /\ submitter[r] # "new" /\ fulfilled[r] = 0
  BY <1>2 DEF Held, DispatcherInv, Places, EntriesApart, NewUnknown, RequestsKnown
<1>5. DispatcherTyped'
  BY <1>2 DEF DispatcherTyped, Completions
<1>6. QueueAccounted'
  BY StillAccounted DEF DispatcherInv
<1>7. Places'
  <2>1. EntriesApart'
    BY <1>2, <1>4 DEF DispatcherInv, Places, EntriesApart
  <2>2. RequestsKnown'
    BY <1>3, <1>4 DEF DispatcherInv, Places, RequestsKnown
  <2>3. NewUnknown' /\ PollKnown'
    BY <1>1, <1>4 DEF DispatcherInv, Places, NewUnknown, PollKnown
  <2>4. FdsKnown'
    BY <1>4 DEF DispatcherInv, Places, FdsKnown
  <2> QED
    BY <1>2, <2>1, <2>2, <2>3, <2>4 DEF Places
<1>8. RoomLeft' /\ Told'
  BY <1>2 DEF DispatcherInv, RoomLeft, Told
<1> QED
  BY <1>5, <1>6, <1>7, <1>8 DEF DispatcherInv

LEMMA QueueRequestKeeps ==
  ASSUME DispatcherInv, QueueRequest PROVE DispatcherInv'
<1> USE DEF QueueRequest, kernel
<1> PICK h : h = Head(queue)
  OBVIOUS
<1>1. DispatcherTyped /\ queue \in Seq(Requests) /\ Len(queue) > 0 /\ sq \in Seq(Entries)
  BY DEF DispatcherInv, DispatcherTyped
<1>2. /\ h \in Requests /\ h \in Elements(queue)
      /\ queue' \in Seq(Requests) /\ Len(queue') = Len(queue) - 1
      /\ Elements(queue') = Elements(queue) \ {h} /\ Distinct(queue')
  BY <1>1, Dequeued DEF DispatcherInv, Places, EntriesApart
<1>3. h \in Entries /\ h \notin Held /\ sq' = Append(sq, h)
  BY <1>2 DEF DispatcherInv, Places, EntriesApart, Entries
<1>4. /\ sq' \in Seq(Entries) /\ Len(sq') = Len(sq) + 1
      /\ Elements(sq') = Elements(sq) \cup {h} /\ Distinct(sq')
  BY <1>1, <1>3, Appended DEF DispatcherInv, Places, EntriesApart, Held
<1>5. todo' \in Nat /\ todo' = todo - 1 /\ Len(sq') + todo' <= SqEntries /\ Len(sq') <= SqEntries
  BY <1>1, <1>4, DispatcherAssumption DEF DispatcherInv, RoomLeft, DispatcherTyped
<1>6. /\ fd' \in [Fences -> Fences \cup {File}] /\ open' \subseteq Fences \cup {File}
      /\ \A r \in Fences : r # h => fd'[r] = fd[r] /\ (r \in open' => r \in open)
      /\ h \in Fences /\ h \in open' => fd'[h] = h
  <2>1. CASE UNCHANGED files
    <3>1. h \in Fences => h \notin open
      BY <1>3 DEF DispatcherInv, Places, FdsKnown
    <3> QED
      BY <1>1, <2>1, <3>1 DEF DispatcherTyped, files
  <2>2. CASE /\ h \in Fences
             /\ fd' = [fd EXCEPT ![h] = h]
             /\ open' = open \cup {h}
    BY <1>1, <2>2 DEF DispatcherTyped
  <2> QED
    BY <2>1, <2>2
<1>7. DispatcherTyped'
  BY <1>1, <1>2, <1>4, <1>5, <1>6 DEF DispatcherTyped
<1>8. QueueAccounted'
  <2>1. Counting' = Counting
    BY DEF Counting
  <2> QED
    <3>1. pending' = pending /\ rest' = rest
      OBVIOUS
    <3>2. pending + todo + rest + Cardinality(Counting) = Len(queue)
      BY DEF DispatcherInv, QueueAccounted, Counting
    <3>3. pending \in Nat /\ todo \in Nat /\ rest \in Nat /\ Len(queue) \in Nat
      BY <1>1 DEF DispatcherTyped
    <3>4. pending' + todo' + rest' + Cardinality(Counting') = Len(queue')
      <4> HIDE DEF QueueRequest
      <4> QED
        BY <1>2, <1>5, <2>1, <3>1, <3>2, <3>3, CountingFinite
    <3> QED
      BY <3>4 DEF QueueAccounted, Counting
<1>9. Places'
  <2>1. Completed' = Completed /\ CompletionsKnown'
    BY SameCompletions DEF DispatcherInv, Places
  <2>2. Held' = Held \cup {h}
    BY <1>4, <2>1 DEF Held
  <2>3. EntriesApart'
    BY <1>2, <1>3, <1>4, <2>1, <2>2 DEF DispatcherInv, Places, EntriesApart, Held
  <2>4. RequestsKnown' /\ NewUnknown' /\ PollKnown'
    BY <1>2, <2>2 DEF DispatcherInv, Places, RequestsKnown, NewUnknown, PollKnown
  <2>5. FdsKnown'
    BY <1>6, <2>2 DEF DispatcherInv, Places, FdsKnown
  <2> QED
    BY <2>1, <2>3, <2>4, <2>5 DEF Places
<1>10. RoomLeft'
  BY <1>5 DEF DispatcherInv, RoomLeft
<1>11. Told'
  <2>1. PollSees => PollSees'
    BY <1>4 DEF PollSees
  <2> QED
    BY <2>1, StillTold DEF DispatcherInv
<1> QED
  BY <1>7, <1>8, <1>9, <1>10, <1>11 DEF DispatcherInv

LEMMA StepKeeps == ASSUME DispatcherInv, [IoNext]_ioVars PROVE DispatcherInv'
<1>1. CASE UNCHANGED ioVars
  <2> USE <1>1 DEF ioVars, submission, dispatcher, kernel, files
  <2>1. DispatcherTyped' /\ QueueAccounted' /\ RoomLeft' /\ Told'
    BY DEF DispatcherInv, DispatcherTyped, QueueAccounted, RoomLeft, Told, PollSees
  <2>2. Unmoved
    BY DEF Unmoved
  <2>3. Places'
    BY <2>2, PlacesUnmoved DEF DispatcherInv
  <2> QED
    BY <2>1, <2>3 DEF DispatcherInv
<1>2. CASE \E r \in Requests : Submission(r)
  BY <1>2, EnqueueKeeps, CountKeeps, SignalKeeps DEF Submission
<1>3. CASE SetQuitEvent
  BY <1>3, QuitEventKeeps
<1>4. CASE Kernel
  <2>1. CASE CompleteQuit
    <3>1. Quit \in armed /\ Quit # Submit
      BY <2>1, DispatcherAssumption DEF CompleteQuit
    <3> QED
      BY <2>1, <3>1, CompleteKeeps DEF CompleteQuit
  <2>2. CASE \E r \in Requests : CompleteRequest(r)
    <3> PICK r \in Requests : CompleteRequest(r)
      BY <2>2
    <3>1. r \in armed /\ r # Submit
      BY DispatcherAssumption DEF CompleteRequest
    <3> QED
      BY <3>1, CompleteKeeps DEF CompleteRequest
  <2> QED
    BY <1>4, <2>1, <2>2, FireKeeps DEF Kernel
<1>5. CASE Dispatch
  BY <1>5, SubmitKeeps, WaitKeeps, HandleQuitKeeps, HandleSubmitKeeps, HandleRequestKeeps,
     PendingKeeps, QueueRequestKeeps, RecountKeeps, SignalRestKeeps DEF Dispatch
<1> QED
  BY <1>1, <1>2, <1>3, <1>4, <1>5 DEF IoNext

-----------------------------------------------------------------------------
(* What the invariant says of the requests. *)

LEMMA OneOrNone ==
  ASSUME NEW X, NEW y, X = {} \/ X = {y}
  PROVE  Cardinality(X) = IF X = {} THEN 0 ELSE 1
BY FS_EmptySet, FS_Singleton

LEMMA OccursOnce ==
  ASSUME NEW S, NEW q \in Seq(S), Distinct(q), NEW r
  PROVE  Cardinality({i \in DOMAIN q : q[i] = r}) = IF r \in Elements(q) THEN 1 ELSE 0
<1> DEFINE At == {i \in DOMAIN q : q[i] = r}
<1>1. CASE r \in Elements(q)
  <2> PICK i \in DOMAIN q : q[i] = r
    BY <1>1 DEF Elements
  <2>1. At = {i}
    BY DEF Distinct
  <2> QED
    BY <1>1, <2>1, FS_Singleton
<1>2. CASE r \notin Elements(q)
  <2>1. At = {}
    BY <1>2 DEF Elements
  <2> QED
    BY <1>2, <2>1, FS_EmptySet
<1> QED
  BY <1>1, <1>2

LEMMA CompletesOnce ==
  ASSUME CompletionsKnown, NEW r \in Requests
  PROVE  Cardinality({i \in DOMAIN cq : cq[i].entry = r}) = IF r \in Completed THEN 1 ELSE 0
<1> DEFINE At == {i \in DOMAIN cq : cq[i].entry = r}
<1>1. \A i \in At : Final(i)
  BY DispatcherAssumption DEF CompletionsKnown
<1>2. CASE r \in Completed
  <2> PICK i \in DOMAIN cq : cq[i].entry = r
    BY <1>2 DEF Completed
  <2>1. At = {i}
    BY <1>1 DEF CompletionsKnown
  <2> QED
    BY <1>2, <2>1, FS_Singleton
<1>3. CASE r \notin Completed
  <2>1. At = {}
    BY <1>1, <1>3 DEF Completed
  <2> QED
    BY <1>3, <2>1, FS_EmptySet
<1> QED
  BY <1>2, <1>3

LEMMA InvRequests == ASSUME DispatcherInv PROVE RequestsSound
<1>1. FulfilledOnce
  <2> SUFFICES ASSUME NEW r \in Requests
               PROVE  Copies(r) + fulfilled[r] = IF submitter[r] = "new" THEN 0 ELSE 1
    BY DEF FulfilledOnce
  <2>1. queue \in Seq(Requests) /\ sq \in Seq(Entries)
    BY DEF DispatcherInv, DispatcherTyped
  <2>2. Cardinality({i \in DOMAIN queue : queue[i] = r}) = IF r \in Elements(queue) THEN 1 ELSE 0
    BY <2>1, OccursOnce DEF DispatcherInv, Places, EntriesApart
  <2>3. Cardinality({i \in DOMAIN sq : sq[i] = r}) = IF r \in Elements(sq) THEN 1 ELSE 0
    BY <2>1, OccursOnce DEF DispatcherInv, Places, EntriesApart
  <2>4. Cardinality(armed \cap {r}) = IF r \in armed THEN 1 ELSE 0
    <3>1. CASE r \in armed
      <4>1. armed \cap {r} = {r}
        BY <3>1
      <4> QED
        BY <3>1, <4>1, FS_Singleton
    <3>2. CASE r \notin armed
      <4>1. armed \cap {r} = {}
        BY <3>2
      <4> QED
        BY <3>2, <4>1, FS_EmptySet
    <3> QED
      BY <3>1, <3>2
  <2>5. Cardinality({i \in DOMAIN cq : cq[i].entry = r}) = IF r \in Completed THEN 1 ELSE 0
    BY CompletesOnce DEF DispatcherInv, Places
  <2>6. /\ r \in Elements(queue) => r \notin Elements(sq) /\ r \notin armed /\ r \notin Completed
        /\ r \in Elements(sq) => r \notin armed /\ r \notin Completed
        /\ r \in armed => r \notin Completed
    BY DEF DispatcherInv, Places, EntriesApart, Held
  <2>7. Copies(r) = IF r \in Elements(queue) \cup Held THEN 1 ELSE 0
    BY <2>2, <2>3, <2>4, <2>5, <2>6 DEF Copies, Held
  <2>8. /\ fulfilled[r] = IF submitter[r] = "new" \/ r \in Elements(queue) \cup Held THEN 0 ELSE 1
        /\ submitter[r] = "new" => r \notin Elements(queue) \cup Held
    BY DEF DispatcherInv, Places, RequestsKnown, NewUnknown
  <2> QED
    BY <2>7, <2>8
<1>2. NoMissedSubmission
  <2>1. stage = "wait" => Elements(sq) = {}
    BY DEF DispatcherInv, RoomLeft, Elements
  <2> QED
    BY <2>1 DEF DispatcherInv, Told, PollSees, NoMissedSubmission
<1>3. FenceFdsClosed
  BY DispatcherAssumption DEF DispatcherInv, Places, FdsKnown, RequestsKnown, FenceFdsClosed
<1> QED
  BY <1>1, <1>2, <1>3 DEF DispatcherInv, RequestsSound

(* Every request is in one place, counted, and fulfilled once; the ring    *)
(* has room for whatever is put into it; and the dispatcher does not sleep *)
(* on a request it was told of, and does not forget to close a descriptor. *)
THEOREM DispatcherRequests == IoSpec => []RequestsSound
<1>1. IoInit => DispatcherInv
  BY Started
<1>2. DispatcherInv /\ [IoNext]_ioVars => DispatcherInv'
  BY StepKeeps
<1>3. DispatcherInv => RequestsSound
  BY InvRequests
<1> QED
  BY <1>1, <1>2, <1>3, PTL DEF IoSpec

=================================================================================
