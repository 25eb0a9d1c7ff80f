----------------------- MODULE PromiseAndStreamingProofs -----------------------
(***************************************************************************)
(* Promises, and the streamers whose loads they announce.                  *)
(*                                                                         *)
(* WaitersSound and ReturnsOnlyFulfilled for any sets of tasklets, threads *)
(* and continuations, any layout of their pointers and any number of       *)
(* rounds.  The heart is Once, that each waiter that gave up running has   *)
(* exactly one pointer to it.  It needs that the links of a tasklet being  *)
(* woken are gone (FulfillerKnown), and it is what shows that reset() does *)
(* not take the promise away under a wake-up that still has waiters        *)
(* (ValueStored): a reset wants nobody inside wait().                      *)
(*                                                                         *)
(* StreamingSound for any assets, command buffers, hardware queues and     *)
(* sizes.  That a staging buffer outlives its copy is a matter of the      *)
(* command buffer that has it: what is inductive is that a buffer and the  *)
(* load that records it know of each other (UploadsKnown), that the        *)
(* hardware queues hold the buffers that execute as they were submitted    *)
(* (BuffersListed), how far each load is with its future and its result    *)
(* (LoadsKnown, ResultsKnown), and that the places taken in the mesh       *)
(* buffers lie apart below the heads (PlacesTaken).                        *)
(***************************************************************************)
EXTENDS Promise, AssetStreaming, FiniteSetTheorems, TLAPS

(* The locals of fulfill() and wake_all() that are not in use are null,    *)
(* and a waiter about to be scheduled has no link left.                    *)
FulfillerKnown ==
  /\ fulfiller.pc \in {"idle", "exchange", "wake"} => fulfiller.cursor = Null
  /\ fulfiller.pc # "schedule" => fulfiller.target = Null
  /\ fulfiller.pc = "schedule" => fulfiller.target \in Linked /\ link[fulfiller.target] = Null

(* A fulfilled promise has its value, and stays fulfilled while wake_all() *)
(* has somebody to wake.                                                   *)
ValueStored ==
  /\ m_state.fulfilled => m_storage
  /\ fulfiller.pc = "exchange" => m_storage /\ ~m_state.fulfilled
  /\ fulfiller.pc = "wake" /\ fulfiller.state.list # Null => m_state.fulfilled
  /\ fulfiller.pc = "walk" /\ fulfiller.cursor # Null => m_state.fulfilled
  /\ fulfiller.pc = "schedule" => m_state.fulfilled

(* Who can be where, and what the state that was loaded says about now.    *)
LocalsKnown ==
  \A p \in All :
    /\ pc[p] \in {"or", "futex", "asleep", "reload"} => p \in Threads
    /\ pc[p] \in {"add", "suspend", "suspended", "queued"} => p \in Linked
    /\ pc[p] = "add" /\ seen[p].fulfilled => m_state.fulfilled
    /\ pc[p] \in {"or", "futex"} => ~seen[p].fulfilled

Once(t) == IF t \in Parked THEN \E p : Pointers(t) = {p} ELSE Pointers(t) = {}

EachOnce == \A t \in Linked : Once(t)

Inv == TypeOK /\ SleepersKnown /\ FulfillerKnown /\ ValueStored /\ LocalsKnown /\ EachOnce

-----------------------------------------------------------------------------
(* Facts about pointers. *)

LEMMA OnceMeansOne == EachOnce => OnePointerEach
<1>1. \A p : Cardinality({p}) = 1
  BY FS_Singleton
<1> QED
  BY <1>1, FS_EmptySet DEF EachOnce, Once, OnePointerEach

(* The kinds of pointers, one by one. *)
LEMMA PointerKinds ==
  ASSUME NEW t \in Linked
  PROVE  \A p : p \in Pointers(t) <=>
           \/ p = <<"head", t>> /\ m_state.list = t
           \/ p = <<"taken", t>> /\ fulfiller.state.list = t /\ fulfiller.pc = "wake"
           \/ \E u \in Parked : p = <<"link", u>> /\ link[u] = t
           \/ p = <<"cursor", t>> /\ fulfiller.cursor = t
           \/ p = <<"target", t>> /\ fulfiller.target = t
BY DEF Pointers

(* The same after a step. *)
LEMMA PointerKindsNext ==
  ASSUME NEW t \in Linked
  PROVE  \A p : p \in Pointers(t)' <=>
           \/ p = <<"head", t>> /\ m_state'.list = t
           \/ p = <<"taken", t>> /\ fulfiller'.state.list = t /\ fulfiller'.pc = "wake"
           \/ \E u \in Parked' : p = <<"link", u>> /\ link'[u] = t
           \/ p = <<"cursor", t>> /\ fulfiller'.cursor = t
           \/ p = <<"target", t>> /\ fulfiller'.target = t
BY DEF Pointers

(* Only a waiter that is parked is pointed at. *)
LEMMA PointedAtIsParked ==
  ASSUME EachOnce, NEW t \in Linked,
         \/ m_state.list = t
         \/ fulfiller.state.list = t /\ fulfiller.pc = "wake"
         \/ \E u \in Parked : link[u] = t
         \/ fulfiller.cursor = t
         \/ fulfiller.target = t
  PROVE  t \in Parked
<1>1. Pointers(t) # {}
  BY PointerKinds
<1> QED
  BY <1>1 DEF EachOnce, Once

(* Where the sets of pointers and of parked tasklets stay, so does Once. *)
LEMMA OnceStays ==
  ASSUME NEW t \in Linked, Once(t), t \in Parked' <=> t \in Parked,
         \A p : p \in Pointers(t)' <=> p \in Pointers(t)
  PROVE  Once(t)'
<1>1. Pointers(t)' = Pointers(t)
  OBVIOUS
<1> QED
  BY <1>1 DEF Once

(* One pointer turns into another. *)
LEMMA OnceMoves ==
  ASSUME NEW t \in Linked, Once(t), NEW p, NEW q, p \in Pointers(t), t \in Parked',
         \A r : r \in Pointers(t)' <=> r = q \/ (r \in Pointers(t) /\ r # p)
  PROVE  Once(t)'
<1>1. Pointers(t) = {p}
  BY DEF Once
<1>2. Pointers(t)' = {q}
  BY <1>1
<1> QED
  BY <1>2 DEF Once

(* A step that parks nobody, wakes nobody, keeps the links of those who    *)
(* are parked and all the other pointers keeps Once.                       *)
LEMMA NoPointerMoves ==
  ASSUME EachOnce, Parked' = Parked, \A u \in Parked : link'[u] = link[u],
         m_state'.list = m_state.list, fulfiller'.cursor = fulfiller.cursor,
         fulfiller'.target = fulfiller.target,
         \A t \in Linked : fulfiller'.state.list = t /\ fulfiller'.pc = "wake"
                       <=> fulfiller.state.list = t /\ fulfiller.pc = "wake"
  PROVE  EachOnce'
<1> SUFFICES ASSUME NEW t \in Linked PROVE Once(t)'
  BY DEF EachOnce
<1>1. \A p : p \in Pointers(t)' <=> p \in Pointers(t)
  BY PointerKinds, PointerKindsNext
<1> QED
  BY <1>1, OnceStays DEF EachOnce

-----------------------------------------------------------------------------

LEMMA InitInv == Init => Inv
<1> SUFFICES ASSUME Init PROVE Inv
  OBVIOUS
<1> USE PromiseAssumption DEF Init, All, Waiters, Linked
<1>1. TypeOK
  <2>1. Fresh \in State /\ ~Fresh.fulfilled
    BY DEF Fresh, State
  <2>2. link \in [Linked -> Linked \cup {Null}] /\ round \in 0 .. MaxRounds - 1
    OBVIOUS
  <2>3. pc \in [All -> Locations]
    BY DEF Locations
  <2>4. seen \in [All -> State]
    BY <2>1
  <2> QED
    BY <2>1, <2>2, <2>3, <2>4 DEF TypeOK
<1>2. SleepersKnown /\ FulfillerKnown /\ ValueStored /\ LocalsKnown
  BY DEF SleepersKnown, FulfillerKnown, ValueStored, LocalsKnown, Fresh
<1>3. Parked = {}
  BY DEF Parked
<1>4. \A t \in Linked : \A p : p \notin Pointers(t)
  BY <1>3, PointerKinds DEF Fresh
<1>5. EachOnce
  BY <1>3, <1>4 DEF EachOnce, Once
<1> QED
  BY <1>1, <1>2, <1>5 DEF Inv

-----------------------------------------------------------------------------
(* Types. *)

LEMMA WaiterTypes ==
  ASSUME Inv, NEW t \in All, Call(t) \/ Continue(t) \/ Interrupted(t)
  PROVE  TypeOK'
<1> USE DEF TypeOK, State, Locations, Goto, Saw
<1>1. Fresh \in State
  BY DEF Fresh, State
<1>2. CASE LoadState(t)
  BY <1>2 DEF Inv, LoadState
<1>3. CASE AlreadyFulfilled(t)
  BY <1>1, <1>3 DEF Inv, AlreadyFulfilled
<1>4. CASE AddWaiter(t)
  <2>1. seen[t].list \in Linked \cup {Null} /\ t \in Linked
    BY <1>4 DEF Inv, AddWaiter
  <2>2. link' \in [Linked -> Linked \cup {Null}]
    BY <1>4, <2>1 DEF Inv, AddWaiter
  <2>3. CASE m_state = seen[t]
    <3>1. /\ m_state' = [m_state EXCEPT !.list = t] /\ ~m_state.fulfilled
          /\ pc' = [pc EXCEPT ![t] = IF t \in Tasklets THEN "suspend" ELSE "suspended"]
          /\ seen' = [seen EXCEPT ![t] = Fresh]
          /\ UNCHANGED <<m_storage, fulfiller, round>>
      BY <1>4, <2>3 DEF AddWaiter
    <3>2. m_state' \in State /\ ~m_state'.fulfilled
      BY <2>1, <3>1 DEF Inv
    <3>3. seen' \in [All -> State] /\ pc' \in [All -> Locations]
      BY <1>1, <3>1 DEF Inv
    <3> QED
      BY <2>2, <3>1, <3>2, <3>3 DEF Inv
  <2>4. CASE m_state # seen[t]
    BY <1>4, <2>2, <2>4 DEF Inv, AddWaiter
  <2> QED
    BY <2>3, <2>4
<1>5. CASE Suspend(t) \/ Interrupted(t)
  BY <1>5 DEF Inv, Suspend, Interrupted
<1>6. CASE LoadInThread(t)
  BY <1>1, <1>6 DEF Inv, LoadInThread
<1>7. CASE SetThreadsBit(t)
  BY <1>7 DEF Inv, SetThreadsBit
<1>8. CASE FutexWait(t)
  BY <1>1, <1>8 DEF Inv, FutexWait
<1> QED
  BY <1>2, <1>3, <1>4, <1>5, <1>6, <1>7, <1>8 DEF Call, Continue

LEMMA FulfillerTypes ==
  ASSUME Inv, Fulfill \/ Reset
  PROVE  TypeOK'
<1> USE DEF Inv, TypeOK, State, Locations, Goto
<1>1. CASE StoreValue
  BY <1>1 DEF StoreValue
<1>2. CASE ExchangeState
  BY <1>2 DEF ExchangeState, Fulfilled
<1>3. CASE WakeThreads
  BY <1>3 DEF WakeThreads, Fresh
<1>4. CASE PopWaiter
  BY <1>4 DEF PopWaiter
<1>5. CASE ScheduleWaiter
  BY <1>5 DEF ScheduleWaiter
<1>6. CASE WakeDone
  BY <1>6 DEF WakeDone
<1>7. CASE Reset
  <2>1. round' \in 0 .. MaxRounds - 1
    BY <1>7, PromiseAssumption DEF Reset
  <2>2. m_state' \in State /\ ~m_state'.fulfilled /\ m_storage' \in BOOLEAN /\ pc' \in [All -> Locations]
    BY <1>7 DEF Reset, Fresh
  <2> QED
    BY <1>7, <2>1, <2>2 DEF Reset
<1> QED
  BY <1>1, <1>2, <1>3, <1>4, <1>5, <1>6, <1>7 DEF Fulfill

-----------------------------------------------------------------------------
(* The flags of the word, the locals and the futex. *)

(* A reset finds nobody parked, hence no pointer to anybody. *)
LEMMA ResetFindsNobody ==
  ASSUME Inv, Reset
  PROVE  /\ Parked = {} /\ Parked' = {}
         /\ \A t \in Linked : Pointers(t) = {}
<1>1. Linked \subseteq All
  BY DEF Linked, All, Waiters
<1>2. Parked = {}
  BY DEF Reset, Parked, Linked, Waiters
<1>3. Parked' = {}
  BY <1>1 DEF Reset, Parked
<1> QED
  BY <1>2, <1>3 DEF Inv, EachOnce, Once

LEMMA WaiterLocals ==
  ASSUME Inv, NEW t \in All, Call(t) \/ Continue(t) \/ Interrupted(t)
  PROVE  SleepersKnown' /\ FulfillerKnown' /\ ValueStored' /\ LocalsKnown'
<1> USE DEF Inv, TypeOK, Goto, Saw
<1>1. UNCHANGED <<fulfiller, m_storage>> /\ m_state'.fulfilled = m_state.fulfilled
  BY DEF Call, Continue, LoadState, AlreadyFulfilled, AddWaiter, Suspend, LoadInThread,
         SetThreadsBit, FutexWait, Interrupted, State
<1>2. SleepersKnown'
  <2>1. m_state'.threads = m_state.threads \/ m_state'.threads
    BY DEF Call, Continue, LoadState, AlreadyFulfilled, AddWaiter, Suspend, LoadInThread,
           SetThreadsBit, FutexWait, Interrupted, State
  <2>2. ASSUME FutexWait(t), pc'[t] = "asleep"
        PROVE  m_state.threads /\ ~m_state.fulfilled
    BY <2>2, PromiseAssumption DEF FutexWait, FutexWord, LocalsKnown, State
  <2>3. ASSUME NEW p \in Threads, pc'[p] = "asleep"
        PROVE  pc[p] = "asleep" \/ (FutexWait(t) /\ pc'[t] = "asleep")
    <3>1. p \in All
      BY DEF All, Waiters
    <3>2. p # t => pc'[p] = pc[p]
      BY <3>1 DEF Call, Continue, LoadState, AlreadyFulfilled, AddWaiter, Suspend, LoadInThread,
                  SetThreadsBit, FutexWait, Interrupted
    <3>3. pc'[t] = "asleep" => FutexWait(t)
      BY DEF Call, Continue, LoadState, AlreadyFulfilled, AddWaiter, Suspend, LoadInThread,
             SetThreadsBit, Interrupted
    <3>4. CASE p = t
      BY <2>3, <3>3, <3>4
    <3>5. CASE p # t
      BY <2>3, <3>2, <3>5
    <3> QED
      BY <3>4, <3>5
  <2> QED
    BY <1>1, <2>1, <2>2, <2>3 DEF SleepersKnown, FutexWait
<1>3. FulfillerKnown'
  <2>1. ASSUME fulfiller.pc = "schedule"
        PROVE  link'[fulfiller.target] = link[fulfiller.target]
    <3>1. fulfiller.target \in Parked
      BY <2>1, PointedAtIsParked DEF FulfillerKnown
    <3>2. pc[t] = "add" => t # fulfiller.target
      BY <3>1 DEF Parked
    <3> QED
      BY <2>1, <3>2
         DEF FulfillerKnown, Call, Continue, LoadState, AlreadyFulfilled, AddWaiter, Suspend,
             LoadInThread, SetThreadsBit, FutexWait, Interrupted
  <2> QED
    BY <1>1, <2>1 DEF FulfillerKnown
<1>4. ValueStored'
  BY <1>1 DEF ValueStored
<1>5. LocalsKnown'
  <2> SUFFICES ASSUME NEW p \in All
               PROVE  /\ pc'[p] \in {"or", "futex", "asleep", "reload"} => p \in Threads
                      /\ pc'[p] \in {"add", "suspend", "suspended", "queued"} => p \in Linked
                      /\ pc'[p] = "add" /\ seen'[p].fulfilled => m_state'.fulfilled
                      /\ pc'[p] \in {"or", "futex"} => ~seen'[p].fulfilled
    BY DEF LocalsKnown
  <2>1. CASE p # t
    <3>1. pc'[p] = pc[p] /\ seen'[p] = seen[p]
      BY <2>1 DEF Call, Continue, LoadState, AlreadyFulfilled, AddWaiter, Suspend, LoadInThread,
                  SetThreadsBit, FutexWait, Interrupted
    <3> QED
      BY <1>1, <3>1 DEF LocalsKnown
  <2>2. CASE p = t
    BY <1>1, <2>2
       DEF Call, Continue, LoadState, AlreadyFulfilled, AddWaiter, Suspend, LoadInThread,
           SetThreadsBit, FutexWait, Interrupted, LocalsKnown, Fresh, Linked
  <2> QED
    BY <2>1, <2>2
<1> QED
  BY <1>2, <1>3, <1>4, <1>5

LEMMA FulfillerLocals ==
  ASSUME Inv, Fulfill \/ Reset
  PROVE  SleepersKnown' /\ FulfillerKnown' /\ ValueStored' /\ LocalsKnown'
<1> USE DEF Inv, TypeOK, State, SleepersKnown, FulfillerKnown, ValueStored, LocalsKnown
<1>1. CASE StoreValue
  BY <1>1 DEF StoreValue
<1>2. CASE ExchangeState
  BY <1>2 DEF ExchangeState, Fulfilled
<1>3. CASE WakeThreads
  <2>1. /\ fulfiller.pc = "wake" /\ UNCHANGED <<m_state, m_storage, link, seen>>
        /\ fulfiller'.pc = "walk" /\ fulfiller'.cursor = fulfiller.state.list
        /\ fulfiller'.target = fulfiller.target
        /\ \A p \in All : pc'[p] = pc[p] \/ (pc[p] = "asleep" /\ pc'[p] = "reload")
    BY <1>3 DEF WakeThreads
  <2>2. fulfiller.state.threads => \A p \in All : pc'[p] # "asleep"
    BY <1>3 DEF WakeThreads
  <2>3. SleepersKnown'
    BY <2>1, <2>2 DEF All, Waiters
  <2>4. FulfillerKnown' /\ ValueStored'
    BY <2>1
  <2>5. LocalsKnown'
    BY <2>1
  <2> QED
    BY <2>3, <2>4, <2>5
<1>4. CASE PopWaiter
  BY <1>4 DEF PopWaiter
<1>5. CASE ScheduleWaiter
  BY <1>5 DEF ScheduleWaiter, Goto, Linked, All
<1>6. CASE WakeDone
  BY <1>6 DEF WakeDone
<1>7. CASE Reset
  <2>1. /\ fulfiller.pc # "schedule"
        /\ ~(fulfiller.pc = "wake" /\ fulfiller.state.list # Null)
        /\ fulfiller.cursor = Null
    BY <1>7, ResetFindsNobody, PointedAtIsParked
  <2>2. /\ \A p \in All : pc'[p] = "idle"
        /\ UNCHANGED <<link, seen, fulfiller>>
        /\ m_state.fulfilled /\ ~m_state'.fulfilled
    BY <1>7 DEF Reset, Fresh
  <2>3. SleepersKnown'
    BY <2>2 DEF All, Waiters
  <2>4. FulfillerKnown' /\ ValueStored'
    BY <2>1, <2>2
  <2>5. LocalsKnown'
    BY <2>2
  <2> QED
    BY <2>3, <2>4, <2>5
<1> QED
  BY <1>1, <1>2, <1>3, <1>4, <1>5, <1>6, <1>7 DEF Fulfill

-----------------------------------------------------------------------------
(* The pointers to the waiters. *)

(* What the caller does without entering the list. *)
LEMMA PlainEachOnce ==
  ASSUME Inv, NEW t \in All,
         \/ LoadState(t) \/ AlreadyFulfilled(t) \/ Suspend(t) \/ LoadInThread(t)
         \/ SetThreadsBit(t) \/ FutexWait(t) \/ Interrupted(t)
         \/ AddWaiter(t) /\ m_state # seen[t]
  PROVE  EachOnce'
<1> USE DEF Inv, TypeOK, Goto
<1>1. m_state'.list = m_state.list /\ UNCHANGED fulfiller
  BY DEF LoadState, AlreadyFulfilled, Suspend, LoadInThread, SetThreadsBit, FutexWait, Interrupted,
         AddWaiter, State
<1>2. Parked' = Parked
  <2>1. \A u \in Linked : pc'[u] \in {"suspend", "suspended"} <=> pc[u] \in {"suspend", "suspended"}
    BY DEF LoadState, AlreadyFulfilled, Suspend, LoadInThread, SetThreadsBit, FutexWait, Interrupted,
           AddWaiter, LocalsKnown, All, Linked, Waiters
  <2> QED
    BY <2>1 DEF Parked
<1>3. \A u \in Parked : link'[u] = link[u]
  BY DEF LoadState, AlreadyFulfilled, Suspend, LoadInThread, SetThreadsBit, FutexWait, Interrupted,
         AddWaiter, Parked
<1> QED
  BY <1>1, <1>2, <1>3, NoPointerMoves

(* fulfill() before the exchange and at its end. *)
LEMMA QuietEachOnce ==
  ASSUME Inv, StoreValue \/ WakeDone
  PROVE  EachOnce'
<1> USE DEF Inv, TypeOK
<1>1. UNCHANGED <<m_state, link, pc>>
  BY DEF StoreValue, WakeDone
<1>2. /\ fulfiller'.cursor = fulfiller.cursor /\ fulfiller'.target = fulfiller.target
      /\ fulfiller.pc # "wake" /\ fulfiller'.pc # "wake"
  BY DEF StoreValue, WakeDone
<1>3. Parked' = Parked
  BY <1>1 DEF Parked
<1> QED
  BY <1>1, <1>2, <1>3, NoPointerMoves

(* The compare exchange of add_waiter(): the tasklet becomes the head, and *)
(* what was the head is now led to by its link.                            *)
LEMMA PushEachOnce ==
  ASSUME Inv, NEW t \in All, AddWaiter(t), m_state = seen[t]
  PROVE  EachOnce'
<1> USE DEF Inv, TypeOK
<1>1. /\ t \in Linked /\ pc[t] = "add" /\ pc'[t] \in {"suspend", "suspended"}
      /\ \A u \in All : u # t => pc'[u] = pc[u]
      /\ m_state'.list = t /\ UNCHANGED fulfiller
      /\ link'[t] = m_state.list
      /\ \A u \in Linked : u # t => link'[u] = link[u]
  BY DEF AddWaiter, Goto, State, Linked, All, Waiters
<1>2. t \notin Parked /\ Parked' = Parked \cup {t}
  BY <1>1 DEF Parked, All, Linked, Waiters
<1> SUFFICES ASSUME NEW x \in Linked PROVE Once(x)'
  BY DEF EachOnce
<1>3. x # Null
  BY PromiseAssumption DEF Linked
<1>4. CASE x = t
  <2>1. /\ m_state.list # t /\ fulfiller.cursor # t /\ fulfiller.target # t
        /\ ~(fulfiller.pc = "wake" /\ fulfiller.state.list = t)
        /\ \A u \in Parked : link[u] # t
    BY <1>1, <1>2, PointedAtIsParked
  <2>2. \A u \in Parked' : link'[u] # t
    BY <1>1, <1>2, <2>1 DEF Parked
  <2>3. \A p : p \in Pointers(t)' <=> p = <<"head", t>>
    BY <1>1, <2>1, <2>2, PointerKindsNext
  <2>4. Pointers(t)' = {<<"head", t>>}
    BY <2>3
  <2> QED
    BY <1>2, <1>4, <2>4 DEF Once
<1>5. CASE x # t /\ x = m_state.list
  <2>1. <<"head", x>> \in Pointers(x) /\ x \in Parked'
    BY <1>2, <1>5, PointerKinds, PointedAtIsParked
  <2>2. \A p : p \in Pointers(x)' <=> p = <<"link", t>> \/ (p \in Pointers(x) /\ p # <<"head", x>>)
    BY <1>1, <1>2, <1>5, PointerKinds, PointerKindsNext DEF Parked
  <2> QED
    BY <2>1, <2>2, OnceMoves DEF EachOnce
<1>6. CASE x # t /\ x # m_state.list
  <2>1. \A p : p \in Pointers(x)' <=> p \in Pointers(x)
    BY <1>1, <1>2, <1>6, PointerKinds, PointerKindsNext DEF Parked
  <2> QED
    BY <1>2, <1>6, <2>1, OnceStays DEF EachOnce
<1> QED
  BY <1>4, <1>5, <1>6

(* wake_all() takes the list over, then walks to its head. *)
LEMMA TakeEachOnce ==
  ASSUME Inv, ExchangeState \/ WakeThreads
  PROVE  EachOnce'
<1> USE DEF Inv, TypeOK
<1>1. Parked' = Parked /\ UNCHANGED link
  BY DEF ExchangeState, WakeThreads, Parked, All, Linked, Waiters
<1> SUFFICES ASSUME NEW x \in Linked PROVE Once(x)'
  BY DEF EachOnce
<1>2. x # Null
  BY PromiseAssumption DEF Linked
<1>3. CASE ExchangeState
  <2>1. /\ fulfiller.pc = "exchange" /\ fulfiller'.pc = "wake" /\ fulfiller'.state = m_state
        /\ fulfiller'.cursor = fulfiller.cursor /\ fulfiller'.target = fulfiller.target
        /\ m_state'.list = Null
    BY <1>3 DEF ExchangeState, Fulfilled
  <2>2. CASE x = m_state.list
    <3>1. <<"head", x>> \in Pointers(x) /\ x \in Parked'
      BY <1>1, <2>2, PointerKinds, PointedAtIsParked
    <3>2. \A p : p \in Pointers(x)' <=> p = <<"taken", x>> \/ (p \in Pointers(x) /\ p # <<"head", x>>)
      BY <1>1, <1>2, <2>1, <2>2, PointerKinds, PointerKindsNext
    <3> QED
      BY <3>1, <3>2, OnceMoves DEF EachOnce
  <2>3. CASE x # m_state.list
    <3>1. \A p : p \in Pointers(x)' <=> p \in Pointers(x)
      BY <1>1, <1>2, <2>1, <2>3, PointerKinds, PointerKindsNext
    <3> QED
      BY <1>1, <3>1, OnceStays DEF EachOnce
  <2> QED
    BY <2>2, <2>3
<1>4. CASE WakeThreads
  <2>1. /\ fulfiller.pc = "wake" /\ fulfiller'.pc = "walk" /\ fulfiller'.cursor = fulfiller.state.list
        /\ fulfiller.cursor = Null /\ fulfiller'.target = fulfiller.target /\ UNCHANGED m_state
    BY <1>4 DEF WakeThreads, FulfillerKnown
  <2>2. CASE x = fulfiller.state.list
    <3>1. <<"taken", x>> \in Pointers(x) /\ x \in Parked'
      BY <1>1, <2>1, <2>2, PointerKinds, PointedAtIsParked
    <3>2. \A p : p \in Pointers(x)' <=> p = <<"cursor", x>> \/ (p \in Pointers(x) /\ p # <<"taken", x>>)
      BY <1>1, <1>2, <2>1, <2>2, PointerKinds, PointerKindsNext
    <3> QED
      BY <3>1, <3>2, OnceMoves DEF EachOnce
  <2>3. CASE x # fulfiller.state.list
    <3>1. \A p : p \in Pointers(x)' <=> p \in Pointers(x)
      BY <1>1, <1>2, <2>1, <2>3, PointerKinds, PointerKindsNext
    <3> QED
      BY <1>1, <3>1, OnceStays DEF EachOnce
  <2> QED
    BY <2>2, <2>3
<1> QED
  BY <1>3, <1>4

(* The waiter at the cursor becomes the one to schedule, and its link the  *)
(* cursor.                                                                 *)
LEMMA PopEachOnce ==
  ASSUME Inv, PopWaiter
  PROVE  EachOnce'
<1> USE DEF Inv, TypeOK
<1> DEFINE c == fulfiller.cursor
           n == link[c]
<1>1. /\ c \in Linked /\ fulfiller.pc = "walk" /\ fulfiller.target = Null
      /\ fulfiller'.target = c /\ fulfiller'.cursor = n /\ fulfiller'.pc = "schedule"
      /\ UNCHANGED <<m_state, pc>>
      /\ link'[c] = Null /\ \A u \in Linked : u # c => link'[u] = link[u]
  BY DEF PopWaiter, FulfillerKnown
<1>2. Parked' = Parked /\ c \in Parked
  BY <1>1, PointedAtIsParked DEF Parked
<1>3. <<"cursor", c>> \in Pointers(c)
  BY <1>1, PointerKinds
<1>4. n # c
  <2>1. SUFFICES ASSUME n = c PROVE FALSE
    OBVIOUS
  <2>2. <<"link", c>> \in Pointers(c)
    BY <1>1, <1>2, <2>1, PointerKinds
  <2> QED
    BY <1>1, <1>2, <1>3, <2>2 DEF EachOnce, Once
<1> SUFFICES ASSUME NEW x \in Linked PROVE Once(x)'
  BY DEF EachOnce
<1>5. x # Null
  BY PromiseAssumption DEF Linked
<1> HIDE DEF c, n
<1>6. CASE x = c
  <2>1. \A p : p \in Pointers(x)' <=> p = <<"target", x>> \/ (p \in Pointers(x) /\ p # <<"cursor", x>>)
    BY <1>1, <1>2, <1>4, <1>5, <1>6, PointerKinds, PointerKindsNext DEF Parked, c, n
  <2> QED
    BY <1>2, <1>3, <1>6, <2>1, OnceMoves DEF EachOnce
<1>7. CASE x = n
  <2>1. <<"link", c>> \in Pointers(x) /\ x \in Parked'
    BY <1>2, <1>7, PointerKinds, PointedAtIsParked DEF n
  <2>2. \A p : p \in Pointers(x)' <=> p = <<"cursor", x>> \/ (p \in Pointers(x) /\ p # <<"link", c>>)
    BY <1>1, <1>2, <1>4, <1>5, <1>7, PointerKinds, PointerKindsNext DEF Parked, c, n
  <2> QED
    BY <2>1, <2>2, OnceMoves DEF EachOnce
<1>8. CASE x # c /\ x # n
  <2>1. \A p : p \in Pointers(x)' <=> p \in Pointers(x)
    BY <1>1, <1>2, <1>5, <1>8, PointerKinds, PointerKindsNext DEF Parked, c, n
  <2> QED
    BY <1>2, <2>1, OnceStays DEF EachOnce
<1> QED
  BY <1>6, <1>7, <1>8

(* The waiter goes on, and its only pointer is gone. *)
LEMMA ScheduleEachOnce ==
  ASSUME Inv, ScheduleWaiter
  PROVE  EachOnce'
<1> USE DEF Inv, TypeOK
<1> DEFINE s == fulfiller.target
<1>1. /\ s \in Linked /\ link[s] = Null /\ UNCHANGED <<m_state, link>>
      /\ fulfiller'.target = Null /\ fulfiller'.cursor = fulfiller.cursor
      /\ fulfiller.pc = "schedule" /\ fulfiller'.pc = "walk"
      /\ pc[s] = "suspended" /\ pc'[s] \in {"idle", "queued"}
      /\ \A u \in All : u # s => pc'[u] = pc[u]
  BY DEF ScheduleWaiter, FulfillerKnown, Goto, Linked, All, Waiters
<1>2. s \in Parked /\ Parked' = Parked \ {s}
  BY <1>1 DEF Parked, Linked, All, Waiters
<1> SUFFICES ASSUME NEW x \in Linked PROVE Once(x)'
  BY DEF EachOnce
<1>3. x # Null
  BY PromiseAssumption DEF Linked
<1> HIDE DEF s
<1>4. CASE x = s
  <2>1. <<"target", x>> \in Pointers(x)
    BY <1>4, PointerKinds DEF s
  <2>2. \A p : p \in Pointers(x) => p = <<"target", x>>
    BY <1>2, <1>4, <2>1 DEF EachOnce, Once
  <2>3. m_state.list # x /\ fulfiller.cursor # x /\ \A u \in Parked : link[u] # x
    BY <1>1, <2>2, PointerKinds
  <2>4. \A p : p \notin Pointers(x)'
    BY <1>1, <1>2, <1>3, <1>4, <2>3, PointerKindsNext
  <2>5. Pointers(x)' = {}
    BY <2>4
  <2> QED
    BY <1>2, <1>4, <2>5 DEF Once
<1>5. CASE x # s
  <2>1. \A p : p \in Pointers(x)' <=> p \in Pointers(x)
    BY <1>1, <1>2, <1>3, <1>5, PointerKinds, PointerKindsNext DEF s
  <2> QED
    BY <1>2, <1>5, <2>1, OnceStays DEF EachOnce
<1> QED
  BY <1>4, <1>5

LEMMA ResetEachOnce ==
  ASSUME Inv, Reset
  PROVE  EachOnce'
<1> USE DEF Inv, TypeOK
<1>1. Parked = {} /\ Parked' = {} /\ \A t \in Linked : \A p : p \notin Pointers(t)
  BY ResetFindsNobody
<1>2. m_state'.list = Null /\ UNCHANGED <<link, fulfiller>>
  BY DEF Reset, Fresh
<1>3. \A t \in Linked : \A p : p \notin Pointers(t)'
  BY <1>1, <1>2, PointerKinds, PointerKindsNext, PromiseAssumption DEF Linked
<1> QED
  BY <1>1, <1>3 DEF EachOnce, Once

-----------------------------------------------------------------------------

LEMMA StepInv == Inv /\ [Next]_vars => Inv'
<1> SUFFICES ASSUME Inv, [Next]_vars PROVE Inv'
  OBVIOUS
<1>1. CASE UNCHANGED vars
  <2>1. Parked' = Parked
    BY <1>1 DEF vars, Parked
  <2>2. EachOnce'
    BY <1>1, <2>1, NoPointerMoves DEF vars, Inv
  <2> QED
    BY <1>1, <2>2 DEF vars, Inv, TypeOK, SleepersKnown, FulfillerKnown, ValueStored, LocalsKnown
<1>2. ASSUME NEW t \in All, Call(t) \/ Continue(t) \/ Interrupted(t)
      PROVE  Inv'
  <2>1. EachOnce'
    BY <1>2, PlainEachOnce, PushEachOnce DEF Call, Continue
  <2> QED
    BY <1>2, <2>1, WaiterTypes, WaiterLocals DEF Inv
<1>3. CASE Fulfill \/ Reset
  <2>1. EachOnce'
    <3>1. CASE StoreValue \/ WakeDone
      BY <3>1, QuietEachOnce
    <3> QED
      BY <1>3, <3>1, TakeEachOnce, PopEachOnce, ScheduleEachOnce, ResetEachOnce DEF Fulfill
  <2> QED
    BY <1>3, <2>1, FulfillerTypes, FulfillerLocals DEF Inv
<1> QED
  BY <1>1, <1>2, <1>3 DEF Next

LEMMA PromiseInv == Spec => []Inv
BY InitInv, StepInv, PTL DEF Spec

(* Every tasklet and continuation that waits is within reach of exactly    *)
(* one wake-up, and no thread sleeps on the futex unknown to the word and  *)
(* to wake_all(), for any number of them.                                 *)
THEOREM PromiseWaiters == Spec => []WaitersSound
<1>1. Inv => WaitersSound
  BY OnceMeansOne DEF Inv, WaitersSound
<1> QED
  BY <1>1, PromiseInv, PTL

(* wait() returns and a continuation is scheduled only once the promise is *)
(* fulfilled and its value stored, however the rounds follow each other.   *)
THEOREM PromiseReturnsOnlyFulfilled == Spec => ReturnsOnlyFulfilled
<1> DEFINE Returned(p) == \/ pc[p] # "idle" /\ pc'[p] = "idle" /\ round' = round
                          \/ pc[p] # "queued" /\ pc'[p] = "queued"
<1>1. ASSUME Inv, Next, NEW p \in All, Returned(p)
      PROVE  m_state.fulfilled /\ m_storage
  <2> USE DEF Inv, TypeOK, Goto
  <2>1. CASE ScheduleWaiter
    BY <1>1, <2>1 DEF ScheduleWaiter, ValueStored
  <2>2. ASSUME NEW t \in All, Call(t) \/ Continue(t) \/ Interrupted(t)
        PROVE  m_state.fulfilled /\ m_storage
    <3>1. p = t
      BY <1>1, <2>2 DEF Call, Continue, LoadState, AlreadyFulfilled, AddWaiter, Suspend,
                        LoadInThread, SetThreadsBit, FutexWait, Interrupted
    <3>2. AlreadyFulfilled(p) \/ (LoadInThread(p) /\ m_state.fulfilled)
      BY <1>1, <2>2, <3>1 DEF Call, Continue, LoadState, AddWaiter, Suspend, LoadInThread,
                              SetThreadsBit, FutexWait, Interrupted
    <3> QED
      BY <1>1, <3>2 DEF AlreadyFulfilled, LocalsKnown, ValueStored
  <2>3. CASE StoreValue \/ ExchangeState \/ WakeThreads \/ PopWaiter \/ WakeDone
    BY <1>1, <2>3 DEF StoreValue, ExchangeState, WakeThreads, PopWaiter, WakeDone
  <2>4. CASE Reset
    BY <1>1, <2>4 DEF Reset
  <2> QED
    BY <1>1, <2>1, <2>2, <2>3, <2>4 DEF Next, Fulfill
<1>2. Inv /\ [Next]_vars =>
        [\A p \in All :
           (pc[p] # "idle" /\ pc'[p] = "idle" /\ round' = round) \/ (pc[p] # "queued" /\ pc'[p] = "queued")
             => m_state.fulfilled /\ m_storage]_vars
  BY <1>1
<1> QED
  BY <1>2, PromiseInv, PTL DEF Spec, ReturnsOnlyFulfilled
-----------------------------------------------------------------------------
(* What the variables hold; a result is that of a load, or of none. *)
MeshResults == [index_count : Nat, vertex_offset : Nat, index_offset : Nat]
Results == {NotLoaded, Fallback, NoMesh} \cup [index : Nat] \cup MeshResults
Pieces == Assets \X Nat
Jobs == [cmd : CmdBufs, user : Assets, reads : SUBSET Pieces]
Steps == {"none", "scheduled", "recording", "submitted", "vertices", "placed", "awaiting", "done"}
LoadStates == [at : Steps, cmd : Nat, mips : Nat, result : Results]

QueueTyped ==
  /\ m_buffers \in Seq(CmdBufs)
  /\ place \in [CmdBufs -> Places]
  /\ user \in [CmdBufs -> Assets \cup {Nobody}]
  /\ associated \in [CmdBufs -> SUBSET Pieces]
  /\ m_queue_index \in HwQueues
  /\ work \in [HwQueues -> Seq(Jobs)]

StreamersTyped ==
  /\ load \in [Assets -> LoadStates]
  /\ m_futures \subseteq Assets /\ m_loaded \in [Assets -> Results]
  /\ m_images \in Seq(Textures \cup {Default})
  /\ buffer_size \in Nat /\ m_vertex_buffer_head \in Nat /\ m_index_buffer_head \in Nat

(* The buffers that may be handed out are listed once; those that execute  *)
(* are in one queue, once, as they were submitted.                         *)
BuffersListed ==
  /\ IsInjective(m_buffers) /\ ToSet(m_buffers) = {c \in CmdBufs : place[c] = "available"}
  /\ \A q \in HwQueues : \A i \in DOMAIN work[q] :
       /\ place[work[q][i].cmd] = "executing"
       /\ work[q][i].user = user[work[q][i].cmd] /\ work[q][i].reads = associated[work[q][i].cmd]
  /\ \A c \in CmdBufs : place[c] = "executing" => \E q \in HwQueues : \E i \in DOMAIN work[q] : work[q][i].cmd = c
  /\ \A q, r \in HwQueues : \A i \in DOMAIN work[q], j \in DOMAIN work[r] :
       work[q][i].cmd = work[r][j].cmd => q = r /\ i = j

(* What is bound to a buffer that is being recorded. *)
Bound(a) == IF a \in Textures THEN {<<a, m>> : m \in 0 .. load[a].mips - 1} ELSE {<<a, 0>>}

(* A buffer and the load that records it know of each other; once          *)
(* submitted it has all that the load binds.                               *)
UploadsKnown ==
  /\ \A c \in CmdBufs :
       /\ place[c] \in {"none", "available"} <=> user[c] = Nobody
       /\ user[c] = Nobody => associated[c] = {}
       /\ place[c] = "recording" =>
            load[user[c]].at = "recording" /\ load[user[c]].cmd = c /\ associated[c] = Bound(user[c])
       /\ place[c] \in {"executing", "signalled"} =>
            load[user[c]].at \in {"submitted", "awaiting", "done"} /\ associated[c] = StagingOf(user[c])
  /\ \A c, d \in CmdBufs : user[c] = user[d] /\ user[c] # Nobody => c = d
  /\ \A a \in Assets : load[a].at = "recording" =>
       load[a].cmd \in CmdBufs /\ user[load[a].cmd] = a /\ place[load[a].cmd] = "recording"
  /\ staging = UNION {associated[c] : c \in CmdBufs}

(* An asset that is loading has a future in the map, and one that was      *)
(* loaded keeps its result.                                                *)
LoadsKnown ==
  /\ \A a \in Assets :
       /\ load[a].at \in {"vertices", "placed", "awaiting"} => a \in Meshes
       /\ load[a].at = "submitted" => a \in Textures
       /\ load[a].mips <= MipCount
       /\ load[a].at \in {"none", "scheduled"} => load[a].mips = 0
       /\ a \in m_futures => load[a].at # "none"
       /\ load[a].at \notin {"none", "done"} => a \in m_futures
       /\ load[a].at = "done" /\ a \notin m_futures => m_loaded[a] # NotLoaded
       /\ m_loaded[a] # NotLoaded => load[a].at = "done" /\ m_loaded[a] = load[a].result
  /\ NoLoadOutlivesStreamer

(* A texture has an image of its own; a mesh has been copied. *)
ResultsKnown ==
  /\ LayoutExists => descriptors = m_images
  /\ Len(m_images) >= 2
  /\ \A a \in Textures : load[a].at = "done" =>
       \/ load[a].result = Fallback
       \/ /\ load[a].result \in [index : 2 .. Len(m_images) - 1]
          /\ m_images[load[a].result.index + 1] = a
  /\ \A a \in Meshes :
       /\ load[a].at = "done" => load[a].result = NoMesh \/ (load[a].result \in MeshResults /\ a \in gpu)
       /\ load[a].at = "awaiting" /\ a \notin gpu => \E c \in CmdBufs : user[c] = a /\ place[c] = "executing"

HasPlaces(a) ==
  load[a].at \in {"placed", "recording", "awaiting"} \/ (load[a].at = "done" /\ load[a].result # NoMesh)
HasVertices(a) == load[a].at = "vertices" \/ HasPlaces(a)

(* The places in the two buffers that were taken are below the heads, and  *)
(* inside the buffers where that has been ensured.                         *)
PlacesTaken ==
  /\ \A a \in Meshes : HasVertices(a) =>
       /\ load[a].result \in MeshResults
       /\ load[a].result.vertex_offset + VertexBytes <= m_vertex_buffer_head
  /\ \A a \in Meshes : HasPlaces(a) => load[a].result.index_offset + IndexBytes <= m_index_buffer_head
  /\ \A a \in Meshes : HasPlaces(a) =>
       /\ load[a].result.vertex_offset + VertexBytes < buffer_size
       /\ load[a].result.index_offset + IndexBytes < buffer_size
  /\ \A a, b \in Meshes : a # b /\ HasVertices(a) /\ HasVertices(b) =>
       \/ load[a].result.vertex_offset + VertexBytes <= load[b].result.vertex_offset
       \/ load[b].result.vertex_offset + VertexBytes <= load[a].result.vertex_offset
  /\ \A a, b \in Meshes : a # b /\ HasPlaces(a) /\ HasPlaces(b) =>
       \/ load[a].result.index_offset + IndexBytes <= load[b].result.index_offset
       \/ load[b].result.index_offset + IndexBytes <= load[a].result.index_offset

QueueInv == QueueTyped /\ BuffersListed /\ UploadsKnown
StreamingInv == QueueInv /\ StreamersTyped /\ LoadsKnown /\ ResultsKnown /\ PlacesTaken

-----------------------------------------------------------------------------
(* Sequences. *)

LEMMA Pushed ==
  ASSUME NEW S, NEW s \in Seq(S), NEW x \in S
  PROVE  /\ Append(s, x) \in Seq(S) /\ Len(Append(s, x)) = Len(s) + 1 /\ Len(s) \in Nat
         /\ DOMAIN s = 1 .. Len(s) /\ DOMAIN Append(s, x) = 1 .. Len(s) + 1
         /\ \A i \in 1 .. Len(s) : Append(s, x)[i] = s[i]
         /\ Append(s, x)[Len(s) + 1] = x
OBVIOUS

LEMMA PushedDistinct ==
  ASSUME NEW S, NEW s \in Seq(S), NEW x \in S, IsInjective(s), x \notin ToSet(s)
  PROVE  IsInjective(Append(s, x)) /\ ToSet(Append(s, x)) = ToSet(s) \cup {x}
<1>1. /\ Append(s, x) \in Seq(S) /\ Len(Append(s, x)) = Len(s) + 1 /\ Len(s) \in Nat
      /\ DOMAIN s = 1 .. Len(s) /\ DOMAIN Append(s, x) = 1 .. Len(s) + 1
      /\ \A i \in 1 .. Len(s) : Append(s, x)[i] = s[i]
      /\ Append(s, x)[Len(s) + 1] = x
  BY Pushed
<1>2. \A i \in 1 .. Len(s) + 1 : i \in 1 .. Len(s) \/ i = Len(s) + 1
  BY <1>1
<1>3. IsInjective(Append(s, x))
  BY <1>1, <1>2 DEF IsInjective, ToSet
<1>4. ToSet(Append(s, x)) = ToSet(s) \cup {x}
  BY <1>1, <1>2 DEF ToSet
<1> QED
  BY <1>3, <1>4

LEMMA Popped ==
  ASSUME NEW S, NEW s \in Seq(S), s # <<>>, IsInjective(s)
  PROVE  /\ Front(s) \in Seq(S) /\ IsInjective(Front(s))
         /\ ToSet(Front(s)) = ToSet(s) \ {Last(s)} /\ Last(s) \in ToSet(s)
<1>1. Len(s) \in Nat /\ Len(s) > 0 /\ DOMAIN s = 1 .. Len(s)
  OBVIOUS
<1>2. /\ Front(s) \in Seq(S) /\ Len(Front(s)) = Len(s) - 1
      /\ \A i \in 1 .. Len(s) - 1 : Front(s)[i] = s[i]
  BY <1>1 DEF Front
<1>3. DOMAIN Front(s) = 1 .. Len(s) - 1
  BY <1>2
<1>4. IsInjective(Front(s))
  BY <1>1, <1>2, <1>3 DEF IsInjective
<1>5. Last(s) \in ToSet(s) /\ Last(s) = s[Len(s)]
  BY <1>1 DEF Last, ToSet
<1>6. ToSet(Front(s)) = ToSet(s) \ {Last(s)}
  <2>1. \A i \in 1 .. Len(s) : i \in 1 .. Len(s) - 1 \/ i = Len(s)
    <3>1. \A n \in Nat : \A i \in 1 .. n : i \in 1 .. n - 1 \/ i = n
      OBVIOUS
    <3> QED
      BY <1>1, <3>1
  <2>2. \A i \in 1 .. Len(s) - 1 : i \in 1 .. Len(s) /\ s[i] # s[Len(s)]
    BY <1>1 DEF IsInjective
  <2> QED
    BY <1>1, <1>2, <1>3, <1>5, <2>1, <2>2 DEF ToSet
<1> QED
  BY <1>2, <1>4, <1>5, <1>6

LEMMA Shifted ==
  ASSUME NEW S, NEW s \in Seq(S), s # <<>>
  PROVE  /\ Tail(s) \in Seq(S) /\ Len(s) \in Nat /\ Len(s) > 0 /\ Head(s) = s[1]
         /\ DOMAIN s = 1 .. Len(s) /\ DOMAIN Tail(s) = 1 .. Len(s) - 1
         /\ \A i \in 1 .. Len(s) - 1 : Tail(s)[i] = s[i + 1]
OBVIOUS

-----------------------------------------------------------------------------
(* The operations of the queue: what becomes of one buffer, that the       *)
(* others stay as they are, and that the lists remain in order.            *)

OthersKept(c) ==
  \A d \in CmdBufs : d # c => place'[d] = place[d] /\ user'[d] = user[d] /\ associated'[d] = associated[d]

(* Who is not known to record a buffer has nothing bound to it. *)
Unused == \A c \in CmdBufs : place[c] \in {"none", "available"} => user[c] = Nobody /\ associated[c] = {}

LEMMA QueueFacts ==
  ASSUME QueueTyped
  PROVE  /\ m_buffers \in Seq(CmdBufs) /\ place \in [CmdBufs -> Places]
         /\ user \in [CmdBufs -> Assets \cup {Nobody}] /\ associated \in [CmdBufs -> SUBSET Pieces]
         /\ m_queue_index \in HwQueues /\ work \in [HwQueues -> Seq(Jobs)]
BY DEF QueueTyped

(* A buffer that does not execute is in no queue. *)
LEMMA NotQueued ==
  ASSUME BuffersListed, NEW c \in CmdBufs, place[c] # "executing"
  PROVE  \A q \in HwQueues : \A i \in DOMAIN work[q] : work[q][i].cmd # c
BY DEF BuffersListed

LEMMA RequestKeeps ==
  ASSUME QueueTyped, BuffersListed, Unused, NEW c \in CmdBufs, NEW u \in Assets,
         NEW bound \in SUBSET Pieces, RequestCmdBuf(c, u, bound)
  PROVE  /\ QueueTyped' /\ BuffersListed' /\ OthersKept(c) /\ staging' = staging \cup bound
         /\ place[c] \in {"none", "available"} /\ place'[c] = "recording"
         /\ user'[c] = u /\ associated'[c] = bound
<1>1. /\ place[c] \in {"none", "available"} /\ place' = [place EXCEPT ![c] = "recording"]
      /\ user' = [user EXCEPT ![c] = u] /\ associated' = [associated EXCEPT ![c] = @ \cup bound]
      /\ staging' = staging \cup bound /\ UNCHANGED <<m_queue_index, work>>
  BY DEF RequestCmdBuf, Move
<1>2. /\ place'[c] = "recording" /\ user'[c] = u /\ associated'[c] = bound /\ OthersKept(c)
      /\ place' \in [CmdBufs -> Places] /\ user' \in [CmdBufs -> Assets \cup {Nobody}]
      /\ associated' \in [CmdBufs -> SUBSET Pieces]
  BY <1>1, QueueFacts DEF Places, OthersKept, Unused
<1>3. /\ m_buffers' \in Seq(CmdBufs) /\ IsInjective(m_buffers')
      /\ ToSet(m_buffers') = {d \in CmdBufs : place'[d] = "available"}
  <2>1. /\ m_buffers \in Seq(CmdBufs) /\ IsInjective(m_buffers)
        /\ ToSet(m_buffers) = {d \in CmdBufs : place[d] = "available"}
    BY DEF QueueTyped, BuffersListed
  <2>2. CASE m_buffers # <<>>
    <3>1. c = Last(m_buffers) /\ m_buffers' = Front(m_buffers)
      BY <2>2 DEF RequestCmdBuf
    <3>2. /\ Front(m_buffers) \in Seq(CmdBufs) /\ IsInjective(Front(m_buffers))
          /\ ToSet(Front(m_buffers)) = ToSet(m_buffers) \ {c}
      BY <2>1, <2>2, <3>1, Popped
    <3> QED
      BY <1>2, <2>1, <3>1, <3>2 DEF OthersKept
  <2>3. CASE m_buffers = <<>>
    <3>1. m_buffers' = m_buffers /\ place[c] = "none"
      BY <2>3 DEF RequestCmdBuf, Move
    <3> QED
      BY <1>2, <2>1, <3>1 DEF OthersKept
  <2> QED
    BY <2>2, <2>3
<1>4. QueueTyped'
  BY <1>1, <1>2, <1>3 DEF QueueTyped
<1>5. BuffersListed'
  <2>1. \A q \in HwQueues : \A i \in DOMAIN work[q] : work[q][i].cmd # c /\ work[q][i].cmd \in CmdBufs
    <3>1. \A q \in HwQueues : \A i \in DOMAIN work[q] : work[q][i] \in Jobs
      BY QueueFacts
    <3> QED
      BY <1>1, <3>1, NotQueued DEF Jobs
  <2> QED
    BY <1>1, <1>2, <1>3, <2>1 DEF BuffersListed, OthersKept
<1> QED
  BY <1>1, <1>2, <1>4, <1>5

LEMMA BindKeeps ==
  ASSUME QueueTyped, BuffersListed, NEW c \in CmdBufs, NEW s \in Pieces, place[c] = "recording",
         BindAssociatedBuffer(c, s)
  PROVE  /\ QueueTyped' /\ BuffersListed' /\ OthersKept(c) /\ staging' = staging \cup {s}
         /\ place'[c] = "recording" /\ user'[c] = user[c] /\ associated'[c] = associated[c] \cup {s}
<1>1. /\ associated' = [associated EXCEPT ![c] = @ \cup {s}] /\ staging' = staging \cup {s}
      /\ UNCHANGED <<m_buffers, place, user, m_queue_index, work>>
  BY DEF BindAssociatedBuffer
<1>2. /\ place'[c] = "recording" /\ user'[c] = user[c] /\ associated'[c] = associated[c] \cup {s}
      /\ OthersKept(c) /\ associated' \in [CmdBufs -> SUBSET Pieces]
  BY <1>1, QueueFacts DEF OthersKept
<1>3. QueueTyped'
  BY <1>1, <1>2 DEF QueueTyped
<1>4. BuffersListed'
  <2>1. \A q \in HwQueues : \A i \in DOMAIN work[q] : work[q][i].cmd # c /\ work[q][i].cmd \in CmdBufs
    <3>1. \A q \in HwQueues : \A i \in DOMAIN work[q] : work[q][i] \in Jobs
      BY QueueFacts
    <3> QED
      BY <1>1, <1>2, <3>1, NotQueued DEF Jobs
  <2> QED
    BY <1>1, <1>2, <2>1 DEF BuffersListed, OthersKept
<1> QED
  BY <1>1, <1>2, <1>3, <1>4

(* A buffer that is given up, or handed back, is nobody's. *)
LEMMA DestroyKeeps ==
  ASSUME QueueTyped, BuffersListed, NEW c \in CmdBufs, DestroyCmdBuf(c)
  PROVE  /\ QueueTyped' /\ BuffersListed' /\ OthersKept(c) /\ staging' = staging \ associated[c]
         /\ place[c] = "recording" /\ place'[c] = "none" /\ user'[c] = Nobody /\ associated'[c] = {}
<1>1. /\ place[c] = "recording" /\ place' = [place EXCEPT ![c] = "none"]
      /\ user' = [user EXCEPT ![c] = Nobody] /\ associated' = [associated EXCEPT ![c] = {}]
      /\ staging' = staging \ associated[c] /\ UNCHANGED <<m_buffers, m_queue_index, work>>
  BY DEF DestroyCmdBuf, Move
<1>2. /\ place'[c] = "none" /\ user'[c] = Nobody /\ associated'[c] = {} /\ OthersKept(c)
      /\ place' \in [CmdBufs -> Places] /\ user' \in [CmdBufs -> Assets \cup {Nobody}]
      /\ associated' \in [CmdBufs -> SUBSET Pieces]
  BY <1>1, QueueFacts DEF Places, OthersKept
<1>3. QueueTyped'
  BY <1>1, <1>2 DEF QueueTyped
<1>4. BuffersListed'
  <2>1. \A q \in HwQueues : \A i \in DOMAIN work[q] : work[q][i].cmd # c /\ work[q][i].cmd \in CmdBufs
    <3>1. \A q \in HwQueues : \A i \in DOMAIN work[q] : work[q][i] \in Jobs
      BY QueueFacts
    <3> QED
      BY <1>1, <3>1, NotQueued DEF Jobs
  <2> QED
    BY <1>1, <1>2, <2>1 DEF BuffersListed, OthersKept
<1> QED
  BY <1>1, <1>2, <1>3, <1>4

LEMMA RecycleKeeps ==
  ASSUME QueueTyped, BuffersListed, NEW c \in CmdBufs, Recycle(c)
  PROVE  /\ QueueTyped' /\ BuffersListed' /\ OthersKept(c) /\ staging' = staging \ associated[c]
         /\ place[c] = "signalled" /\ place'[c] = "available" /\ user'[c] = Nobody /\ associated'[c] = {}
<1>1. /\ place[c] = "signalled" /\ place' = [place EXCEPT ![c] = "available"]
      /\ user' = [user EXCEPT ![c] = Nobody] /\ associated' = [associated EXCEPT ![c] = {}]
      /\ staging' = staging \ associated[c] /\ m_buffers' = Append(m_buffers, c)
      /\ UNCHANGED <<m_queue_index, work>>
  BY DEF Recycle, Move
<1>2. /\ place'[c] = "available" /\ user'[c] = Nobody /\ associated'[c] = {} /\ OthersKept(c)
      /\ place' \in [CmdBufs -> Places] /\ user' \in [CmdBufs -> Assets \cup {Nobody}]
      /\ associated' \in [CmdBufs -> SUBSET Pieces]
  BY <1>1, QueueFacts DEF Places, OthersKept
<1>3. /\ m_buffers' \in Seq(CmdBufs) /\ IsInjective(m_buffers')
      /\ ToSet(m_buffers') = {d \in CmdBufs : place'[d] = "available"}
  <2>1. /\ m_buffers \in Seq(CmdBufs) /\ IsInjective(m_buffers)
        /\ ToSet(m_buffers) = {d \in CmdBufs : place[d] = "available"} /\ c \notin ToSet(m_buffers)
    BY <1>1 DEF QueueTyped, BuffersListed
  <2>2. IsInjective(m_buffers') /\ ToSet(m_buffers') = ToSet(m_buffers) \cup {c} /\ m_buffers' \in Seq(CmdBufs)
    BY <1>1, <2>1, PushedDistinct, Pushed
  <2> QED
    BY <1>2, <2>1, <2>2 DEF OthersKept
<1>4. QueueTyped'
  BY <1>1, <1>2, <1>3 DEF QueueTyped
<1>5. BuffersListed'
  <2>1. \A q \in HwQueues : \A i \in DOMAIN work[q] : work[q][i].cmd # c /\ work[q][i].cmd \in CmdBufs
    <3>1. \A q \in HwQueues : \A i \in DOMAIN work[q] : work[q][i] \in Jobs
      BY QueueFacts
    <3> QED
      BY <1>1, <3>1, NotQueued DEF Jobs
  <2> QED
    BY <1>1, <1>2, <1>3, <2>1 DEF BuffersListed, OthersKept
<1> QED
  BY <1>1, <1>2, <1>4, <1>5

LEMMA SubmitKeeps ==
  ASSUME QueueTyped, BuffersListed, NEW c \in CmdBufs, user[c] # Nobody, SubmitCmdBuf(c)
  PROVE  /\ QueueTyped' /\ BuffersListed' /\ OthersKept(c) /\ staging' = staging
         /\ place[c] = "recording" /\ place'[c] = "executing"
         /\ user'[c] = user[c] /\ associated'[c] = associated[c]
<1> DEFINE job == [cmd |-> c, user |-> user[c], reads |-> associated[c]]
           k == m_queue_index
<1>1. /\ place[c] = "recording" /\ place' = [place EXCEPT ![c] = "executing"]
      /\ m_queue_index' = (k + 1) % Cardinality(HwQueues)
      /\ work' = [work EXCEPT ![k] = Append(@, job)]
      /\ UNCHANGED <<m_buffers, user, associated, staging>>
  BY DEF SubmitCmdBuf, Move
<1>2. /\ place'[c] = "executing" /\ user'[c] = user[c] /\ associated'[c] = associated[c]
      /\ OthersKept(c) /\ place' \in [CmdBufs -> Places]
  BY <1>1, QueueFacts DEF Places, OthersKept
<1>3. m_queue_index' \in HwQueues
  <2>1. PICK n \in Nat \ {0} : HwQueues = 0 .. n - 1
    <3>1. PICK last \in HwQueues : HwQueues = 0 .. last
      BY StreamingAssumption
    <3>2. last \in 0 .. last
      BY <3>1
    <3>3. last + 1 \in Nat \ {0} /\ last = (last + 1) - 1
      BY <3>2
    <3> QED
      BY <3>1, <3>3
  <2>2. Cardinality(HwQueues) = n
    <3>1. Cardinality(0 .. n - 1) = IF 0 > n - 1 THEN 0 ELSE n - 1 - 0 + 1
      BY FS_Interval
    <3> QED
      BY <2>1, <3>1
  <2>3. \A i \in 0 .. n - 1 : (i + 1) % n \in 0 .. n - 1
    BY <2>1
  <2> QED
    BY <1>1, <2>1, <2>2, <2>3, QueueFacts
<1>4. job \in Jobs
  BY QueueFacts DEF Jobs
<1>5. /\ k \in HwQueues /\ work'[k] = Append(work[k], job) /\ work[k] \in Seq(Jobs)
      /\ \A q \in HwQueues : q # k => work'[q] = work[q]
  BY <1>1, QueueFacts
<1>6. /\ work'[k] \in Seq(Jobs) /\ Len(work[k]) \in Nat
      /\ DOMAIN work[k] = 1 .. Len(work[k]) /\ DOMAIN work'[k] = 1 .. Len(work[k]) + 1
      /\ \A i \in 1 .. Len(work[k]) : work'[k][i] = work[k][i]
      /\ work'[k][Len(work[k]) + 1] = job
  BY <1>4, <1>5, Pushed
<1>7. job.cmd = c /\ job.user = user[c] /\ job.reads = associated[c]
  OBVIOUS
<1> HIDE DEF job, k
<1>8. work' \in [HwQueues -> Seq(Jobs)]
  BY <1>1, <1>5, <1>6, QueueFacts
<1>9. QueueTyped'
  BY <1>1, <1>2, <1>3, <1>8, QueueFacts DEF QueueTyped
<1>10. BuffersListed'
  <2>1. \A q \in HwQueues : \A i \in DOMAIN work[q] : work[q][i].cmd # c /\ work[q][i].cmd \in CmdBufs
    <3>1. \A q \in HwQueues : \A i \in DOMAIN work[q] : work[q][i] \in Jobs
      BY QueueFacts
    <3> QED
      BY <1>1, <3>1, NotQueued DEF Jobs
  <2>2. \A q \in HwQueues : \A i \in DOMAIN work'[q] :
          \/ i \in DOMAIN work[q] /\ work'[q][i] = work[q][i]
          \/ q = k /\ i = Len(work[k]) + 1 /\ work'[q][i] = job
    <3>1. \A n \in Nat : \A i \in 1 .. n + 1 : i \in 1 .. n \/ i = n + 1
      OBVIOUS
    <3> QED
      BY <1>5, <1>6, <3>1
  <2>3. /\ \A q \in HwQueues : \A i \in DOMAIN work[q] : i \in DOMAIN work'[q] /\ work'[q][i] = work[q][i]
        /\ Len(work[k]) + 1 \in DOMAIN work'[k]
    <3>1. \A n \in Nat : n + 1 \in 1 .. n + 1 /\ \A i \in 1 .. n : i \in 1 .. n + 1
      OBVIOUS
    <3> QED
      BY <1>5, <1>6, <3>1
  <2>4. IsInjective(m_buffers') /\ ToSet(m_buffers') = {d \in CmdBufs : place'[d] = "available"}
    BY <1>1, <1>2 DEF BuffersListed, OthersKept
  <2>5. \A q \in HwQueues : \A i \in DOMAIN work'[q] :
          /\ place'[work'[q][i].cmd] = "executing"
          /\ work'[q][i].user = user'[work'[q][i].cmd] /\ work'[q][i].reads = associated'[work'[q][i].cmd]
    BY <1>2, <1>7, <2>1, <2>2 DEF BuffersListed, OthersKept
  <2>6. \A d \in CmdBufs : place'[d] = "executing" =>
          \E q \in HwQueues : \E i \in DOMAIN work'[q] : work'[q][i].cmd = d
    <3> SUFFICES ASSUME NEW d \in CmdBufs, place'[d] = "executing"
                 PROVE  \E q \in HwQueues : \E i \in DOMAIN work'[q] : work'[q][i].cmd = d
      OBVIOUS
    <3>1. CASE d = c
      BY <1>5, <1>6, <1>7, <2>3, <3>1
    <3>2. CASE d # c
      <4>1. PICK q \in HwQueues : \E i \in DOMAIN work[q] : work[q][i].cmd = d
        BY <1>2, <3>2 DEF BuffersListed, OthersKept
      <4> QED
        BY <2>3, <4>1
    <3> QED
      BY <3>1, <3>2
  <2>7. \A q, r \in HwQueues : \A i \in DOMAIN work'[q], j \in DOMAIN work'[r] :
          work'[q][i].cmd = work'[r][j].cmd => q = r /\ i = j
    BY <1>7, <2>1, <2>2 DEF BuffersListed
  <2> QED
    BY <2>4, <2>5, <2>6, <2>7 DEF BuffersListed
<1> QED
  BY <1>1, <1>2, <1>9, <1>10

LEMMA ExecuteKeeps ==
  ASSUME QueueTyped, BuffersListed, NEW q \in HwQueues, Execute(q)
  PROVE  \E c \in CmdBufs :
           /\ QueueTyped' /\ BuffersListed' /\ OthersKept(c) /\ staging' = staging
           /\ place[c] = "executing" /\ place'[c] = "signalled"
           /\ user'[c] = user[c] /\ associated'[c] = associated[c] /\ Head(work[q]).user = user[c]
<1>1. PICK c : c = Head(work[q]).cmd
  OBVIOUS
<1>2. /\ work[q] # <<>> /\ place[c] = "executing" /\ place' = [place EXCEPT ![c] = "signalled"]
      /\ work' = [work EXCEPT ![q] = Tail(@)]
      /\ UNCHANGED <<m_buffers, user, associated, staging, m_queue_index>>
  BY <1>1 DEF Execute, Move
<1>3. /\ work'[q] = Tail(work[q]) /\ work[q] \in Seq(Jobs)
      /\ \A r \in HwQueues : r # q => work'[r] = work[r]
  BY <1>2, QueueFacts
<1>4. /\ work'[q] \in Seq(Jobs) /\ Len(work[q]) \in Nat /\ Len(work[q]) > 0 /\ Head(work[q]) = work[q][1]
      /\ DOMAIN work[q] = 1 .. Len(work[q]) /\ DOMAIN work'[q] = 1 .. Len(work[q]) - 1
      /\ \A i \in 1 .. Len(work[q]) - 1 : work'[q][i] = work[q][i + 1]
  BY <1>2, <1>3, Shifted
<1>5. /\ 1 \in DOMAIN work[q] /\ c = work[q][1].cmd /\ c \in CmdBufs /\ Head(work[q]).user = user[c]
  <2>1. 1 \in DOMAIN work[q] /\ work[q][1] \in Jobs
    BY <1>3, <1>4
  <2> QED
    BY <1>1, <1>4, <2>1 DEF Jobs, BuffersListed
<1>6. /\ place'[c] = "signalled" /\ user'[c] = user[c] /\ associated'[c] = associated[c]
      /\ OthersKept(c) /\ place' \in [CmdBufs -> Places]
  BY <1>2, <1>5, QueueFacts DEF Places, OthersKept
<1>7. work' \in [HwQueues -> Seq(Jobs)]
  BY <1>2, <1>3, <1>4, QueueFacts
<1>8. QueueTyped'
  BY <1>2, <1>6, <1>7, QueueFacts DEF QueueTyped
<1>9. BuffersListed'
  <2> DEFINE from(r, i) == IF r = q THEN i + 1 ELSE i
  <2>1. \A r \in HwQueues : \A i \in DOMAIN work'[r] :
          /\ from(r, i) \in DOMAIN work[r] /\ work'[r][i] = work[r][from(r, i)]
          /\ r = q => from(r, i) # 1
    <3>1. \A n \in Nat : \A i \in 1 .. n - 1 : i + 1 \in 1 .. n /\ i + 1 # 1
      OBVIOUS
    <3> QED
      BY <1>3, <1>4, <3>1
  <2>2. \A r \in HwQueues : \A i \in DOMAIN work'[r] : work'[r][i].cmd # c /\ work'[r][i].cmd \in CmdBufs
    <3>1. \A r \in HwQueues : \A i \in DOMAIN work[r] : work[r][i].cmd \in CmdBufs
      <4>1. \A r \in HwQueues : \A i \in DOMAIN work[r] : work[r][i] \in Jobs
        BY QueueFacts
      <4> QED
        BY <4>1 DEF Jobs
    <3> HIDE DEF from
    <3> QED
      BY <1>5, <2>1, <3>1 DEF BuffersListed
  <2>3. IsInjective(m_buffers') /\ ToSet(m_buffers') = {d \in CmdBufs : place'[d] = "available"}
    BY <1>2, <1>6 DEF BuffersListed, OthersKept
  <2>4. \A r \in HwQueues : \A i \in DOMAIN work'[r] :
          /\ place'[work'[r][i].cmd] = "executing"
          /\ work'[r][i].user = user'[work'[r][i].cmd] /\ work'[r][i].reads = associated'[work'[r][i].cmd]
    <3> HIDE DEF from
    <3> QED
      BY <1>6, <2>1, <2>2 DEF BuffersListed, OthersKept
  <2>5. \A d \in CmdBufs : place'[d] = "executing" =>
          \E r \in HwQueues : \E i \in DOMAIN work'[r] : work'[r][i].cmd = d
    <3> SUFFICES ASSUME NEW d \in CmdBufs, place'[d] = "executing"
                 PROVE  \E r \in HwQueues : \E i \in DOMAIN work'[r] : work'[r][i].cmd = d
      OBVIOUS
    <3>1. d # c
      BY <1>6
    <3>5. PICK r \in HwQueues : \E i \in DOMAIN work[r] : work[r][i].cmd = d
      BY <1>6, <3>1 DEF BuffersListed, OthersKept
    <3>2. PICK i \in DOMAIN work[r] : work[r][i].cmd = d
      BY <3>5
    <3>3. CASE r # q
      BY <1>3, <3>2, <3>3
    <3>4. CASE r = q
      <4>1. i # 1 /\ i \in 1 .. Len(work[q])
        BY <1>4, <1>5, <3>1, <3>2, <3>4
      <4>2. i - 1 \in 1 .. Len(work[q]) - 1 /\ (i - 1) + 1 = i
        BY <1>4, <4>1
      <4> QED
        BY <1>4, <3>2, <3>4, <4>2
    <3> QED
      BY <3>3, <3>4
  <2>6. \A r, s \in HwQueues : \A i \in DOMAIN work'[r], j \in DOMAIN work'[s] :
          work'[r][i].cmd = work'[s][j].cmd => r = s /\ i = j
    <3> SUFFICES ASSUME NEW r \in HwQueues, NEW s \in HwQueues,
                        NEW i \in DOMAIN work'[r], NEW j \in DOMAIN work'[s],
                        work'[r][i].cmd = work'[s][j].cmd
                 PROVE  r = s /\ i = j
      OBVIOUS
    <3>1. r = s /\ from(r, i) = from(s, j)
      <4> HIDE DEF from
      <4> QED
        BY <2>1 DEF BuffersListed
    <3>2. i \in Int /\ j \in Int
      BY <1>3, <1>4, <1>7
    <3> QED
      BY <3>1, <3>2
  <2> QED
    BY <2>3, <2>4, <2>5, <2>6 DEF BuffersListed
<1> QED
  BY <1>2, <1>5, <1>6, <1>8, <1>9

-----------------------------------------------------------------------------
(* The loads.  What most steps leave as it was. *)

Others(a) == \A b \in Assets : b # a => load'[b] = load[b]

LEMMA LoadFacts ==
  ASSUME StreamersTyped, NEW a \in Assets
  PROVE  /\ load \in [Assets -> LoadStates] /\ load[a] \in LoadStates
         /\ load[a].at \in Steps /\ load[a].cmd \in Nat /\ load[a].mips \in Nat /\ load[a].result \in Results
BY DEF StreamersTyped, LoadStates

(* The results can be told apart. *)
LEMMA ResultsDiffer ==
  /\ Fallback # NotLoaded /\ NoMesh # NotLoaded
  /\ \A r \in [index : Nat] : r # NotLoaded
  /\ \A r \in MeshResults : r # NotLoaded /\ r # NoMesh
<1>1. DOMAIN NotLoaded = {"pending"} /\ DOMAIN Fallback = {"index"} /\ DOMAIN NoMesh = {"index_count"}
  BY DEF NotLoaded, Fallback, NoMesh
<1>2. \A r \in [index : Nat] : DOMAIN r = {"index"}
  OBVIOUS
<1>3. \A r \in MeshResults : DOMAIN r = {"index_count", "vertex_offset", "index_offset"}
  BY DEF MeshResults
<1>4. "index" # "pending" /\ "index_count" # "pending" /\ "vertex_offset" # "index_count"
  OBVIOUS
<1> QED
  BY <1>1, <1>2, <1>3, <1>4

(* No buffer comes to a load or leaves it. *)
LEMMA UploadsSame ==
  ASSUME UploadsKnown, QueueTyped, UNCHANGED queueVars,
         \A a \in Assets :
           /\ load[a].at = "recording" \/ load'[a].at = "recording" => load'[a] = load[a]
           /\ load[a].at \in {"submitted", "awaiting", "done"} => load'[a].at \in {"submitted", "awaiting", "done"}
  PROVE  UploadsKnown'
<1>1. /\ place' = place /\ user' = user /\ associated' = associated /\ staging' = staging
      /\ \A c \in CmdBufs : user[c] \in Assets \cup {Nobody}
  BY QueueFacts DEF queueVars
<1>2. \A a \in Assets : load[a].at = "recording" => Bound(a)' = Bound(a)
  BY DEF Bound
<1>3. \A a \in Assets : StagingOf(a)' = StagingOf(a)
  BY DEF StagingOf
<1>4. \A c \in CmdBufs : place[c] \in {"recording", "executing", "signalled"} => user[c] \in Assets
  BY <1>1 DEF UploadsKnown
<1>5. \A c \in CmdBufs :
       /\ place'[c] \in {"none", "available"} <=> user'[c] = Nobody
       /\ user'[c] = Nobody => associated'[c] = {}
       /\ place'[c] = "recording" =>
            load'[user'[c]].at = "recording" /\ load'[user'[c]].cmd = c /\ associated'[c] = Bound(user[c])'
       /\ place'[c] \in {"executing", "signalled"} =>
            load'[user'[c]].at \in {"submitted", "awaiting", "done"} /\ associated'[c] = StagingOf(user'[c])
  BY <1>1, <1>2, <1>3, <1>4 DEF UploadsKnown
<1>6. /\ \A c, d \in CmdBufs : user'[c] = user'[d] /\ user'[c] # Nobody => c = d
      /\ \A a \in Assets : load'[a].at = "recording" =>
           load'[a].cmd \in CmdBufs /\ user'[load'[a].cmd] = a /\ place'[load'[a].cmd] = "recording"
      /\ staging' = UNION {associated'[c] : c \in CmdBufs}
  BY <1>1 DEF UploadsKnown
<1> QED
  BY <1>5, <1>6 DEF UploadsKnown, StagingOf

(* No place in the mesh buffers is taken or given up. *)
LEMMA PlacesSame ==
  ASSUME PlacesTaken, UNCHANGED heads,
         \A a \in Meshes : /\ HasVertices(a)' => HasVertices(a) /\ load'[a].result = load[a].result
                           /\ HasPlaces(a)' => HasPlaces(a) /\ load'[a].result = load[a].result
  PROVE  PlacesTaken'
<1>1. m_vertex_buffer_head' = m_vertex_buffer_head /\ m_index_buffer_head' = m_index_buffer_head
      /\ buffer_size' = buffer_size
  BY DEF heads
<1> QED
  BY <1>1 DEF PlacesTaken

(* No image comes, and no load ends but without a result. *)
LEMMA ResultsSame ==
  ASSUME ResultsKnown, UNCHANGED images, gpu \subseteq gpu', phase' = phase \/ phase' # "open",
         \A a \in Assets : load'[a].at = "done" =>
           \/ load[a].at = "done" /\ load'[a].result = load[a].result
           \/ load'[a].result = IF a \in Textures THEN Fallback ELSE NoMesh,
         \A a \in Meshes : load'[a].at = "awaiting" /\ a \notin gpu' =>
           \E c \in CmdBufs : user'[c] = a /\ place'[c] = "executing"
  PROVE  ResultsKnown'
<1>1. m_images' = m_images /\ descriptors' = descriptors
  BY DEF images
<1>2. \A a \in Meshes : a \notin Textures
  BY StreamingAssumption
<1>3. /\ \A a \in Textures : load'[a].at = "done" =>
           \/ load'[a].result = Fallback
           \/ load[a].at = "done" /\ load'[a].result = load[a].result
      /\ \A a \in Meshes : load'[a].at = "done" =>
           \/ load'[a].result = NoMesh
           \/ load[a].at = "done" /\ load'[a].result = load[a].result
  BY <1>2 DEF Assets
<1>4. LayoutExists' => LayoutExists
  BY DEF LayoutExists
<1> QED
  BY <1>1, <1>3, <1>4 DEF ResultsKnown

-----------------------------------------------------------------------------
(* One lemma per action, or for a few that are alike. *)

LEMMA StreamersFacts ==
  ASSUME StreamersTyped
  PROVE  /\ load \in [Assets -> LoadStates] /\ m_futures \subseteq Assets /\ m_loaded \in [Assets -> Results]
         /\ m_images \in Seq(Textures \cup {Default})
         /\ buffer_size \in Nat /\ m_vertex_buffer_head \in Nat /\ m_index_buffer_head \in Nat
BY DEF StreamersTyped

(* The buffers that execute are those that did, for the same users. *)
LEMMA StillExecuting ==
  ASSUME ResultsKnown, \A c \in CmdBufs : place[c] = "executing" => place'[c] = "executing" /\ user'[c] = user[c],
         gpu \subseteq gpu', \A a \in Meshes : load'[a].at = "awaiting" => load[a].at = "awaiting"
  PROVE  \A a \in Meshes : load'[a].at = "awaiting" /\ a \notin gpu' =>
           \E c \in CmdBufs : user'[c] = a /\ place'[c] = "executing"
<1>1. \A a \in Meshes : load[a].at = "awaiting" /\ a \notin gpu =>
        \E c \in CmdBufs : user[c] = a /\ place[c] = "executing"
  BY DEF ResultsKnown
<1> QED
  BY <1>1

LEMMA QueueSame ==
  ASSUME QueueTyped, BuffersListed, UNCHANGED queueVars
  PROVE  /\ QueueTyped' /\ BuffersListed'
         /\ \A c \in CmdBufs : place'[c] = place[c] /\ user'[c] = user[c] /\ associated'[c] = associated[c]
BY DEF queueVars, QueueTyped, BuffersListed

LEMMA EnsureKeeps ==
  ASSUME StreamingInv, NEW a \in Assets, Ensure(a)
  PROVE  StreamingInv'
<1>1. /\ QueueTyped /\ BuffersListed /\ UploadsKnown /\ StreamersTyped /\ LoadsKnown /\ ResultsKnown /\ PlacesTaken
  BY DEF StreamingInv, QueueInv
<1>2. CASE EnsureCollects(a)
  <2>1. /\ load[a].at = "done" /\ m_loaded' = [m_loaded EXCEPT ![a] = load[a].result]
        /\ m_futures' = m_futures \ {a}
        /\ UNCHANGED <<queueVars, load, images, heads, gpu, phase>>
    BY <1>2 DEF EnsureCollects, IsComplete
  <2>2. m_loaded'[a] = load[a].result /\ \A b \in Assets : b # a => m_loaded'[b] = m_loaded[b]
    BY <1>1, <2>1, StreamersFacts
  <2>3. load[a].result # NotLoaded
    BY <1>1, <2>1, ResultsDiffer DEF ResultsKnown, Assets
  <2>4. QueueTyped' /\ BuffersListed'
    BY <1>1, <2>1, QueueSame
  <2>5. UploadsKnown'
    BY <1>1, <2>1, UploadsSame
  <2>6. StreamersTyped'
    BY <1>1, <2>1, LoadFacts DEF StreamersTyped, images, heads
  <2>7. LoadsKnown'
    BY <1>1, <2>1, <2>2, <2>3 DEF LoadsKnown, NoLoadOutlivesStreamer
  <2>8. ResultsKnown'
    <3>1. \A c \in CmdBufs : place'[c] = place[c] /\ user'[c] = user[c]
      BY <1>1, <2>1, QueueSame
    <3>2. \A b \in Meshes : load'[b].at = "awaiting" /\ b \notin gpu' =>
            \E c \in CmdBufs : user'[c] = b /\ place'[c] = "executing"
      BY <1>1, <2>1, <3>1, StillExecuting
    <3> QED
      BY <1>1, <2>1, <3>2, ResultsSame
  <2>9. PlacesTaken'
    BY <1>1, <2>1, PlacesSame DEF HasVertices, HasPlaces
  <2> QED
    BY <2>4, <2>5, <2>6, <2>7, <2>8, <2>9 DEF StreamingInv, QueueInv
<1>3. CASE EnsureSchedules(a)
  <2>1. /\ phase = "open" /\ m_loaded[a] = NotLoaded /\ a \notin m_futures
        /\ load' = [load EXCEPT ![a].at = "scheduled"] /\ m_futures' = m_futures \cup {a}
        /\ UNCHANGED <<queueVars, m_loaded, images, heads, gpu, phase>>
    BY <1>3 DEF EnsureSchedules
  <2>2. load[a].at = "none"
    BY <1>1, <2>1, LoadFacts DEF LoadsKnown, Steps
  <2>3. /\ load'[a].at = "scheduled" /\ load'[a].mips = load[a].mips
        /\ load' \in [Assets -> LoadStates] /\ Others(a)
    BY <1>1, <2>1, LoadFacts DEF Others, LoadStates, Steps
  <2>4. QueueTyped' /\ BuffersListed'
    BY <1>1, <2>1, QueueSame
  <2>5. UploadsKnown'
    BY <1>1, <2>1, <2>2, <2>3, UploadsSame DEF Others
  <2>6. StreamersTyped'
    BY <1>1, <2>1, <2>3 DEF StreamersTyped, images, heads
  <2>7. LoadsKnown'
    BY <1>1, <2>1, <2>2, <2>3 DEF LoadsKnown, NoLoadOutlivesStreamer, Others
  <2>8. ResultsKnown'
    <3>1. \A c \in CmdBufs : place'[c] = place[c] /\ user'[c] = user[c]
      BY <1>1, <2>1, QueueSame
    <3>2. Meshes \subseteq Assets
      BY DEF Assets
    <3>3. \A b \in Meshes : load'[b].at = "awaiting" /\ b \notin gpu' =>
            \E c \in CmdBufs : user'[c] = b /\ place'[c] = "executing"
      BY <1>1, <2>1, <2>3, <3>1, <3>2, StillExecuting DEF Others
    <3> QED
      BY <1>1, <2>1, <2>3, <3>3, ResultsSame DEF Others
  <2>9. PlacesTaken'
    BY <1>1, <2>1, <2>2, <2>3, PlacesSame DEF HasVertices, HasPlaces, Others, Assets
  <2> QED
    BY <2>4, <2>5, <2>6, <2>7, <2>8, <2>9 DEF StreamingInv, QueueInv
<1> QED
  BY <1>2, <1>3 DEF Ensure

LEMMA OpenFailsKeeps ==
  ASSUME StreamingInv, NEW a \in Assets, OpenFails(a)
  PROVE  StreamingInv'
<1>1. /\ QueueTyped /\ BuffersListed /\ UploadsKnown /\ StreamersTyped /\ LoadsKnown /\ ResultsKnown /\ PlacesTaken
  BY DEF StreamingInv, QueueInv
<1>2. /\ load[a].at = "scheduled" /\ UNCHANGED <<queueVars, maps, images, heads, gpu, phase>>
      /\ load' = [load EXCEPT ![a] = [at |-> "done", cmd |-> 0, mips |-> 0,
                                      result |-> IF a \in Textures THEN Fallback ELSE NoMesh]]
  BY DEF OpenFails, Finish
<1>3. /\ load'[a].at = "done" /\ load'[a].mips = 0 /\ load'[a].result = (IF a \in Textures THEN Fallback ELSE NoMesh)
      /\ load' \in [Assets -> LoadStates] /\ Others(a)
  BY <1>1, <1>2, LoadFacts DEF Others, LoadStates, Steps, Results
<1>4. QueueTyped' /\ BuffersListed'
  BY <1>1, <1>2, QueueSame
<1>5. UploadsKnown'
  BY <1>1, <1>2, <1>3, UploadsSame DEF Others
<1>6. StreamersTyped'
  BY <1>1, <1>2, <1>3 DEF StreamersTyped, images, heads, maps
<1>7. LoadsKnown'
  BY <1>1, <1>2, <1>3, StreamingAssumption DEF LoadsKnown, NoLoadOutlivesStreamer, Others, maps
<1>8. ResultsKnown'
  <2>1. \A c \in CmdBufs : place'[c] = place[c] /\ user'[c] = user[c]
    BY <1>1, <1>2, QueueSame
  <2>2. Meshes \subseteq Assets
    BY DEF Assets
  <2>3. \A b \in Meshes : load'[b].at = "awaiting" /\ b \notin gpu' =>
          \E c \in CmdBufs : user'[c] = b /\ place'[c] = "executing"
    BY <1>1, <1>2, <1>3, <2>1, <2>2, StillExecuting DEF Others
  <2> QED
    BY <1>1, <1>2, <1>3, <2>3, ResultsSame DEF Others
<1>9. PlacesTaken'
  <2>1. \A b \in Meshes : b \notin Textures /\ b \in Assets
    BY StreamingAssumption DEF Assets
  <2> QED
    BY <1>1, <1>2, <1>3, <2>1, PlacesSame DEF HasVertices, HasPlaces, Others
<1> QED
  BY <1>4, <1>5, <1>6, <1>7, <1>8, <1>9 DEF StreamingInv, QueueInv

LEMMA PublishTextureKeeps ==
  ASSUME StreamingInv, NEW a \in Assets, PublishTexture(a)
  PROVE  StreamingInv'
<1>1. /\ QueueTyped /\ BuffersListed /\ UploadsKnown /\ StreamersTyped /\ LoadsKnown /\ ResultsKnown /\ PlacesTaken
  BY DEF StreamingInv, QueueInv
<1>2. /\ a \in Textures /\ load[a].at = "submitted" /\ UNCHANGED <<queueVars, maps, heads, gpu, phase>>
      /\ m_images' = Append(m_images, a) /\ (LayoutExists => descriptors' = Append(descriptors, a))
      /\ load' = [load EXCEPT ![a] = [at |-> "done", cmd |-> 0, mips |-> 0, result |-> [index |-> Len(m_images)]]]
  BY DEF PublishTexture, SetDescriptor, Finish
<1>3. /\ m_images \in Seq(Textures \cup {Default}) /\ m_images' \in Seq(Textures \cup {Default})
      /\ Len(m_images) \in Nat /\ Len(m_images') = Len(m_images) + 1
      /\ m_images'[Len(m_images) + 1] = a
      /\ \A i \in 1 .. Len(m_images) : m_images'[i] = m_images[i]
  BY <1>1, <1>2, StreamersFacts, Pushed
<1>4. /\ load'[a].at = "done" /\ load'[a].mips = 0 /\ load'[a].result = [index |-> Len(m_images)]
      /\ load' \in [Assets -> LoadStates] /\ Others(a)
  BY <1>1, <1>2, <1>3, LoadFacts DEF Others, LoadStates, Steps, Results
<1>5. QueueTyped' /\ BuffersListed'
  BY <1>1, <1>2, QueueSame
<1>6. UploadsKnown'
  BY <1>1, <1>2, <1>4, UploadsSame DEF Others
<1>7. StreamersTyped'
  BY <1>1, <1>2, <1>3, <1>4 DEF StreamersTyped, heads, maps
<1>8. LoadsKnown'
  BY <1>1, <1>2, <1>4, StreamingAssumption DEF LoadsKnown, NoLoadOutlivesStreamer, Others, maps
<1>9. ResultsKnown'
  <2>1. \A b \in Meshes : b # a /\ b \in Assets /\ load'[b] = load[b]
    BY <1>2, <1>4, StreamingAssumption DEF Assets, Others
  <2>2. \A b \in Meshes :
          /\ load'[b].at = "done" => load'[b].result = NoMesh \/ (load'[b].result \in MeshResults /\ b \in gpu')
          /\ load'[b].at = "awaiting" /\ b \notin gpu' => \E c \in CmdBufs : user'[c] = b /\ place'[c] = "executing"
    BY <1>1, <1>2, <2>1 DEF ResultsKnown, queueVars
  <2>3. \A b \in Textures : load'[b].at = "done" =>
          \/ load'[b].result = Fallback
          \/ /\ load'[b].result \in [index : 2 .. Len(m_images') - 1]
             /\ m_images'[load'[b].result.index + 1] = b
    <3> SUFFICES ASSUME NEW b \in Textures, load'[b].at = "done", load'[b].result # Fallback
                 PROVE  /\ load'[b].result \in [index : 2 .. Len(m_images') - 1]
                        /\ m_images'[load'[b].result.index + 1] = b
      OBVIOUS
    <3>1. CASE b = a
      <4>1. Len(m_images) \in 2 .. Len(m_images') - 1
        BY <1>1, <1>3 DEF ResultsKnown
      <4> QED
        BY <1>3, <1>4, <3>1, <4>1
    <3>2. CASE b # a
      <4>1. /\ load'[b] = load[b] /\ load[b].result \in [index : 2 .. Len(m_images) - 1]
            /\ m_images[load[b].result.index + 1] = b
        BY <1>1, <1>4, <3>2 DEF ResultsKnown, Others, Assets
      <4>2. PICK k : k = load[b].result.index
        OBVIOUS
      <4>3. k \in 2 .. Len(m_images) - 1 /\ k + 1 \in 1 .. Len(m_images) /\ k \in 2 .. Len(m_images') - 1
            /\ load[b].result = [index |-> k]
        BY <1>3, <4>1, <4>2
      <4> QED
        BY <1>3, <4>1, <4>2, <4>3
    <3> QED
      BY <3>1, <3>2
  <2>4. LayoutExists' => descriptors' = m_images'
    BY <1>1, <1>2 DEF LayoutExists, ResultsKnown
  <2> QED
    BY <1>1, <1>2, <1>3, <2>2, <2>3, <2>4 DEF ResultsKnown
<1>10. PlacesTaken'
  <2>1. \A b \in Meshes : load'[b] = load[b]
    BY <1>2, <1>4, StreamingAssumption DEF Assets, Others
  <2> QED
    BY <1>1, <1>2, <2>1, PlacesSame DEF HasVertices, HasPlaces
<1> QED
  BY <1>5, <1>6, <1>7, <1>8, <1>9, <1>10 DEF StreamingInv, QueueInv

(* A mesh takes its place in one of the two buffers, above all others. *)
LEMMA TakeVerticesKeeps ==
  ASSUME StreamingInv, NEW a \in Assets, TakeVertices(a)
  PROVE  StreamingInv'
<1>1. /\ QueueTyped /\ BuffersListed /\ UploadsKnown /\ StreamersTyped /\ LoadsKnown /\ ResultsKnown /\ PlacesTaken
  BY DEF StreamingInv, QueueInv
<1> DEFINE result == [index_count |-> IndexBytes, vertex_offset |-> m_vertex_buffer_head, index_offset |-> 0]
<1>2. /\ a \in Meshes /\ load[a].at = "scheduled"
      /\ UNCHANGED <<queueVars, maps, images, buffer_size, m_index_buffer_head, gpu, phase>>
      /\ m_vertex_buffer_head' = m_vertex_buffer_head + VertexBytes
      /\ load' = [load EXCEPT ![a].at = "vertices", ![a].result = result]
  BY DEF TakeVertices
<1>3. /\ m_vertex_buffer_head \in Nat /\ m_index_buffer_head \in Nat /\ VertexBytes \in Nat /\ IndexBytes \in Nat
      /\ result \in MeshResults /\ result.vertex_offset = m_vertex_buffer_head
  BY <1>1, StreamersFacts, StreamingAssumption DEF MeshResults
<1> HIDE DEF result
<1>4. /\ load'[a].at = "vertices" /\ load'[a].mips = load[a].mips /\ load'[a].result = result
      /\ load' \in [Assets -> LoadStates] /\ Others(a)
  BY <1>1, <1>2, <1>3, LoadFacts DEF Others, LoadStates, Steps, Results
<1>5. QueueTyped' /\ BuffersListed'
  BY <1>1, <1>2, QueueSame
<1>6. UploadsKnown'
  BY <1>1, <1>2, <1>4, UploadsSame DEF Others
<1>7. StreamersTyped'
  BY <1>1, <1>2, <1>3, <1>4 DEF StreamersTyped, images, maps
<1>8. LoadsKnown'
  <2>1. NoLoadOutlivesStreamer'
    <3>1. \A b \in Textures : b # a /\ load'[b] = load[b]
      BY <1>2, <1>4, StreamingAssumption DEF Assets, Others
    <3>2. phase' = phase /\ phase # "destroyed"
      BY <1>1, <1>2 DEF LoadsKnown, NoLoadOutlivesStreamer
    <3> QED
      BY <1>1, <3>1, <3>2 DEF LoadsKnown, NoLoadOutlivesStreamer
  <2> QED
    BY <1>1, <1>2, <1>4, <2>1 DEF LoadsKnown, Others, maps
<1>9. Meshes \subseteq Assets
  BY DEF Assets
<1>10. ResultsKnown'
  <2>1. \A c \in CmdBufs : place'[c] = place[c] /\ user'[c] = user[c]
    BY <1>1, <1>2, QueueSame
  <2>2. \A b \in Meshes : load'[b].at = "awaiting" /\ b \notin gpu' =>
          \E c \in CmdBufs : user'[c] = b /\ place'[c] = "executing"
    BY <1>1, <1>2, <1>4, <1>9, <2>1, StillExecuting DEF Others
  <2> QED
    BY <1>1, <1>2, <1>4, <2>2, ResultsSame DEF Others
<1>11. PlacesTaken'
  <2>1. ~HasVertices(a) /\ ~HasPlaces(a) /\ ~HasPlaces(a)'
    BY <1>2, <1>4 DEF HasVertices, HasPlaces
  <2>2. \A b \in Meshes : b # a => /\ load'[b].result = load[b].result /\ (HasVertices(b)' <=> HasVertices(b))
                                   /\ (HasPlaces(b)' <=> HasPlaces(b))
    BY <1>4, <1>9 DEF HasVertices, HasPlaces, Others
  <2>3. \A b \in Meshes : HasVertices(b) => load[b].result.vertex_offset \in Nat
    BY <1>1 DEF PlacesTaken, MeshResults
  <2>4. \A b \in Meshes : HasVertices(b)' =>
          /\ load'[b].result \in MeshResults
          /\ load'[b].result.vertex_offset + VertexBytes <= m_vertex_buffer_head'
    <3> TAKE b \in Meshes
    <3>1. CASE b = a
      BY <1>2, <1>3, <1>4, <3>1
    <3>2. CASE b # a
      <4>1. HasVertices(b) => load[b].result \in MeshResults
                              /\ load[b].result.vertex_offset + VertexBytes <= m_vertex_buffer_head
        BY <1>1 DEF PlacesTaken
      <4>2. load'[b].result = load[b].result /\ (HasVertices(b)' <=> HasVertices(b))
        BY <2>2, <3>2
      <4>3. \A n \in Nat : n + VertexBytes <= m_vertex_buffer_head => n + VertexBytes <= m_vertex_buffer_head'
        BY <1>2, <1>3
      <4> QED
        BY <2>3, <4>1, <4>2, <4>3
    <3> QED
      BY <3>1, <3>2
  <2>5. \A b, d \in Meshes : b # d /\ HasVertices(b)' /\ HasVertices(d)' =>
          \/ load'[b].result.vertex_offset + VertexBytes <= load'[d].result.vertex_offset
          \/ load'[d].result.vertex_offset + VertexBytes <= load'[b].result.vertex_offset
    BY <1>1, <1>3, <1>4, <2>2 DEF PlacesTaken
  <2>6. \A b \in Meshes : HasPlaces(b)' => b # a /\ HasPlaces(b)
    BY <2>1, <2>2
  <2>7. \A b \in Meshes : HasPlaces(b)' => load'[b].result.index_offset + IndexBytes <= m_index_buffer_head'
    BY <1>1, <1>2, <2>2, <2>6 DEF PlacesTaken
  <2>8. \A b, d \in Meshes : b # d /\ HasPlaces(b)' /\ HasPlaces(d)' =>
          \/ load'[b].result.index_offset + IndexBytes <= load'[d].result.index_offset
          \/ load'[d].result.index_offset + IndexBytes <= load'[b].result.index_offset
    BY <1>1, <2>2, <2>6 DEF PlacesTaken
  <2>9. \A b \in Meshes : HasPlaces(b)' => /\ load'[b].result.vertex_offset + VertexBytes < buffer_size'
                                            /\ load'[b].result.index_offset + IndexBytes < buffer_size'
    BY <1>1, <1>2, <2>2, <2>6 DEF PlacesTaken
  <2> QED
    BY <2>4, <2>5, <2>7, <2>8, <2>9 DEF PlacesTaken
<1> QED
  BY <1>5, <1>6, <1>7, <1>8, <1>10, <1>11 DEF StreamingInv, QueueInv

(* Both places are inside the buffers. *)
PlacesFit(a) ==
  /\ load[a].result.vertex_offset + VertexBytes < buffer_size
  /\ m_index_buffer_head + IndexBytes < buffer_size

(* The program stops, and the place in the index buffer stays taken. *)
LEMMA TakeIndicesStops ==
  ASSUME StreamingInv, NEW a \in Assets, TakeIndices(a), ~PlacesFit(a)
  PROVE  StreamingInv'
<1>1. /\ QueueTyped /\ BuffersListed /\ UploadsKnown /\ StreamersTyped /\ LoadsKnown /\ ResultsKnown /\ PlacesTaken
  BY DEF StreamingInv, QueueInv
<1>2. /\ UNCHANGED <<queueVars, maps, images, buffer_size, m_vertex_buffer_head, gpu, load>> /\ phase' = "stopped"
      /\ m_index_buffer_head' = m_index_buffer_head + IndexBytes
  BY DEF TakeIndices, PlacesFit
<1>3. QueueTyped' /\ BuffersListed' /\ \A c \in CmdBufs : place'[c] = place[c] /\ user'[c] = user[c]
  BY <1>1, <1>2, QueueSame
<1>4. UploadsKnown'
  BY <1>1, <1>2, UploadsSame
<1>5. m_index_buffer_head \in Nat /\ IndexBytes \in Nat
  BY <1>1, StreamersFacts, StreamingAssumption
<1>6. StreamersTyped'
  BY <1>1, <1>2, <1>5 DEF StreamersTyped, images, maps
<1>7. LoadsKnown'
  BY <1>1, <1>2 DEF LoadsKnown, NoLoadOutlivesStreamer, maps
<1>8. ResultsKnown'
  <2>1. \A b \in Meshes : load'[b].at = "awaiting" /\ b \notin gpu' =>
          \E d \in CmdBufs : user'[d] = b /\ place'[d] = "executing"
    BY <1>1, <1>2, <1>3, StillExecuting
  <2> QED
    BY <1>1, <1>2, <2>1, ResultsSame
<1>9. PlacesTaken'
  <2>1. \A b \in Meshes : (HasVertices(b)' <=> HasVertices(b)) /\ (HasPlaces(b)' <=> HasPlaces(b))
    BY <1>2 DEF HasVertices, HasPlaces
  <2>2. \A b \in Meshes : HasPlaces(b) => load[b].result.index_offset \in Nat
    BY <1>1 DEF PlacesTaken, MeshResults, HasVertices
  <2>3. \A b \in Meshes : HasPlaces(b)' => load'[b].result.index_offset + IndexBytes <= m_index_buffer_head'
    <3> TAKE b \in Meshes
    <3>1. HasPlaces(b) => load[b].result.index_offset + IndexBytes <= m_index_buffer_head
      BY <1>1 DEF PlacesTaken
    <3> QED
      BY <1>2, <1>5, <2>1, <2>2, <3>1
  <2> QED
    BY <1>1, <1>2, <2>1, <2>3 DEF PlacesTaken
<1> QED
  BY <1>3, <1>4, <1>6, <1>7, <1>8, <1>9 DEF StreamingInv, QueueInv

LEMMA TakeIndicesKeeps ==
  ASSUME StreamingInv, NEW a \in Assets, TakeIndices(a), PlacesFit(a)
  PROVE  StreamingInv'
<1>1. /\ QueueTyped /\ BuffersListed /\ UploadsKnown /\ StreamersTyped /\ LoadsKnown /\ ResultsKnown /\ PlacesTaken
  BY DEF StreamingInv, QueueInv
<1>2. /\ load[a].at = "vertices" /\ a \in Meshes
      /\ UNCHANGED <<queueVars, maps, images, buffer_size, m_vertex_buffer_head, gpu, phase>>
      /\ m_index_buffer_head' = m_index_buffer_head + IndexBytes
      /\ load' = [load EXCEPT ![a].at = "placed", ![a].result.index_offset = m_index_buffer_head]
  BY <1>1 DEF TakeIndices, PlacesFit, LoadsKnown
<1>3. /\ m_vertex_buffer_head \in Nat /\ m_index_buffer_head \in Nat /\ VertexBytes \in Nat /\ IndexBytes \in Nat
      /\ load[a].result \in MeshResults
  BY <1>1, <1>2, StreamersFacts, StreamingAssumption DEF PlacesTaken, HasVertices
<1>4. /\ load'[a].at = "placed" /\ load'[a].mips = load[a].mips
      /\ load'[a].result \in MeshResults /\ load'[a].result.index_offset = m_index_buffer_head
      /\ load'[a].result.vertex_offset = load[a].result.vertex_offset
      /\ load' \in [Assets -> LoadStates] /\ Others(a)
  <2>1. PICK r : r = load[a].result
    OBVIOUS
  <2>2. PICK s : s = [r EXCEPT !.index_offset = m_index_buffer_head]
    OBVIOUS
  <2>3. /\ s \in MeshResults /\ s.index_offset = m_index_buffer_head /\ s.vertex_offset = r.vertex_offset
        /\ s \in Results
    BY <1>3, <2>1, <2>2 DEF MeshResults, Results
  <2>4. load' = [load EXCEPT ![a].at = "placed", ![a].result = s]
    BY <1>1, <1>2, <2>1, <2>2, LoadFacts DEF LoadStates
  <2>5. /\ load'[a].at = "placed" /\ load'[a].mips = load[a].mips /\ load'[a].result = s
        /\ load' \in [Assets -> LoadStates] /\ Others(a)
    BY <1>1, <2>3, <2>4, LoadFacts DEF Others, LoadStates, Steps
  <2> QED
    BY <2>1, <2>3, <2>5
<1>5. QueueTyped' /\ BuffersListed'
  BY <1>1, <1>2, QueueSame
<1>6. UploadsKnown'
  BY <1>1, <1>2, <1>4, UploadsSame DEF Others
<1>7. StreamersTyped'
  BY <1>1, <1>2, <1>3, <1>4 DEF StreamersTyped, images, maps
<1>8. LoadsKnown'
  <2>1. NoLoadOutlivesStreamer'
    <3>1. \A b \in Textures : b # a /\ load'[b] = load[b]
      BY <1>2, <1>4, StreamingAssumption DEF Assets, Others
    <3>2. phase' = phase /\ phase # "destroyed"
      BY <1>1, <1>2 DEF LoadsKnown, NoLoadOutlivesStreamer
    <3> QED
      BY <1>1, <3>1, <3>2 DEF LoadsKnown, NoLoadOutlivesStreamer
  <2> QED
    BY <1>1, <1>2, <1>4, <2>1 DEF LoadsKnown, Others, maps
<1>9. Meshes \subseteq Assets
  BY DEF Assets
<1>10. ResultsKnown'
  <2>1. \A c \in CmdBufs : place'[c] = place[c] /\ user'[c] = user[c]
    BY <1>1, <1>2, QueueSame
  <2>2. \A b \in Meshes : load'[b].at = "awaiting" /\ b \notin gpu' =>
          \E c \in CmdBufs : user'[c] = b /\ place'[c] = "executing"
    BY <1>1, <1>2, <1>4, <1>9, <2>1, StillExecuting DEF Others
  <2> QED
    BY <1>1, <1>2, <1>4, <2>2, ResultsSame DEF Others
<1>11. PlacesTaken'
  <2>1. HasVertices(a) /\ ~HasPlaces(a)
    BY <1>2 DEF HasVertices, HasPlaces
  <2>2. \A b \in Meshes : b # a => /\ load'[b].result = load[b].result /\ (HasVertices(b)' <=> HasVertices(b))
                                   /\ (HasPlaces(b)' <=> HasPlaces(b))
    BY <1>4, <1>9 DEF HasVertices, HasPlaces, Others
  <2>3. \A b \in Meshes : HasPlaces(b) => load[b].result.index_offset \in Nat
    BY <1>1 DEF PlacesTaken, MeshResults, HasVertices
  <2>4. \A b \in Meshes : HasVertices(b)' =>
          /\ HasVertices(b) /\ load'[b].result \in MeshResults
          /\ load'[b].result.vertex_offset = load[b].result.vertex_offset
    BY <1>1, <1>4, <2>1, <2>2 DEF PlacesTaken
  <2>5. \A b \in Meshes : HasVertices(b)' =>
          load'[b].result.vertex_offset + VertexBytes <= m_vertex_buffer_head'
    BY <1>1, <1>2, <2>4 DEF PlacesTaken
  <2>6. \A b, d \in Meshes : b # d /\ HasVertices(b)' /\ HasVertices(d)' =>
          \/ load'[b].result.vertex_offset + VertexBytes <= load'[d].result.vertex_offset
          \/ load'[d].result.vertex_offset + VertexBytes <= load'[b].result.vertex_offset
    BY <1>1, <2>4 DEF PlacesTaken
  <2>7. \A b \in Meshes : HasPlaces(b)' => load'[b].result.index_offset + IndexBytes <= m_index_buffer_head'
    <3> TAKE b \in Meshes
    <3>1. CASE b = a
      BY <1>2, <1>3, <1>4, <3>1
    <3>2. CASE b # a
      <4>1. HasPlaces(b) => load[b].result.index_offset + IndexBytes <= m_index_buffer_head
        BY <1>1 DEF PlacesTaken
      <4>2. load'[b].result = load[b].result /\ (HasPlaces(b)' <=> HasPlaces(b))
        BY <2>2, <3>2
      <4>3. \A n \in Nat : n + IndexBytes <= m_index_buffer_head => n + IndexBytes <= m_index_buffer_head'
        BY <1>2, <1>3
      <4> QED
        BY <2>3, <4>1, <4>2, <4>3
    <3> QED
      BY <3>1, <3>2
  <2>8. \A b, d \in Meshes : b # d /\ HasPlaces(b)' /\ HasPlaces(d)' =>
          \/ load'[b].result.index_offset + IndexBytes <= load'[d].result.index_offset
          \/ load'[d].result.index_offset + IndexBytes <= load'[b].result.index_offset
    BY <1>1, <1>3, <1>4, <2>2 DEF PlacesTaken
  <2>9. \A b \in Meshes : HasPlaces(b)' => /\ load'[b].result.vertex_offset + VertexBytes < buffer_size'
                                            /\ load'[b].result.index_offset + IndexBytes < buffer_size'
    <3> TAKE b \in Meshes
    <3>1. CASE b = a
      BY <1>2, <1>4, <3>1 DEF PlacesFit
    <3>2. CASE b # a
      BY <1>1, <1>2, <2>2, <3>2 DEF PlacesTaken
    <3> QED
      BY <3>1, <3>2
  <2> QED
    BY <2>4, <2>5, <2>6, <2>7, <2>8, <2>9 DEF PlacesTaken
<1> QED
  BY <1>5, <1>6, <1>7, <1>8, <1>10, <1>11 DEF StreamingInv, QueueInv

LEMMA AwaitMeshKeeps ==
  ASSUME StreamingInv, NEW a \in Assets, AwaitMesh(a)
  PROVE  StreamingInv'
<1>1. /\ QueueTyped /\ BuffersListed /\ UploadsKnown /\ StreamersTyped /\ LoadsKnown /\ ResultsKnown /\ PlacesTaken
  BY DEF StreamingInv, QueueInv
<1>2. /\ load[a].at = "awaiting" /\ a \in Meshes /\ ~Submitted(a)
      /\ UNCHANGED <<queueVars, maps, images, heads, gpu, phase>>
      /\ load' = [load EXCEPT ![a] = [at |-> "done", cmd |-> 0, mips |-> 0, result |-> load[a].result]]
  BY <1>1 DEF AwaitMesh, Finish, LoadsKnown
<1>3. /\ load'[a].at = "done" /\ load'[a].mips = 0 /\ load'[a].result = load[a].result
      /\ load' \in [Assets -> LoadStates] /\ Others(a)
  BY <1>1, <1>2, LoadFacts DEF Others, LoadStates, Steps
<1>4. a \in gpu /\ load[a].result \in MeshResults
  BY <1>1, <1>2 DEF ResultsKnown, Submitted, PlacesTaken, HasVertices, HasPlaces
<1>5. QueueTyped' /\ BuffersListed'
  BY <1>1, <1>2, QueueSame
<1>6. UploadsKnown'
  BY <1>1, <1>2, <1>3, UploadsSame DEF Others
<1>7. StreamersTyped'
  BY <1>1, <1>2, <1>3 DEF StreamersTyped, images, heads, maps
<1>8. LoadsKnown'
  BY <1>1, <1>2, <1>3, StreamingAssumption DEF LoadsKnown, NoLoadOutlivesStreamer, Others, maps
<1>9. ResultsKnown'
  <2>1. \A b \in Textures : b # a /\ load'[b] = load[b]
    BY <1>2, <1>3, StreamingAssumption DEF Assets, Others
  <2>2. \A b \in Meshes : b # a => load'[b] = load[b]
    BY <1>3 DEF Assets, Others
  <2>3. m_images' = m_images /\ descriptors' = descriptors /\ gpu' = gpu /\ user' = user /\ place' = place
        /\ (LayoutExists' <=> LayoutExists)
    BY <1>2 DEF images, queueVars, LayoutExists
  <2>4. \A b \in Textures : load'[b].at = "done" =>
          \/ load'[b].result = Fallback
          \/ /\ load'[b].result \in [index : 2 .. Len(m_images') - 1]
             /\ m_images'[load'[b].result.index + 1] = b
    BY <1>1, <2>1, <2>3 DEF ResultsKnown
  <2>5. \A b \in Meshes :
          /\ load'[b].at = "done" => load'[b].result = NoMesh \/ (load'[b].result \in MeshResults /\ b \in gpu')
          /\ load'[b].at = "awaiting" /\ b \notin gpu' => \E c \in CmdBufs : user'[c] = b /\ place'[c] = "executing"
    BY <1>1, <1>3, <1>4, <2>2, <2>3 DEF ResultsKnown
  <2> QED
    BY <1>1, <2>3, <2>4, <2>5 DEF ResultsKnown
<1>10. PlacesTaken'
  BY <1>1, <1>2, <1>3, PlacesSame DEF HasVertices, HasPlaces, Others, Assets
<1> QED
  BY <1>5, <1>6, <1>7, <1>8, <1>9, <1>10 DEF StreamingInv, QueueInv

-----------------------------------------------------------------------------
(* The steps that change a buffer. *)

(* What is bound to a buffer is named after its user, so that different    *)
(* buffers have nothing in common.                                         *)
LEMMA BoundApart ==
  ASSUME UploadsKnown, QueueTyped
  PROVE  /\ \A c \in CmdBufs : \A s \in associated[c] : s[1] = user[c]
         /\ \A c, d \in CmdBufs : c # d => associated[c] \cap associated[d] = {}
<1>1. \A a : \A s \in Bound(a) \cup StagingOf(a) : s[1] = a
  BY DEF Bound, StagingOf
<1>2. \A c \in CmdBufs : place[c] \in Places
  BY QueueFacts
<1>3. \A c \in CmdBufs : \A s \in associated[c] : s[1] = user[c] /\ user[c] # Nobody
  BY <1>1, <1>2 DEF UploadsKnown, Places
<1> QED
  BY <1>3 DEF UploadsKnown

(* Buffer c has, had or gets the user u, and no other has it. *)
LEMMA UploadsStep ==
  ASSUME UploadsKnown, QueueTyped, QueueTyped',
         NEW c \in CmdBufs, NEW u \in Assets, OthersKept(c), Others(u), user[c] \in {u, Nobody},
         \A d \in CmdBufs : d # c => user[d] # u,
         user'[c] \in {u, Nobody},
         place'[c] \in {"none", "available"} <=> user'[c] = Nobody,
         user'[c] = Nobody => associated'[c] = {},
         place'[c] = "recording" =>
           load'[u].at = "recording" /\ load'[u].cmd = c /\ associated'[c] = Bound(u)',
         place'[c] \in {"executing", "signalled"} =>
           load'[u].at \in {"submitted", "awaiting", "done"} /\ associated'[c] = StagingOf(u),
         load'[u].at = "recording" => load'[u].cmd = c /\ user'[c] = u /\ place'[c] = "recording",
         staging' = (staging \ associated[c]) \cup associated'[c]
  PROVE  UploadsKnown'
<1>1. Nobody \notin Assets /\ \A d \in CmdBufs : user[d] \in Assets \cup {Nobody}
  BY StreamingAssumption, QueueFacts
<1>2. \A d \in CmdBufs : d # c => place'[d] = place[d] /\ user'[d] = user[d] /\ associated'[d] = associated[d]
  BY DEF OthersKept
<1>3. \A d \in CmdBufs : d # c /\ user[d] # Nobody => load'[user[d]] = load[user[d]]
  BY <1>1 DEF Others
<1>4. \A d \in CmdBufs : d # c /\ user[d] # Nobody => Bound(user[d])' = Bound(user[d])
  <2> SUFFICES ASSUME NEW d \in CmdBufs, d # c, user[d] # Nobody PROVE Bound(user[d])' = Bound(user[d])
    OBVIOUS
  <2>1. PICK v \in Assets : v = user[d]
    BY <1>1
  <2>2. user'[d] = v /\ load'[v] = load[v]
    BY <1>2, <1>3, <2>1
  <2> QED
    BY <2>1, <2>2 DEF Bound
<1>5. \A a : StagingOf(a)' = StagingOf(a)
  BY DEF StagingOf
<1>6. \A d \in CmdBufs : d # c =>
       /\ place'[d] \in {"none", "available"} <=> user'[d] = Nobody
       /\ user'[d] = Nobody => associated'[d] = {}
       /\ place'[d] = "recording" =>
            load'[user'[d]].at = "recording" /\ load'[user'[d]].cmd = d /\ associated'[d] = Bound(user[d])'
       /\ place'[d] \in {"executing", "signalled"} =>
            load'[user'[d]].at \in {"submitted", "awaiting", "done"} /\ associated'[d] = StagingOf(user'[d])
  BY <1>2, <1>3, <1>4 DEF UploadsKnown
<1>7. /\ place'[c] \in {"recording", "executing", "signalled"} => user'[c] = u
      /\ user'[c] = u => Bound(user[c])' = Bound(u)'
  <2>1. user'[c] = u => Bound(user[c])' = Bound(u)'
    BY DEF Bound
  <2> QED
    BY <2>1
<1>8. /\ place'[c] = "recording" =>
           load'[user'[c]].at = "recording" /\ load'[user'[c]].cmd = c /\ associated'[c] = Bound(user[c])'
      /\ place'[c] \in {"executing", "signalled"} =>
           load'[user'[c]].at \in {"submitted", "awaiting", "done"} /\ associated'[c] = StagingOf(user'[c])
  BY <1>7
<1>9. \A d, e \in CmdBufs : user'[d] = user'[e] /\ user'[d] # Nobody => d = e
  BY <1>2 DEF UploadsKnown
<1>10. \A a \in Assets : load'[a].at = "recording" =>
         load'[a].cmd \in CmdBufs /\ user'[load'[a].cmd] = a /\ place'[load'[a].cmd] = "recording"
  <2> SUFFICES ASSUME NEW a \in Assets, load'[a].at = "recording"
               PROVE  load'[a].cmd \in CmdBufs /\ user'[load'[a].cmd] = a /\ place'[load'[a].cmd] = "recording"
    OBVIOUS
  <2>1. CASE a = u
    BY <2>1
  <2>2. CASE a # u
    <3>1. load'[a] = load[a] /\ load[a].cmd \in CmdBufs /\ user[load[a].cmd] = a /\ place[load[a].cmd] = "recording"
      BY <2>2 DEF UploadsKnown, Others
    <3>2. load[a].cmd # c
      BY <1>1, <2>2, <3>1
    <3> QED
      BY <1>2, <3>1, <3>2
  <2> QED
    BY <2>1, <2>2
<1>11. staging' = UNION {associated'[d] : d \in CmdBufs}
  <2>1. staging = UNION {associated[d] : d \in CmdBufs}
    BY DEF UploadsKnown
  <2>2. \A d \in CmdBufs : d # c => associated'[d] = associated[d] /\ associated[d] \cap associated[c] = {}
    BY <1>2, BoundApart
  <2>3. \A s \in staging' : \E d \in CmdBufs : s \in associated'[d]
    BY <2>1, <2>2
  <2>4. \A d \in CmdBufs : \A s \in associated'[d] : s \in staging'
    BY <2>1, <2>2
  <2> QED
    BY <2>3, <2>4
<1> QED
  BY <1>5, <1>6, <1>8, <1>9, <1>10, <1>11 DEF UploadsKnown

(* A load has no buffer before it requests one, and while it records it    *)
(* has the one it knows.                                                   *)
LEMMA NoBuffer ==
  ASSUME UploadsKnown, QueueTyped, NEW a \in Assets,
         load[a].at \notin {"recording", "submitted", "awaiting", "done"}
  PROVE  \A d \in CmdBufs : user[d] # a
<1>1. \A d \in CmdBufs : place[d] \in Places
  BY QueueFacts
<1>2. Nobody # a
  BY StreamingAssumption
<1> QED
  BY <1>1, <1>2 DEF UploadsKnown, Places

LEMMA OwnBuffer ==
  ASSUME UploadsKnown, QueueTyped, NEW a \in Assets, load[a].at = "recording"
  PROVE  /\ load[a].cmd \in CmdBufs /\ user[load[a].cmd] = a /\ place[load[a].cmd] = "recording"
         /\ associated[load[a].cmd] = Bound(a)
         /\ \A d \in CmdBufs : d # load[a].cmd => user[d] # a
<1>1. a # Nobody
  BY StreamingAssumption
<1> QED
  BY <1>1 DEF UploadsKnown

LEMMA UnusedHolds ==
  ASSUME UploadsKnown PROVE Unused
BY DEF UploadsKnown, Unused

(* What a step of a load that gives up or ends nothing leaves in order. *)
LEMMA OrderlyStep ==
  ASSUME StreamersTyped, LoadsKnown, PlacesTaken, NEW a \in Assets, UNCHANGED <<maps, images, heads, gpu, phase>>,
         load[a].at \notin {"none", "done"}, load'[a].at \notin {"none", "scheduled", "done", "vertices"},
         load' \in [Assets -> LoadStates], Others(a), load'[a].result = load[a].result,
         load'[a].mips <= MipCount,
         load'[a].at \in {"placed", "awaiting"} => a \in Meshes,
         load'[a].at = "submitted" => a \in Textures,
         a \in Textures \/ load[a].at \in {"placed", "recording"}
  PROVE  StreamersTyped' /\ LoadsKnown' /\ PlacesTaken'
<1>1. StreamersTyped'
  BY DEF StreamersTyped, maps, images, heads
<1>2. LoadsKnown'
  <2>1. NoLoadOutlivesStreamer'
    <3>1. phase # "destroyed"
      BY StreamingAssumption DEF LoadsKnown, NoLoadOutlivesStreamer, Assets
    <3>2. phase = "mesh_loads" => \A b \in Textures : b # a /\ load'[b] = load[b]
      BY DEF LoadsKnown, NoLoadOutlivesStreamer, Assets, Others
    <3> QED
      BY <3>1, <3>2 DEF LoadsKnown, NoLoadOutlivesStreamer
  <2> QED
    BY <2>1 DEF LoadsKnown, Others, maps
<1>3. PlacesTaken'
  <2>1. \A b \in Meshes : b \in Assets /\ b \notin Textures
    BY StreamingAssumption DEF Assets
  <2>2. UNCHANGED heads
    OBVIOUS
  <2>3. \A b \in Meshes : b # a => load'[b] = load[b]
    BY <2>1 DEF Others
  <2>4. a \in Meshes => HasPlaces(a) /\ HasVertices(a)
    BY <2>1 DEF HasPlaces, HasVertices
  <2>5. \A b \in Meshes : /\ HasVertices(b)' => HasVertices(b) /\ load'[b].result = load[b].result
                          /\ HasPlaces(b)' => HasPlaces(b) /\ load'[b].result = load[b].result
    BY <2>3, <2>4 DEF HasPlaces, HasVertices
  <2> QED
    BY <2>2, <2>5, PlacesSame
<1> QED
  BY <1>1, <1>2, <1>3

LEMMA RequestStep ==
  ASSUME StreamingInv, NEW a \in Assets, NEW c \in CmdBufs, NEW bound \in SUBSET Pieces, RequestCmdBuf(c, a, bound),
         load' = [load EXCEPT ![a].at = "recording", ![a].cmd = c],
         UNCHANGED <<maps, images, heads, gpu, phase>>,
         load[a].at \in {"scheduled", "placed"}, bound = Bound(a),
         a \in Textures \/ load[a].at = "placed"
  PROVE  StreamingInv'
<1>1. /\ QueueTyped /\ BuffersListed /\ UploadsKnown /\ StreamersTyped /\ LoadsKnown /\ ResultsKnown /\ PlacesTaken
  BY DEF StreamingInv, QueueInv
<1>2. /\ load'[a].at = "recording" /\ load'[a].cmd = c /\ load'[a].mips = load[a].mips
      /\ load'[a].result = load[a].result /\ load' \in [Assets -> LoadStates] /\ Others(a)
  <2>1. c \in Nat
    BY StreamingAssumption
  <2> QED
    BY <1>1, <2>1, LoadFacts DEF Others, LoadStates, Steps
<1>3. /\ QueueTyped' /\ BuffersListed' /\ OthersKept(c) /\ staging' = staging \cup bound
      /\ place[c] \in {"none", "available"} /\ place'[c] = "recording"
      /\ user'[c] = a /\ associated'[c] = bound
  BY <1>1, RequestKeeps, UnusedHolds
<1>4. user[c] = Nobody /\ associated[c] = {}
  BY <1>1, <1>3 DEF UploadsKnown
<1>5. UploadsKnown'
  <2>1. \A d \in CmdBufs : user[d] # a
    BY <1>1, NoBuffer
  <2>2. Bound(a)' = bound
    BY <1>2 DEF Bound
  <2>3. user'[c] # Nobody
    BY <1>3, StreamingAssumption
  <2>4. staging' = (staging \ associated[c]) \cup associated'[c]
    BY <1>3, <1>4
  <2> QED
    BY <1>1, <1>2, <1>3, <1>4, <2>1, <2>2, <2>3, <2>4, UploadsStep
<1>6. StreamersTyped' /\ LoadsKnown' /\ PlacesTaken'
  <2>1. load'[a].mips <= MipCount
    BY <1>1, <1>2 DEF LoadsKnown
  <2> QED
    BY <1>1, <1>2, <2>1, OrderlyStep
<1>7. ResultsKnown'
  <2>1. \A d \in CmdBufs : place[d] = "executing" => place'[d] = "executing" /\ user'[d] = user[d]
    BY <1>3 DEF OthersKept
  <2>2. \A b \in Meshes : load'[b].at = "awaiting" => load[b].at = "awaiting"
    BY <1>2 DEF Others, Assets
  <2>3. gpu \subseteq gpu'
    OBVIOUS
  <2>4. \A b \in Meshes : load'[b].at = "awaiting" /\ b \notin gpu' =>
          \E d \in CmdBufs : user'[d] = b /\ place'[d] = "executing"
    BY <1>1, <2>1, <2>2, <2>3, StillExecuting
  <2>5. \A b \in Assets : load'[b].at = "done" => load[b].at = "done" /\ load'[b].result = load[b].result
    BY <1>2 DEF Others
  <2> QED
    BY <1>1, <2>3, <2>4, <2>5, ResultsSame
<1> QED
  BY <1>3, <1>5, <1>6, <1>7 DEF StreamingInv, QueueInv

LEMMA BeginTextureKeeps ==
  ASSUME StreamingInv, NEW a \in Assets, BeginTexture(a)
  PROVE  StreamingInv'
<1>1. a \in Textures /\ load[a].at = "scheduled" /\ UNCHANGED <<maps, images, heads, gpu, phase>>
  BY DEF BeginTexture
<1>2. PICK c \in CmdBufs : RequestCmdBuf(c, a, {}) /\ load' = [load EXCEPT ![a].at = "recording", ![a].cmd = c]
  BY DEF BeginTexture
<1>3. Bound(a) = {} /\ {} \in SUBSET Pieces
  <2>1. load[a].mips = 0
    BY <1>1 DEF StreamingInv, LoadsKnown
  <2> QED
    BY <1>1, <2>1 DEF Bound
<1> QED
  BY <1>1, <1>2, <1>3, RequestStep

LEMMA RecordMeshKeeps ==
  ASSUME StreamingInv, NEW a \in Assets, RecordMesh(a)
  PROVE  StreamingInv'
<1>1. load[a].at = "placed" /\ UNCHANGED <<maps, images, heads, gpu, phase>>
  BY DEF RecordMesh
<1>2. PICK c \in CmdBufs : /\ RequestCmdBuf(c, a, {<<a, 0>>})
                           /\ load' = [load EXCEPT ![a].at = "recording", ![a].cmd = c]
  BY DEF RecordMesh
<1>3. Bound(a) = {<<a, 0>>} /\ {<<a, 0>>} \in SUBSET Pieces
  <2>1. a \in Meshes /\ a \notin Textures
    BY <1>1, StreamingAssumption DEF StreamingInv, LoadsKnown
  <2> QED
    BY <2>1 DEF Bound, Pieces
<1> QED
  BY <1>1, <1>2, <1>3, RequestStep

LEMMA ReadMipKeeps ==
  ASSUME StreamingInv, NEW a \in Assets, ReadMip(a)
  PROVE  StreamingInv'
<1>1. /\ QueueTyped /\ BuffersListed /\ UploadsKnown /\ StreamersTyped /\ LoadsKnown /\ ResultsKnown /\ PlacesTaken
  BY DEF StreamingInv, QueueInv
<1>2. /\ a \in Textures /\ load[a].at = "recording" /\ load[a].mips < MipCount
      /\ load' = [load EXCEPT ![a].mips = @ + 1] /\ UNCHANGED <<maps, images, heads, gpu, phase>>
  BY DEF ReadMip
<1>3. PICK c \in CmdBufs : c = load[a].cmd /\ user[c] = a /\ place[c] = "recording" /\ associated[c] = Bound(a)
                           /\ \A d \in CmdBufs : d # c => user[d] # a
  BY <1>1, <1>2, OwnBuffer
<1>4. PICK m \in Nat : m = load[a].mips
  BY <1>1, LoadFacts
<1>5. BindAssociatedBuffer(c, <<a, m>>) /\ <<a, m>> \in Pieces /\ MipCount \in Nat
  BY <1>2, <1>3, <1>4, StreamingAssumption DEF ReadMip, Pieces
<1>6. /\ load'[a].at = "recording" /\ load'[a].cmd = c /\ load'[a].mips = m + 1
      /\ load'[a].result = load[a].result /\ load' \in [Assets -> LoadStates] /\ Others(a)
  BY <1>1, <1>2, <1>3, <1>4, LoadFacts DEF Others, LoadStates, Steps
<1>7. /\ QueueTyped' /\ BuffersListed' /\ OthersKept(c) /\ staging' = staging \cup {<<a, m>>}
      /\ place'[c] = "recording" /\ user'[c] = user[c] /\ associated'[c] = associated[c] \cup {<<a, m>>}
  BY <1>1, <1>3, <1>5, BindKeeps
<1>8. UploadsKnown'
  <2>1. associated'[c] = Bound(a)'
    <3>1. Bound(a)' = {<<a, k>> : k \in 0 .. m}
      BY <1>2, <1>6 DEF Bound
    <3>2. Bound(a) = {<<a, k>> : k \in 0 .. m - 1}
      BY <1>2, <1>4 DEF Bound
    <3>3. \A k \in 0 .. m : k \in 0 .. m - 1 \/ k = m
      OBVIOUS
    <3> QED
      BY <1>3, <1>7, <3>1, <3>2, <3>3
  <2>2. user'[c] # Nobody /\ user'[c] = a
    BY <1>3, <1>7, StreamingAssumption
  <2>3. staging' = (staging \ associated[c]) \cup associated'[c]
    <3>1. associated[c] \subseteq staging
      BY <1>1 DEF UploadsKnown
    <3> QED
      BY <1>7, <3>1
  <2> QED
    BY <1>1, <1>3, <1>6, <1>7, <2>1, <2>2, <2>3, UploadsStep
<1>9. StreamersTyped' /\ LoadsKnown' /\ PlacesTaken'
  <2>1. load'[a].mips <= MipCount
    BY <1>2, <1>4, <1>5, <1>6
  <2> QED
    BY <1>1, <1>2, <1>6, <2>1, OrderlyStep
<1>10. ResultsKnown'
  <2>1. \A d \in CmdBufs : place[d] = "executing" => place'[d] = "executing" /\ user'[d] = user[d]
    BY <1>3, <1>7 DEF OthersKept
  <2>2. \A b \in Meshes : load'[b].at = "awaiting" => load[b].at = "awaiting"
    BY <1>6 DEF Others, Assets
  <2>3. gpu \subseteq gpu' /\ UNCHANGED images /\ phase' = phase
    BY <1>2
  <2>4. \A b \in Meshes : load'[b].at = "awaiting" /\ b \notin gpu' =>
          \E d \in CmdBufs : user'[d] = b /\ place'[d] = "executing"
    BY <1>1, <2>1, <2>2, <2>3, StillExecuting
  <2>5. \A b \in Assets : load'[b].at = "done" => load[b].at = "done" /\ load'[b].result = load[b].result
    BY <1>6 DEF Others
  <2> QED
    BY <1>1, <2>3, <2>4, <2>5, ResultsSame
<1> QED
  BY <1>7, <1>8, <1>9, <1>10 DEF StreamingInv, QueueInv

LEMMA ReadMipFailsKeeps ==
  ASSUME StreamingInv, NEW a \in Assets, ReadMipFails(a)
  PROVE  StreamingInv'
<1>1. /\ QueueTyped /\ BuffersListed /\ UploadsKnown /\ StreamersTyped /\ LoadsKnown /\ ResultsKnown /\ PlacesTaken
  BY DEF StreamingInv, QueueInv
<1>2. /\ a \in Textures /\ load[a].at = "recording" /\ UNCHANGED <<maps, images, heads, gpu, phase>>
      /\ load' = [load EXCEPT ![a] = [at |-> "done", cmd |-> 0, mips |-> 0, result |-> Fallback]]
  BY DEF ReadMipFails, Finish
<1>3. PICK c \in CmdBufs : c = load[a].cmd /\ user[c] = a /\ place[c] = "recording" /\ associated[c] = Bound(a)
                           /\ \A d \in CmdBufs : d # c => user[d] # a
  BY <1>1, <1>2, OwnBuffer
<1>4. DestroyCmdBuf(c)
  BY <1>3 DEF ReadMipFails
<1>5. /\ load'[a].at = "done" /\ load'[a].mips = 0 /\ load'[a].result = Fallback
      /\ load' \in [Assets -> LoadStates] /\ Others(a)
  BY <1>1, <1>2, LoadFacts DEF Others, LoadStates, Steps, Results
<1>6. /\ QueueTyped' /\ BuffersListed' /\ OthersKept(c) /\ staging' = staging \ associated[c]
      /\ place'[c] = "none" /\ user'[c] = Nobody /\ associated'[c] = {}
  BY <1>1, <1>4, DestroyKeeps
<1>7. UploadsKnown'
  <2>1. staging' = (staging \ associated[c]) \cup associated'[c]
    BY <1>6
  <2> QED
    BY <1>1, <1>3, <1>5, <1>6, <2>1, UploadsStep
<1>8. StreamersTyped'
  BY <1>1, <1>2, <1>5 DEF StreamersTyped, images, heads, maps
<1>9. LoadsKnown'
  BY <1>1, <1>2, <1>5, StreamingAssumption DEF LoadsKnown, NoLoadOutlivesStreamer, Others, maps
<1>10. ResultsKnown'
  <2>1. \A d \in CmdBufs : place[d] = "executing" => place'[d] = "executing" /\ user'[d] = user[d]
    BY <1>3, <1>6 DEF OthersKept
  <2>2. \A b \in Meshes : load'[b].at = "awaiting" => load[b].at = "awaiting"
    BY <1>5 DEF Others, Assets
  <2>3. gpu \subseteq gpu' /\ UNCHANGED images /\ phase' = phase
    BY <1>2
  <2>4. \A b \in Meshes : load'[b].at = "awaiting" /\ b \notin gpu' =>
          \E d \in CmdBufs : user'[d] = b /\ place'[d] = "executing"
    BY <1>1, <2>1, <2>2, <2>3, StillExecuting
  <2>5. \A b \in Assets : load'[b].at = "done" =>
          \/ load[b].at = "done" /\ load'[b].result = load[b].result
          \/ load'[b].result = IF b \in Textures THEN Fallback ELSE NoMesh
    BY <1>2, <1>5 DEF Others
  <2> QED
    BY <1>1, <2>3, <2>4, <2>5, ResultsSame
<1>11. PlacesTaken'
  <2>1. \A b \in Meshes : load'[b] = load[b]
    BY <1>2, <1>5, StreamingAssumption DEF Assets, Others
  <2> QED
    BY <1>1, <1>2, <2>1, PlacesSame DEF HasVertices, HasPlaces
<1> QED
  BY <1>6, <1>7, <1>8, <1>9, <1>10, <1>11 DEF StreamingInv, QueueInv

LEMMA SubmitStep ==
  ASSUME StreamingInv, NEW a \in Assets, load[a].at = "recording", SubmitCmdBuf(load[a].cmd),
         UNCHANGED <<maps, images, heads, gpu, phase>>,
         NEW at \in {"submitted", "awaiting"}, load' = [load EXCEPT ![a].at = at],
         at = "submitted" => a \in Textures /\ load[a].mips = MipCount,
         at = "awaiting" => a \in Meshes
  PROVE  StreamingInv'
<1>1. /\ QueueTyped /\ BuffersListed /\ UploadsKnown /\ StreamersTyped /\ LoadsKnown /\ ResultsKnown /\ PlacesTaken
  BY DEF StreamingInv, QueueInv
<1>2. PICK c \in CmdBufs : c = load[a].cmd /\ user[c] = a /\ place[c] = "recording" /\ associated[c] = Bound(a)
                           /\ \A d \in CmdBufs : d # c => user[d] # a
  BY <1>1, OwnBuffer
<1>3. /\ load'[a].at = at /\ load'[a].mips = load[a].mips /\ load'[a].result = load[a].result
      /\ load' \in [Assets -> LoadStates] /\ Others(a)
  BY <1>1, LoadFacts DEF Others, LoadStates, Steps
<1>4. user[c] # Nobody
  BY <1>2, StreamingAssumption
<1>5. /\ QueueTyped' /\ BuffersListed' /\ OthersKept(c) /\ staging' = staging
      /\ place'[c] = "executing" /\ user'[c] = user[c] /\ associated'[c] = associated[c]
  BY <1>1, <1>2, <1>4, SubmitKeeps
<1>6. UploadsKnown'
  <2>1. associated'[c] = StagingOf(a)
    BY <1>2, <1>5, StreamingAssumption DEF Bound, StagingOf
  <2>2. staging' = (staging \ associated[c]) \cup associated'[c]
    <3>1. associated[c] \subseteq staging
      BY <1>1 DEF UploadsKnown
    <3> QED
      BY <1>5, <3>1
  <2>3. at \in {"submitted", "awaiting", "done"} /\ at # "recording"
    OBVIOUS
  <2>4. user'[c] = a /\ place'[c] = "executing"
    BY <1>2, <1>5
  <2> QED
    BY <1>1, <1>2, <1>3, <1>4, <1>5, <2>1, <2>2, <2>3, <2>4, UploadsStep
<1>7. StreamersTyped' /\ LoadsKnown' /\ PlacesTaken'
  <2>1. load'[a].mips <= MipCount
    BY <1>1, <1>3 DEF LoadsKnown
  <2>2. a \in Textures \/ load[a].at \in {"placed", "recording"}
    OBVIOUS
  <2> QED
    BY <1>1, <1>3, <2>1, <2>2, OrderlyStep
<1>8. ResultsKnown'
  <2>1. \A b \in Meshes : load'[b].at = "awaiting" /\ b \notin gpu' =>
          \E d \in CmdBufs : user'[d] = b /\ place'[d] = "executing"
    <3> SUFFICES ASSUME NEW b \in Meshes, load'[b].at = "awaiting", b \notin gpu'
                 PROVE  \E d \in CmdBufs : user'[d] = b /\ place'[d] = "executing"
      OBVIOUS
    <3>1. CASE b = a
      BY <1>2, <1>5, <3>1
    <3>2. CASE b # a
      <4>1. load'[b] = load[b]
        BY <1>3, <3>2 DEF Others, Assets
      <4>2. PICK d \in CmdBufs : user[d] = b /\ place[d] = "executing"
        BY <1>1, <4>1 DEF ResultsKnown
      <4> QED
        BY <1>2, <1>5, <4>2 DEF OthersKept
    <3> QED
      BY <3>1, <3>2
  <2>2. gpu \subseteq gpu' /\ UNCHANGED images
    OBVIOUS
  <2>3. \A b \in Assets : load'[b].at = "done" => load[b].at = "done" /\ load'[b].result = load[b].result
    BY <1>3 DEF Others
  <2> QED
    BY <1>1, <2>1, <2>2, <2>3, ResultsSame
<1> QED
  BY <1>5, <1>6, <1>7, <1>8 DEF StreamingInv, QueueInv

(* The steps that no load takes: the loads stay as they are. *)
LEMMA LoadsSame ==
  ASSUME StreamersTyped, LoadsKnown, PlacesTaken, UNCHANGED <<load, maps, images, heads>>,
         NoLoadOutlivesStreamer'
  PROVE  StreamersTyped' /\ LoadsKnown' /\ PlacesTaken'
<1>1. StreamersTyped'
  BY DEF StreamersTyped, maps, images, heads
<1>2. LoadsKnown'
  BY DEF LoadsKnown, maps
<1>3. PlacesTaken'
  BY PlacesSame DEF HasVertices, HasPlaces
<1> QED
  BY <1>1, <1>2, <1>3

LEMMA GpuExecutesKeeps ==
  ASSUME StreamingInv, NEW q \in HwQueues, GpuExecutes(q)
  PROVE  StreamingInv'
<1>1. /\ QueueTyped /\ BuffersListed /\ UploadsKnown /\ StreamersTyped /\ LoadsKnown /\ ResultsKnown /\ PlacesTaken
  BY DEF StreamingInv, QueueInv
<1>2. /\ Execute(q) /\ gpu' = gpu \cup {Head(work[q]).user} /\ UNCHANGED <<load, maps, images, heads, phase>>
  BY DEF GpuExecutes
<1>3. PICK c \in CmdBufs :
        /\ QueueTyped' /\ BuffersListed' /\ OthersKept(c) /\ staging' = staging
        /\ place[c] = "executing" /\ place'[c] = "signalled"
        /\ user'[c] = user[c] /\ associated'[c] = associated[c] /\ Head(work[q]).user = user[c]
  BY <1>1, <1>2, ExecuteKeeps
<1>4. PICK u \in Assets : u = user[c]
  <2>1. user[c] \in Assets \cup {Nobody} /\ user[c] # Nobody
    BY <1>1, <1>3, QueueFacts DEF UploadsKnown
  <2> QED
    BY <2>1
<1>5. UploadsKnown'
  <2>1. \A d \in CmdBufs : d # c => user[d] # u
    BY <1>1, <1>4, StreamingAssumption DEF UploadsKnown
  <2>2. associated'[c] = StagingOf(u) /\ load'[u].at \in {"submitted", "awaiting", "done"} /\ load'[u].at # "recording"
    BY <1>1, <1>2, <1>3, <1>4 DEF UploadsKnown
  <2>3. staging' = (staging \ associated[c]) \cup associated'[c]
    <3>1. associated[c] \subseteq staging
      BY <1>1 DEF UploadsKnown
    <3> QED
      BY <1>3, <3>1
  <2>4. user'[c] # Nobody /\ Others(u)
    BY <1>2, <1>3, <1>4, StreamingAssumption DEF Others
  <2> QED
    BY <1>1, <1>3, <1>4, <2>1, <2>2, <2>3, <2>4, UploadsStep
<1>6. StreamersTyped' /\ LoadsKnown' /\ PlacesTaken'
  <2>1. NoLoadOutlivesStreamer'
    BY <1>1, <1>2 DEF LoadsKnown, NoLoadOutlivesStreamer
  <2> QED
    BY <1>1, <1>2, <2>1, LoadsSame
<1>7. ResultsKnown'
  <2>1. \A b \in Meshes : load'[b].at = "awaiting" /\ b \notin gpu' =>
          \E d \in CmdBufs : user'[d] = b /\ place'[d] = "executing"
    <3> SUFFICES ASSUME NEW b \in Meshes, load'[b].at = "awaiting", b \notin gpu'
                 PROVE  \E d \in CmdBufs : user'[d] = b /\ place'[d] = "executing"
      OBVIOUS
    <3>1. PICK d \in CmdBufs : user[d] = b /\ place[d] = "executing"
      BY <1>1, <1>2 DEF ResultsKnown
    <3>2. d # c
      BY <1>2, <1>3, <3>1
    <3> QED
      BY <1>3, <3>1, <3>2 DEF OthersKept
  <2> QED
    BY <1>1, <1>2, <2>1, ResultsSame
<1> QED
  BY <1>3, <1>5, <1>6, <1>7 DEF StreamingInv, QueueInv

LEMMA RecycledKeeps ==
  ASSUME StreamingInv, NEW c \in CmdBufs, Recycled(c)
  PROVE  StreamingInv'
<1>1. /\ QueueTyped /\ BuffersListed /\ UploadsKnown /\ StreamersTyped /\ LoadsKnown /\ ResultsKnown /\ PlacesTaken
  BY DEF StreamingInv, QueueInv
<1>2. Recycle(c) /\ UNCHANGED <<load, maps, images, heads, gpu, phase>>
  BY DEF Recycled, assetVars, maps, images, heads
<1>3. /\ QueueTyped' /\ BuffersListed' /\ OthersKept(c) /\ staging' = staging \ associated[c]
      /\ place[c] = "signalled" /\ place'[c] = "available" /\ user'[c] = Nobody /\ associated'[c] = {}
  BY <1>1, <1>2, RecycleKeeps
<1>4. PICK u \in Assets : u = user[c]
  <2>1. user[c] \in Assets \cup {Nobody} /\ user[c] # Nobody
    BY <1>1, <1>3, QueueFacts DEF UploadsKnown
  <2> QED
    BY <2>1
<1>5. UploadsKnown'
  <2>1. \A d \in CmdBufs : d # c => user[d] # u
    BY <1>1, <1>4, StreamingAssumption DEF UploadsKnown
  <2>2. load'[u].at # "recording"
    BY <1>1, <1>2, <1>3, <1>4 DEF UploadsKnown
  <2>3. staging' = (staging \ associated[c]) \cup associated'[c]
    BY <1>3
  <2>4. Others(u)
    BY <1>2 DEF Others
  <2> QED
    BY <1>1, <1>3, <1>4, <2>1, <2>2, <2>3, <2>4, UploadsStep
<1>6. StreamersTyped' /\ LoadsKnown' /\ PlacesTaken'
  <2>1. NoLoadOutlivesStreamer'
    BY <1>1, <1>2 DEF LoadsKnown, NoLoadOutlivesStreamer
  <2> QED
    BY <1>1, <1>2, <2>1, LoadsSame
<1>7. ResultsKnown'
  <2>1. \A d \in CmdBufs : place[d] = "executing" => place'[d] = "executing" /\ user'[d] = user[d]
    BY <1>3 DEF OthersKept
  <2>2. \A b \in Meshes : load'[b].at = "awaiting" /\ b \notin gpu' =>
          \E d \in CmdBufs : user'[d] = b /\ place'[d] = "executing"
    BY <1>1, <1>2, <2>1, StillExecuting
  <2> QED
    BY <1>1, <1>2, <2>2, ResultsSame
<1> QED
  BY <1>3, <1>5, <1>6, <1>7 DEF StreamingInv, QueueInv

(* The streamers are destroyed when no future is left that is not complete. *)
LEMMA PhaseKeeps ==
  ASSUME StreamingInv, DestroyLayout \/ Destroy \/ UNCHANGED streamingVars
  PROVE  StreamingInv'
<1>1. /\ QueueTyped /\ BuffersListed /\ UploadsKnown /\ StreamersTyped /\ LoadsKnown /\ ResultsKnown /\ PlacesTaken
  BY DEF StreamingInv, QueueInv
<1>2. /\ UNCHANGED <<queueVars, load, maps, images, heads, gpu>>
      /\ phase' = phase \/ phase' # "open"
  BY DEF DestroyLayout, Destroy, DestroyTextures, DestroyMeshes, Enter, streamingVars, assetVars, maps, images, heads
<1>3. NoLoadOutlivesStreamer'
  <2>1. CASE DestroyLayout
    BY <1>2, <2>1 DEF DestroyLayout, Enter, NoLoadOutlivesStreamer
  <2>2. CASE DestroyTextures
    BY <1>1, <1>2, <2>2 DEF DestroyTextures, Enter, IsComplete, LoadsKnown, NoLoadOutlivesStreamer, Assets
  <2>3. CASE DestroyMeshes
    BY <1>1, <1>2, <2>3 DEF DestroyMeshes, Enter, IsComplete, LoadsKnown, NoLoadOutlivesStreamer, Assets
  <2>4. CASE UNCHANGED streamingVars
    BY <1>1, <1>2, <2>4 DEF streamingVars, assetVars, LoadsKnown, NoLoadOutlivesStreamer
  <2> QED
    BY <2>1, <2>2, <2>3, <2>4 DEF Destroy
<1>4. QueueTyped' /\ BuffersListed' /\ \A c \in CmdBufs : place'[c] = place[c] /\ user'[c] = user[c]
  BY <1>1, <1>2, QueueSame
<1>5. UploadsKnown'
  BY <1>1, <1>2, UploadsSame
<1>6. StreamersTyped' /\ LoadsKnown' /\ PlacesTaken'
  BY <1>1, <1>2, <1>3, LoadsSame
<1>7. ResultsKnown'
  <2>1. \A b \in Meshes : load'[b].at = "awaiting" /\ b \notin gpu' =>
          \E d \in CmdBufs : user'[d] = b /\ place'[d] = "executing"
    BY <1>1, <1>2, <1>4, StillExecuting
  <2> QED
    BY <1>1, <1>2, <2>1, ResultsSame
<1> QED
  BY <1>4, <1>5, <1>6, <1>7 DEF StreamingInv, QueueInv

LEMMA StreamingStarts == StreamingInit => StreamingInv
<1> SUFFICES ASSUME StreamingInit PROVE StreamingInv
  OBVIOUS
<1>1. /\ m_buffers = <<>> /\ place = [c \in CmdBufs |-> "none"] /\ user = [c \in CmdBufs |-> Nobody]
      /\ associated = [c \in CmdBufs |-> {}] /\ staging = {} /\ m_queue_index = 0
      /\ work = [q \in HwQueues |-> <<>>]
  BY DEF StreamingInit, QueueInit
<1>2. /\ load = [a \in Assets |-> [at |-> "none", cmd |-> 0, mips |-> 0, result |-> NotLoaded]]
      /\ m_futures = {} /\ m_loaded = [a \in Assets |-> NotLoaded]
      /\ m_images = <<Default, Default>> /\ descriptors = <<Default, Default>>
      /\ m_vertex_buffer_head = 0 /\ m_index_buffer_head = 0 /\ gpu = {} /\ phase = "open"
      /\ buffer_size \in Nat
  BY StreamingAssumption DEF StreamingInit
<1>3. QueueTyped
  <2>1. 0 \in HwQueues
    BY StreamingAssumption
  <2> QED
    BY <1>1, <2>1 DEF QueueTyped, Places
<1>4. BuffersListed
  <2>1. \A q \in HwQueues : DOMAIN work[q] = {}
    BY <1>1
  <2> QED
    BY <1>1, <2>1 DEF BuffersListed, IsInjective, ToSet
<1>5. \A a \in Assets : load[a].at = "none" /\ load[a].mips = 0 /\ m_loaded[a] = NotLoaded
  BY <1>2
<1>6. UploadsKnown
  BY <1>1, <1>5 DEF UploadsKnown
<1>7. StreamersTyped
  <2>1. [at |-> "none", cmd |-> 0, mips |-> 0, result |-> NotLoaded] \in LoadStates
    BY DEF LoadStates, Steps, Results
  <2>2. m_images \in Seq(Textures \cup {Default})
    BY <1>2
  <2>3. m_loaded \in [Assets -> Results]
    BY <1>2 DEF Results
  <2> QED
    BY <1>2, <2>1, <2>2, <2>3 DEF StreamersTyped
<1>8. LoadsKnown
  BY <1>2, <1>5, StreamingAssumption DEF LoadsKnown, NoLoadOutlivesStreamer
<1>9. ResultsKnown
  BY <1>2, <1>5 DEF ResultsKnown, Assets
<1>10. PlacesTaken
  BY <1>5 DEF PlacesTaken, HasVertices, HasPlaces, Assets
<1> QED
  BY <1>3, <1>4, <1>6, <1>7, <1>8, <1>9, <1>10 DEF StreamingInv, QueueInv

LEMMA StreamingKeeps == StreamingInv /\ [StreamingNext]_streamingVars => StreamingInv'
<1> SUFFICES ASSUME StreamingInv, [StreamingNext]_streamingVars PROVE StreamingInv'
  OBVIOUS
<1>1. ASSUME NEW a \in Assets, SubmitTexture(a) PROVE StreamingInv'
  <2>1. /\ a \in Textures /\ load[a].at = "recording" /\ load[a].mips = MipCount /\ SubmitCmdBuf(load[a].cmd)
        /\ load' = [load EXCEPT ![a].at = "submitted"] /\ UNCHANGED <<maps, images, heads, gpu, phase>>
    BY <1>1 DEF SubmitTexture
  <2> QED
    BY <2>1, SubmitStep
<1>2. ASSUME NEW a \in Assets, SubmitMesh(a) PROVE StreamingInv'
  <2>1. /\ a \in Meshes /\ load[a].at = "recording" /\ SubmitCmdBuf(load[a].cmd)
        /\ load' = [load EXCEPT ![a].at = "awaiting"] /\ UNCHANGED <<maps, images, heads, gpu, phase>>
    BY <1>2 DEF SubmitMesh
  <2> QED
    BY <2>1, SubmitStep
<1>3. ASSUME NEW a \in Assets, Ensure(a) \/ Load(a) PROVE StreamingInv'
  BY <1>1, <1>2, <1>3, EnsureKeeps, OpenFailsKeeps, BeginTextureKeeps, ReadMipKeeps, ReadMipFailsKeeps,
     PublishTextureKeeps, TakeVerticesKeeps, TakeIndicesKeeps, TakeIndicesStops, RecordMeshKeeps, AwaitMeshKeeps DEF Load
<1> QED
  BY <1>3, GpuExecutesKeeps, RecycledKeeps, PhaseKeeps DEF StreamingNext

-----------------------------------------------------------------------------
(* What follows from it. *)

LEMMA QueueListed ==
  ASSUME QueueTyped, NEW q \in HwQueues
  PROVE  /\ DOMAIN Buffers(work[q]) = DOMAIN work[q]
         /\ \A i \in DOMAIN work[q] : Buffers(work[q])[i] = work[q][i].cmd
         /\ \A c : Contains(Buffers(work[q]), c) <=> \E i \in DOMAIN work[q] : work[q][i].cmd = c
<1>1. work[q] \in Seq(Jobs)
  BY QueueFacts
<1>2. /\ DOMAIN Buffers(work[q]) = DOMAIN work[q]
      /\ \A i \in DOMAIN work[q] : Buffers(work[q])[i] = work[q][i].cmd
  BY DEF Buffers
<1>3. PICK n \in Nat : DOMAIN work[q] = 1 .. n
  BY <1>1
<1>4. \A i \in 1 .. n : work[q][i].cmd \in CmdBufs
  <2>1. \A i \in 1 .. n : work[q][i] \in Jobs
    BY <1>1, <1>3
  <2> QED
    BY <2>1 DEF Jobs
<1>5. Buffers(work[q]) \in [1 .. n -> CmdBufs]
  BY <1>3, <1>4 DEF Buffers
<1>6. Len(Buffers(work[q])) = n
  BY <1>3, <1>5
<1> QED
  BY <1>2, <1>3, <1>6 DEF Contains

LEMMA InvBuffersSound == StreamingInv => BuffersSound
<1> SUFFICES ASSUME StreamingInv PROVE BuffersSound
  OBVIOUS
<1>1. QueueTyped /\ BuffersListed /\ UploadsKnown
  BY DEF StreamingInv, QueueInv
<1>2. \A c \in CmdBufs : place[c] \in Places /\ user[c] \in Assets \cup {Nobody}
  BY <1>1, QueueFacts
<1>3. BufferInOnePlace
  <2>1. \A c \in CmdBufs : (place[c] = "executing") <=> (\E q \in HwQueues : Contains(Buffers(work[q]), c))
    <3>1. \A c \in CmdBufs : (place[c] = "executing") <=> (\E q \in HwQueues : \E i \in DOMAIN work[q] : work[q][i].cmd = c)
      BY <1>1 DEF BuffersListed
    <3> QED
      BY <1>1, <3>1, QueueListed
  <2>2. \A c \in CmdBufs : /\ place[c] \in {"available", "none"} <=> user[c] = Nobody
                           /\ associated[c] # {} => place[c] \in {"recording", "executing", "signalled"}
    BY <1>1, <1>2 DEF UploadsKnown, Places
  <2>3. \A q \in HwQueues : IsInjective(Buffers(work[q]))
    BY <1>1, QueueListed DEF BuffersListed, IsInjective
  <2>4. IsInjective(m_buffers) /\ ToSet(m_buffers) = {c \in CmdBufs : place[c] = "available"}
    BY <1>1 DEF BuffersListed
  <2> QED
    BY <2>1, <2>2, <2>3, <2>4 DEF BufferInOnePlace
<1>4. StagingOutlivesCopy
  <2>1. \A q \in HwQueues : \A i \in DOMAIN work[q] :
          work[q][i].reads = StagingOf(work[q][i].user) /\ work[q][i].reads \subseteq staging
    <3> SUFFICES ASSUME NEW q \in HwQueues, NEW i \in DOMAIN work[q]
                 PROVE  work[q][i].reads = StagingOf(work[q][i].user) /\ work[q][i].reads \subseteq staging
      OBVIOUS
    <3>1. PICK c \in CmdBufs : c = work[q][i].cmd
      <4>1. work[q][i] \in Jobs
        BY <1>1, QueueFacts
      <4> QED
        BY <4>1 DEF Jobs
    <3>2. place[c] = "executing" /\ work[q][i].user = user[c] /\ work[q][i].reads = associated[c]
      BY <1>1, <3>1 DEF BuffersListed
    <3>3. associated[c] = StagingOf(user[c]) /\ associated[c] \subseteq staging
      BY <1>1, <3>2 DEF UploadsKnown
    <3> QED
      BY <3>2, <3>3
  <2>2. \A s \in staging : \E c \in CmdBufs : user[c] = s[1] /\ place[c] \in {"recording", "executing", "signalled"}
    <3> SUFFICES ASSUME NEW s \in staging
                 PROVE  \E c \in CmdBufs : user[c] = s[1] /\ place[c] \in {"recording", "executing", "signalled"}
      OBVIOUS
    <3>1. PICK c \in CmdBufs : s \in associated[c]
      BY <1>1 DEF UploadsKnown
    <3>2. s[1] = user[c]
      BY <1>1, <3>1, BoundApart
    <3>3. place[c] \in {"recording", "executing", "signalled"}
      BY <1>1, <1>2, <3>1 DEF UploadsKnown, Places
    <3> QED
      BY <3>2, <3>3
  <2> QED
    BY <2>1, <2>2 DEF StagingOutlivesCopy
<1> QED
  BY <1>3, <1>4 DEF BuffersSound

LEMMA InvDrawnAssetsReady == StreamingInv => DrawnAssetsReady
<1> SUFFICES ASSUME StreamingInv PROVE DrawnAssetsReady
  OBVIOUS
<1>1. StreamersTyped /\ LoadsKnown /\ ResultsKnown /\ PlacesTaken
  BY DEF StreamingInv
<1>2. IndexShowsItsTexture
  <2>1. \A a \in Textures : m_loaded[a] \notin {NotLoaded, Fallback} =>
          /\ m_loaded[a].index \in 2 .. Len(m_images) - 1
          /\ m_images[m_loaded[a].index + 1] = a
    <3> SUFFICES ASSUME NEW a \in Textures, m_loaded[a] \notin {NotLoaded, Fallback}
                 PROVE  m_loaded[a].index \in 2 .. Len(m_images) - 1 /\ m_images[m_loaded[a].index + 1] = a
      OBVIOUS
    <3>1. load[a].at = "done" /\ m_loaded[a] = load[a].result
      BY <1>1 DEF LoadsKnown, Assets
    <3>2. /\ load[a].result \in [index : 2 .. Len(m_images) - 1]
          /\ m_images[load[a].result.index + 1] = a
      BY <1>1, <3>1 DEF ResultsKnown
    <3> QED
      BY <3>1, <3>2
  <2> QED
    BY <1>1, <2>1 DEF IndexShowsItsTexture, ResultsKnown
<1>3. MeshDrawnFromCopiedData
  <2>1. \A a \in Meshes : m_loaded[a] \notin {NotLoaded, NoMesh} =>
          load[a].at = "done" /\ load[a].result # NoMesh /\ a \in gpu
    BY <1>1 DEF LoadsKnown, ResultsKnown, Assets
  <2>2. ASSUME NEW a \in Meshes, NEW b \in Meshes, a # b,
               m_loaded[a] \notin {NotLoaded, NoMesh}, m_loaded[b] \notin {NotLoaded, NoMesh}
        PROVE  /\ RangesOf(a).vertices \cap RangesOf(b).vertices = {}
               /\ RangesOf(a).indices \cap RangesOf(b).indices = {}
    <3>1. HasVertices(a) /\ HasVertices(b) /\ HasPlaces(a) /\ HasPlaces(b)
      BY <2>1, <2>2 DEF HasVertices, HasPlaces
    <3>2. load[a].result \in MeshResults /\ load[b].result \in MeshResults
      BY <1>1, <3>1 DEF PlacesTaken
    <3>3. PICK v \in Nat, w \in Nat, i \in Nat, k \in Nat :
            /\ v = load[a].result.vertex_offset /\ w = load[b].result.vertex_offset
            /\ i = load[a].result.index_offset /\ k = load[b].result.index_offset
      BY <3>2 DEF MeshResults
    <3>4. v + VertexBytes <= w \/ w + VertexBytes <= v
      BY <1>1, <2>2, <3>1, <3>3 DEF PlacesTaken
    <3>5. i + IndexBytes <= k \/ k + IndexBytes <= i
      BY <1>1, <2>2, <3>1, <3>3 DEF PlacesTaken
    <3>6. (v .. v + VertexBytes - 1) \cap (w .. w + VertexBytes - 1) = {}
      BY <3>4, StreamingAssumption
    <3>7. (i .. i + IndexBytes - 1) \cap (k .. k + IndexBytes - 1) = {}
      BY <3>5, StreamingAssumption
    <3> QED
      BY <3>3, <3>6, <3>7 DEF RangesOf
  <2>3. ASSUME NEW a \in Meshes, m_loaded[a] \notin {NotLoaded, NoMesh}
        PROVE  RangesOf(a).vertices \cup RangesOf(a).indices \subseteq 0 .. buffer_size - 1
    <3>1. HasVertices(a) /\ HasPlaces(a)
      BY <2>1, <2>3 DEF HasVertices, HasPlaces
    <3>2. load[a].result \in MeshResults
      BY <1>1, <3>1 DEF PlacesTaken
    <3>3. PICK v \in Nat, i \in Nat : v = load[a].result.vertex_offset /\ i = load[a].result.index_offset
      BY <3>2 DEF MeshResults
    <3>4. v + VertexBytes < buffer_size /\ i + IndexBytes < buffer_size /\ buffer_size \in Nat
      BY <1>1, <3>1, <3>3, StreamersFacts DEF PlacesTaken
    <3>5. (v .. v + VertexBytes - 1) \cup (i .. i + IndexBytes - 1) \subseteq 0 .. buffer_size - 1
      BY <3>4, StreamingAssumption
    <3> QED
      BY <3>3, <3>5 DEF RangesOf
  <2> QED
    BY <2>1, <2>2, <2>3 DEF MeshDrawnFromCopiedData
<1> QED
  BY <1>1, <1>2, <1>3 DEF DrawnAssetsReady, LoadsKnown

(* Every command buffer is in one place and takes its staging buffers      *)
(* along, and what the renderer draws with was loaded: for any assets,     *)
(* command buffers, hardware queues and limits.                            *)
THEOREM StreamersSound == StreamingSpec => []StreamingSound
<1>1. StreamingInv => StreamingSound
  BY InvBuffersSound, InvDrawnAssetsReady DEF StreamingSound
<1> QED
  BY StreamingStarts, StreamingKeeps, <1>1, PTL DEF StreamingSpec
===============================================================================
