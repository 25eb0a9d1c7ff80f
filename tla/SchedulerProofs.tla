---------------------------- MODULE SchedulerProofs ----------------------------
(***************************************************************************)
(* Proofs about Scheduler, for any finite sets of workers and outsiders,   *)
(* any tasklets, fiber limit and priority weights: no fiber is lost,       *)
(* doubled or run by two workers (FibersSound), and the scheduler          *)
(* implements the life cycle of tasklets (ImplementsLifecycle).            *)
(*                                                                         *)
(* FibersSound is not inductive: that a fiber is in one place says nothing *)
(* of why nobody else takes it.  Inv adds what a fiber's state promises    *)
(* (StatesKnown), that who is on a fiber is alone on it (HoldersAlone),    *)
(* that fibers and tasklets point at each other (OwnersKnown), what a      *)
(* worker may be doing on its fiber (WorkersKnown), that a fiber has one   *)
(* waker (TargetsKnown), where publishing returns to (ReturnsKnown), and   *)
(* that the counts never promise more than the queues hold (Counted).      *)
(*                                                                         *)
(* Each step is shown to preserve the parts about fibers and tasklets      *)
(* (Core), the kinds of the shared data (DataTyped) and of the variables   *)
(* of a thread (LocalsTyped), and the counts, one lemma per action.        *)
(***************************************************************************)
EXTENDS Scheduler, FiniteSetTheorems, TLAPS

State(f) == fiber[f].state
Job(f) == fiber[f].tasklet
Status(t) == tasklet[t].status
Owner(t) == tasklet[t].owner

Elements(q) == {q[i] : i \in DOMAIN q}
Distinct(q) == \A i, j \in DOMAIN q : q[i] = q[j] => i = j

InTasklet(w) == pc[w] \in {"resumed", "tasklet"} \/ (pc[w] \in Publishing /\ back[w] = "tasklet")
Targeted(f) == \E a \in Actors : target[a] = f

(* What each state of a fiber means. *)
StatesKnown ==
  \A f \in Fibers :
    /\ f > created => State(f) = "Runnable" /\ Job(f) = Null
    /\ State(f) = "Runnable" /\ Job(f) # Null => f \in Elements(ready.queue)
    /\ State(f) = "Runnable" /\ Job(f) = Null /\ f <= created => f \in Elements(free)
    /\ f \in Elements(ready.queue) =>
         State(f) = "Runnable" /\ Job(f) # Null /\ Status(Job(f)) = "started"
    /\ f \in Elements(free) => State(f) = "Runnable" /\ Job(f) = Null /\ f <= created
    /\ State(f) \in {"Running", "Yielding"} =>
         \E w \in Workers : (OnFiber(w) /\ current[w] = f) \/ cleanup[w] = f
    /\ State(f) = "Suspended" => Job(f) # Null /\ (Status(Job(f)) = "waiting" \/ Targeted(f))

QueuesDistinct == Distinct(ready.queue) /\ Distinct(free) /\ Distinct(fresh.queue)

(* Who is on a fiber is alone on it. *)
HoldersAlone ==
  \A w \in Workers :
    /\ OnFiber(w) => /\ current[w] \in Fibers
                     /\ State(current[w]) \in {"Running", "Yielding"}
                     /\ State(current[w]) = "Yielding" => pc[w] = "helper"
    /\ cleanup[w] # None => /\ pc[w] = "resumed"
                            /\ State(cleanup[w]) = "Running"
                            /\ Job(cleanup[w]) = Null
    /\ \A v \in Workers :
         /\ OnFiber(w) /\ OnFiber(v) /\ current[w] = current[v] => w = v
         /\ cleanup[w] # None /\ cleanup[w] = cleanup[v] => w = v
         /\ cleanup[w] # None /\ OnFiber(v) => current[v] # cleanup[w]

(* Fibers and the tasklets on them. *)
OwnersKnown ==
  /\ \A f \in Fibers :
       Job(f) # Null => Owner(Job(f)) = f /\ Status(Job(f)) \in {"started", "waiting"}
  /\ \A t \in Tasklets :
       /\ Status(t) \in {"started", "waiting"} => Owner(t) \in Fibers /\ Job(Owner(t)) = t
       /\ Status(t) \in {"new", "queued"} => Owner(t) = None
       /\ t \in Elements(fresh.queue) => Status(t) = "queued"

(* What a worker does fits the fiber it is on. *)
WorkersKnown ==
  \A w \in Workers :
    /\ pc[w] \in InLoop \cup {"exited"} => Job(current[w]) = Null
    /\ InTasklet(w) => Job(current[w]) # Null /\ Status(Job(current[w])) = "started"
                       /\ ~Targeted(current[w])
    /\ pc[w] = "helper" =>
         /\ Job(current[w]) # Null
         /\ State(current[w]) = "Running" => Status(Job(current[w])) = "waiting" \/ Targeted(current[w])
         /\ State(current[w]) = "Yielding" => Status(Job(current[w])) = "started" /\ ~Targeted(current[w])

(* A fiber has one waker at a time. *)
TargetsKnown ==
  \A a \in Actors :
    /\ target[a] # None <=> pc[a] = "unsuspend"
    /\ target[a] # None => /\ State(target[a]) \in {"Running", "Suspended"}
                           /\ Job(target[a]) # Null
                           /\ Status(Job(target[a])) = "started"
    /\ \A b \in Actors : target[a] # None /\ target[a] = target[b] => a = b

(* Where publishing goes on. *)
ReturnsKnown ==
  /\ \A w \in Workers :
       /\ pc[w] \notin {"outside", "joining", "clear", "joined"}
       /\ pc[w] \in Publishing => back[w] \in {"tasklet", "choose"}
       /\ pc[w] = "choose" \/ (pc[w] \in Publishing /\ back[w] = "choose") => current[w] \in Fibers
  /\ \A o \in Outsiders :
       /\ pc[o] \in Publishing \cup {"outside", "joining", "clear", "joined"}
       /\ back[o] = "outside"

Started == {w \in Workers : pc[w] \notin {"start", "exited"}}

Counted == CountsBacked /\ alive = Cardinality(Started)

Inv ==
  /\ TypeOK /\ StatesKnown /\ QueuesDistinct /\ HoldersAlone /\ OwnersKnown
  /\ WorkersKnown /\ TargetsKnown /\ ReturnsKnown /\ Counted

-----------------------------------------------------------------------------
(* Queues. *)

LEMMA Appended ==
  ASSUME NEW S, NEW q \in Seq(S), NEW x \in S
  PROVE  /\ Append(q, x) \in Seq(S)
         /\ Len(Append(q, x)) = Len(q) + 1
         /\ Elements(Append(q, x)) = Elements(q) \cup {x}
         /\ Distinct(q) /\ x \notin Elements(q) => Distinct(Append(q, x))
<1>1. /\ Append(q, x) \in Seq(S) /\ Len(Append(q, x)) = Len(q) + 1 /\ Len(q) \in Nat
      /\ DOMAIN q = 1 .. Len(q) /\ DOMAIN Append(q, x) = 1 .. Len(q) + 1
      /\ \A i \in 1 .. Len(q) : Append(q, x)[i] = q[i]
      /\ Append(q, x)[Len(q) + 1] = x
  OBVIOUS
<1>2. \A i : i \in 1 .. Len(q) + 1 <=> i \in 1 .. Len(q) \/ i = Len(q) + 1
  BY <1>1
<1>3. Elements(Append(q, x)) = Elements(q) \cup {x}
  BY <1>1, <1>2 DEF Elements
<1>4. ASSUME Distinct(q), x \notin Elements(q) PROVE Distinct(Append(q, x))
  BY <1>1, <1>2, <1>4 DEF Elements, Distinct
<1> QED
  BY <1>1, <1>3, <1>4

LEMMA Dequeued ==
  ASSUME NEW S, NEW q \in Seq(S), Len(q) > 0
  PROVE  /\ Head(q) \in S /\ Head(q) \in Elements(q)
         /\ Tail(q) \in Seq(S)
         /\ Len(Tail(q)) = Len(q) - 1
         /\ Elements(Tail(q)) \subseteq Elements(q)
         /\ Elements(q) \subseteq Elements(Tail(q)) \cup {Head(q)}
         /\ Distinct(q) => Distinct(Tail(q)) /\ Head(q) \notin Elements(Tail(q))
<1>1. /\ Len(q) \in Nat /\ DOMAIN q = 1 .. Len(q) /\ Head(q) = q[1]
      /\ Tail(q) \in Seq(S) /\ Len(Tail(q)) = Len(q) - 1
      /\ DOMAIN Tail(q) = 1 .. Len(q) - 1
      /\ \A i \in 1 .. Len(q) - 1 : Tail(q)[i] = q[i + 1]
      /\ \A i \in 1 .. Len(q) : q[i] \in S
  OBVIOUS
<1>2. Head(q) \in S /\ Head(q) \in Elements(q)
  BY <1>1 DEF Elements
<1>3. \A i \in 1 .. Len(q) - 1 : i + 1 \in 1 .. Len(q)
  BY <1>1
<1>4. Elements(Tail(q)) \subseteq Elements(q)
  BY <1>1, <1>3 DEF Elements
<1>5. Elements(q) \subseteq Elements(Tail(q)) \cup {Head(q)}
  <2>1. \A i \in 1 .. Len(q) : i = 1 \/ (i - 1 \in 1 .. Len(q) - 1 /\ Tail(q)[i - 1] = q[i])
    BY <1>1
  <2> SUFFICES ASSUME NEW i \in 1 .. Len(q), q[i] # Head(q)
               PROVE  q[i] \in Elements(Tail(q))
    BY <1>1 DEF Elements
  <2> QED
    BY <1>1, <2>1 DEF Elements
<1>6. ASSUME Distinct(q) PROVE Distinct(Tail(q)) /\ Head(q) \notin Elements(Tail(q))
  BY <1>1, <1>3, <1>6 DEF Elements, Distinct
<1> QED
  BY <1>1, <1>2, <1>4, <1>5, <1>6

LEMMA EmptyQueue == Elements(<<>>) = {} /\ Distinct(<<>>)
BY DEF Elements, Distinct

-----------------------------------------------------------------------------

LEMMA InitInv == Init => Inv
<1> SUFFICES ASSUME Init PROVE Inv
  OBVIOUS
<1> USE SchedulerAssumption DEF Init
<1>1. \A a : a \in Actors <=> a \in Workers \/ a \in Outsiders
  BY DEF Actors
<1>2. \A a \in Actors : pc[a] \in {"start", "outside"}
  BY DEF Actors
<1>3. 1 \in DOMAIN Weights /\ Weights[1] \in Nat \ {0} /\ Len(Weights) \in Nat \ {0}
  OBVIOUS
<1>4. TypeOK
  <2>1. 1 \in Counters
    BY <1>3 DEF Counters
  <2>2. fiber \in [Fibers -> [state : FiberStates, tasklet : Tasklets \cup {Null},
                              level : 0 .. Len(Weights) - 1, counter : Counters]]
    BY <1>3, <2>1 DEF NewFiber, FiberStates
  <2>3. Cardinality(Workers) \in Nat
    BY FS_CardinalityType
  <2>4. /\ pc \in [Actors -> Locations]
        /\ target \in [Actors -> Fibers \cup {None}]
        /\ back \in [Actors -> {"outside", "tasklet", "choose"}]
        /\ current \in [Workers -> Fibers \cup {None}]
        /\ cleanup \in [Workers -> Fibers \cup {None}]
    BY DEF Locations, InHelper
  <2>5. tasklet \in [Tasklets -> [owner : Fibers \cup {None},
                                  status : {"new", "queued", "started", "waiting", "done"}]]
    OBVIOUS
  <2>6. /\ ready \in [queue : Seq(Fibers), count : Nat]
        /\ fresh \in [queue : Seq(Tasklets), count : Nat]
        /\ free \in Seq(Fibers)
    OBVIOUS
  <2>7. /\ created \in 0 .. FiberLimit /\ permits \in Nat /\ running \in BOOLEAN
        /\ alive \in 0 .. Cardinality(Workers) /\ pauses \in 0 .. MaxPauses
    BY <2>3
  <2> QED
    BY <2>2, <2>4, <2>5, <2>6, <2>7 DEF TypeOK
<1>5. \A f \in Fibers : f > created /\ State(f) = "Runnable" /\ Job(f) = Null
  BY DEF Fibers, State, Job, NewFiber
<1>6. StatesKnown /\ QueuesDistinct
  <2>1. ready.queue = <<>> /\ fresh.queue = <<>>
    OBVIOUS
  <2>2. StatesKnown
    BY <1>5, <2>1, EmptyQueue DEF StatesKnown, Fibers
  <2> QED
    BY <2>1, <2>2, EmptyQueue DEF QueuesDistinct
<1>7. HoldersAlone /\ WorkersKnown
  BY <1>1, <1>2 DEF HoldersAlone, WorkersKnown, OnFiber, InTasklet, InLoop, Publishing
<1>8. OwnersKnown
  BY <1>5, EmptyQueue DEF OwnersKnown, Status, Owner
<1>9. TargetsKnown /\ ReturnsKnown
  BY <1>1, <1>2 DEF TargetsKnown, ReturnsKnown, Publishing
<1>10. Counted
  <2>1. At("count_fiber") = {} /\ At("count_tasklet") = {} /\ Started = {}
    BY <1>1 DEF At, Started
  <2>2. Cardinality({}) = 0
    BY FS_EmptySet
  <2>3. ready.count = 0 /\ fresh.count = 0 /\ Len(ready.queue) = 0 /\ Len(fresh.queue) = 0
    OBVIOUS
  <2>4. CountsBacked
    <3>1. Cardinality(At("count_fiber")) = 0 /\ Cardinality(At("count_tasklet")) = 0
      BY <2>1, <2>2
    <3> HIDE DEF Init
    <3> QED
      BY <2>3, <3>1 DEF CountsBacked
  <2> QED
    BY <2>1, <2>2, <2>4 DEF Counted
<1> QED
  BY <1>4, <1>6, <1>7, <1>8, <1>9, <1>10 DEF Inv

-----------------------------------------------------------------------------
(* Steps that change who is where in name only. *)

Core == StatesKnown /\ QueuesDistinct /\ HoldersAlone /\ OwnersKnown /\ WorkersKnown /\ TargetsKnown

Looping(w) == pc[w] \in InLoop \cup {"exited"}

(* The places of the code that the invariant tells apart. *)
PlacesStay ==
  /\ \A w \in Workers :
       /\ OnFiber(w)' <=> OnFiber(w)
       /\ Looping(w)' <=> Looping(w)
       /\ InTasklet(w)' <=> InTasklet(w)
       /\ pc'[w] = "helper" <=> pc[w] = "helper"
       /\ pc'[w] = "resumed" <=> pc[w] = "resumed"
  /\ \A a \in Actors : pc'[a] = "unsuspend" <=> pc[a] = "unsuspend"

FibersStay == \A f \in Fibers : State(f)' = State(f) /\ Job(f)' = Job(f)

LEMMA QuietStep ==
  ASSUME Inv, PlacesStay, FibersStay, ready'.queue = ready.queue, fresh'.queue = fresh.queue,
         UNCHANGED <<target, current, cleanup, free, created, tasklet>>
  PROVE  Core'
<1>1. \A f \in Fibers : Targeted(f)' <=> Targeted(f)
  BY DEF Targeted
<1>2. \A f \in Fibers : State(f)' = State(f) /\ Job(f)' = Job(f)
  BY DEF FibersStay
<1>3. \A t : Status(t)' = Status(t) /\ Owner(t)' = Owner(t)
  BY DEF Status, Owner
<1>0. /\ \A w \in Workers : cleanup[w] # None => cleanup[w] \in Fibers
      /\ \A a \in Actors : target[a] # None => target[a] \in Fibers
  BY DEF Inv, TypeOK
<1>4. StatesKnown'
  BY <1>1, <1>2, <1>3 DEF Inv, StatesKnown, PlacesStay
<1>5. QueuesDistinct'
  BY DEF Inv, QueuesDistinct
<1>6. HoldersAlone'
  BY <1>0, <1>2 DEF Inv, HoldersAlone, PlacesStay, State, Job
<1>7. OwnersKnown'
  BY <1>2, <1>3 DEF Inv, OwnersKnown
<1>8. WorkersKnown'
  BY <1>2 DEF Inv, WorkersKnown, HoldersAlone, PlacesStay, Looping, InTasklet, OnFiber, State, Job, Status, Targeted
<1>9. TargetsKnown'
  BY <1>0, <1>2 DEF Inv, TargetsKnown, PlacesStay, State, Job, Status
<1> QED
  BY <1>4, <1>5, <1>6, <1>7, <1>8, <1>9 DEF Core

-----------------------------------------------------------------------------
(* Steps that take a fiber. *)

(* The state of one fiber changes, no tasklet moves. *)
StateBecomes(f, s) ==
  \A g \in Fibers : State(g)' = (IF g = f THEN s ELSE State(g)) /\ Job(g)' = Job(g)

(* The fiber leaves the queue it was in. *)
Leaves(f) ==
  /\ \A g \in Fibers : g \in Elements(ready.queue)' <=> g \in Elements(ready.queue) /\ g # f
  /\ \A g \in Fibers : g \in Elements(free)' <=> g \in Elements(free) /\ g # f
  /\ Distinct(ready.queue)' /\ Distinct(free)'
  /\ fresh'.queue = fresh.queue
  /\ created \in Nat /\ (created' = created \/ (created' = created + 1 /\ f = created'))
  /\ f <= created'

(* The worker is on the fiber now, all others are where they were. *)
Switches(w, f) ==
  /\ current' = [current EXCEPT ![w] = f]
  /\ Goto(w, IF Job(f) = Null THEN "loop" ELSE "resumed")
  /\ UNCHANGED <<target, back, tasklet>>

LEMMA OthersStay ==
  ASSUME Inv, NEW w \in Workers, NEW l, Goto(w, l), back' = back, l \in Locations
  PROVE  /\ pc'[w] = l
         /\ \A v \in Workers : v # w =>
              /\ pc'[v] = pc[v]
              /\ OnFiber(v)' <=> OnFiber(v)
              /\ InTasklet(v)' <=> InTasklet(v)
         /\ \A a \in Actors : a # w => pc'[a] = pc[a]
BY DEF Inv, TypeOK, Goto, Actors, OnFiber, InTasklet

LEMMA TakeStep ==
  ASSUME Inv, NEW w \in Workers, ~OnFiber(w), pc[w] # "unsuspend", NEW f \in Fibers,
         State(f) = "Runnable", StateBecomes(f, "Running"), Leaves(f), Switches(w, f),
         UNCHANGED cleanup
  PROVE  Core'
<1>1. /\ pc'[w] = IF Job(f) = Null THEN "loop" ELSE "resumed"
      /\ current'[w] = f
      /\ \A v \in Workers : v # w => /\ pc'[v] = pc[v]
                                     /\ current'[v] = current[v]
                                     /\ OnFiber(v)' <=> OnFiber(v)
                                     /\ InTasklet(v)' <=> InTasklet(v)
      /\ \A a \in Actors : a # w => pc'[a] = pc[a]
      /\ OnFiber(w)' /\ (InTasklet(w)' <=> Job(f) # Null)
  <2>1. "loop" \in Locations /\ "resumed" \in Locations
    BY DEF Locations, InLoop
  <2>2. current'[w] = f /\ \A v \in Workers : v # w => current'[v] = current[v]
    BY DEF Inv, TypeOK, Switches
  <2>3. pc'[w] = IF Job(f) = Null THEN "loop" ELSE "resumed"
    BY <2>1, OthersStay DEF Switches
  <2>4. OnFiber(w)' /\ (InTasklet(w)' <=> Job(f) # Null)
    BY <2>3 DEF OnFiber, InTasklet, InLoop, Publishing
  <2> QED
    BY <2>1, <2>2, <2>3, <2>4, OthersStay DEF Switches
<1>2. \A g \in Fibers : Targeted(g)' <=> Targeted(g)
  BY DEF Targeted, Switches
<1>3. \A t : Status(t)' = Status(t) /\ Owner(t)' = Owner(t)
  BY DEF Status, Owner, Switches
<1>4. /\ \A v \in Workers : OnFiber(v) => current[v] # f
      /\ \A v \in Workers : cleanup[v] # f
      /\ cleanup[w] = None
      /\ ~Targeted(f)
      /\ Job(f) # Null => Status(Job(f)) = "started"
  <2>1. \A v \in Workers : (OnFiber(v) => current[v] # f) /\ (cleanup[v] = f => f = None)
    BY DEF Inv, HoldersAlone
  <2>2. f # None /\ cleanup[w] = None
    BY DEF Inv, HoldersAlone, OnFiber, Fibers, None
  <2>3. ~Targeted(f)
    BY <2>2 DEF Inv, TargetsKnown, Targeted
  <2> QED
    BY <2>1, <2>2, <2>3 DEF Inv, StatesKnown
<1>5. StatesKnown'
  BY <1>1, <1>2, <1>3, <1>4 DEF Inv, StatesKnown, StateBecomes, Leaves, Fibers
<1>6. QueuesDistinct'
  BY DEF Inv, QueuesDistinct, Leaves
<1>7. HoldersAlone'
  <2>1. \A v \in Workers : /\ cleanup[v] # None => cleanup[v] \in Fibers
                           /\ OnFiber(v) => current[v] \in Fibers
    BY DEF Inv, TypeOK, HoldersAlone
  <2>2. \A g \in Fibers : g # f => fiber'[g].state = fiber[g].state
    BY DEF StateBecomes, State
  <2>3. fiber'[f].state = "Running" /\ \A g \in Fibers : fiber'[g].tasklet = fiber[g].tasklet
    BY DEF StateBecomes, State, Job
  <2> QED
    BY <1>1, <1>4, <2>1, <2>2, <2>3 DEF Inv, HoldersAlone, State, Job
<1>8. OwnersKnown'
  BY <1>3 DEF Inv, OwnersKnown, StateBecomes, Leaves
<1>9. WorkersKnown'
  <2>1. \A v \in Workers : v # w => (Looping(v)' <=> Looping(v))
    BY <1>1 DEF Looping
  <2>2. Looping(w)' <=> Job(f) = Null
    BY <1>1 DEF Looping, InLoop
  <2>3. \A v \in Workers : OnFiber(v) => current[v] \in Fibers /\ current[v] # f
    BY <1>4 DEF Inv, HoldersAlone
  <2>4. /\ \A g \in Fibers : g # f => fiber'[g].state = fiber[g].state
        /\ \A g \in Fibers : fiber'[g].tasklet = fiber[g].tasklet
    BY DEF StateBecomes, State, Job
  <2>5. \A v \in Workers : Looping(v) \/ InTasklet(v) \/ pc[v] = "helper" => OnFiber(v)
    BY DEF Looping, InTasklet, OnFiber
  <2> QED
    BY <1>1, <1>4, <2>1, <2>2, <2>3, <2>4, <2>5
       DEF Inv, WorkersKnown, Looping, Switches, State, Job, Status, Targeted
<1>10. TargetsKnown'
  BY <1>1, <1>3, <1>4 DEF Inv, TypeOK, TargetsKnown, StateBecomes, Switches, State, Job, Status
<1> QED
  BY <1>5, <1>6, <1>7, <1>8, <1>9, <1>10 DEF Core

(* A ready fiber replaces the one in its loop, which waits for its cleanup. *)
LEMMA ReplaceStep ==
  ASSUME Inv, NEW w \in Workers, pc[w] \in InLoop, NEW f \in Fibers,
         f \in Elements(ready.queue), StateBecomes(f, "Running"), Leaves(f), Switches(w, f),
         cleanup' = [cleanup EXCEPT ![w] = current[w]]
  PROVE  Core'
<1>0. /\ OnFiber(w) /\ current[w] \in Fibers /\ State(current[w]) = "Running"
      /\ Job(current[w]) = Null
      /\ cleanup[w] = None /\ current[w] # None
      /\ pc[w] # "unsuspend" /\ pc[w] # "helper"
      /\ State(f) = "Runnable" /\ Job(f) # Null /\ Status(Job(f)) = "started"
      /\ created' = created
  <2>1. OnFiber(w) /\ pc[w] # "unsuspend" /\ pc[w] # "helper" /\ pc[w] # "resumed"
    BY DEF OnFiber, InLoop
  <2>2. current[w] \in Fibers /\ State(current[w]) = "Running" /\ cleanup[w] = None
    BY <2>1 DEF Inv, HoldersAlone
  <2>3. Job(current[w]) = Null
    BY DEF Inv, WorkersKnown
  <2>4. State(f) = "Runnable" /\ Job(f) # Null /\ Status(Job(f)) = "started" /\ ~(f > created)
    BY DEF Inv, StatesKnown
  <2> QED
    BY <2>1, <2>2, <2>3, <2>4 DEF Leaves, Fibers, None
<1>1. /\ pc'[w] = "resumed"
      /\ current'[w] = f /\ cleanup'[w] = current[w]
      /\ \A v \in Workers : v # w => /\ pc'[v] = pc[v]
                                     /\ current'[v] = current[v]
                                     /\ cleanup'[v] = cleanup[v]
                                     /\ OnFiber(v)' <=> OnFiber(v)
                                     /\ InTasklet(v)' <=> InTasklet(v)
      /\ \A a \in Actors : a # w => pc'[a] = pc[a]
      /\ OnFiber(w)' /\ InTasklet(w)' /\ ~Looping(w)'
  <2>1. "resumed" \in Locations
    BY DEF Locations
  <2>2. current'[w] = f /\ \A v \in Workers : v # w => current'[v] = current[v]
    BY DEF Inv, TypeOK, Switches
  <2>3. pc'[w] = "resumed"
    BY <1>0, <2>1, OthersStay DEF Switches
  <2>4. OnFiber(w)' /\ InTasklet(w)' /\ ~Looping(w)'
    BY <2>3 DEF OnFiber, InTasklet, Looping, InLoop
  <2>5. cleanup'[w] = current[w] /\ \A v \in Workers : v # w => cleanup'[v] = cleanup[v]
    BY DEF Inv, TypeOK
  <2> QED
    BY <1>0, <2>1, <2>2, <2>3, <2>4, <2>5, OthersStay DEF Switches
<1>2. \A g \in Fibers : Targeted(g)' <=> Targeted(g)
  BY DEF Targeted, Switches
<1>3. \A t : Status(t)' = Status(t) /\ Owner(t)' = Owner(t)
  BY DEF Status, Owner, Switches
<1>4. /\ \A v \in Workers : OnFiber(v) => current[v] \in Fibers /\ current[v] # f
      /\ \A v \in Workers : OnFiber(v) /\ current[v] = current[w] => v = w
      /\ \A v \in Workers : cleanup[v] # f /\ cleanup[v] # current[w]
      /\ \A v \in Workers : cleanup[v] # None => cleanup[v] \in Fibers
      /\ current[w] # f
      /\ ~Targeted(f)
  <2>1. f # None
    BY DEF Fibers, None
  <2> QED
    BY <1>0, <2>1 DEF Inv, TypeOK, HoldersAlone, TargetsKnown, Targeted
<1>5. /\ \A g \in Fibers : g # f => fiber'[g].state = fiber[g].state
      /\ fiber'[f].state = "Running"
      /\ \A g \in Fibers : fiber'[g].tasklet = fiber[g].tasklet
  BY DEF StateBecomes, State, Job
<1>6. StatesKnown'
  <2>1. ASSUME NEW g \in Fibers, State(g)' \in {"Running", "Yielding"}
        PROVE  \E v \in Workers : (OnFiber(v)' /\ current'[v] = g) \/ cleanup'[v] = g
    <3>1. CASE g = f \/ g = current[w]
      BY <1>1, <3>1
    <3>2. CASE g # f /\ g # current[w]
      <4>1. State(g) \in {"Running", "Yielding"}
        BY <2>1, <3>2 DEF StateBecomes
      <4>2. PICK v \in Workers : (OnFiber(v) /\ current[v] = g) \/ cleanup[v] = g
        BY <4>1 DEF Inv, StatesKnown
      <4>3. v # w
        BY <1>0, <3>2, <4>2 DEF Fibers, None
      <4> QED
        BY <1>1, <4>2, <4>3
    <3> QED
      BY <3>1, <3>2
  <2>2. ASSUME NEW g \in Fibers
        PROVE  /\ g > created' => State(g)' = "Runnable" /\ Job(g)' = Null
               /\ State(g)' = "Runnable" /\ Job(g)' # Null => g \in Elements(ready.queue)'
               /\ State(g)' = "Runnable" /\ Job(g)' = Null /\ g <= created' => g \in Elements(free)'
               /\ g \in Elements(ready.queue)' =>
                    State(g)' = "Runnable" /\ Job(g)' # Null /\ Status(Job(g))' = "started"
               /\ g \in Elements(free)' => State(g)' = "Runnable" /\ Job(g)' = Null /\ g <= created'
               /\ State(g)' = "Suspended" =>
                    Job(g)' # Null /\ (Status(Job(g))' = "waiting" \/ Targeted(g)')
    BY <1>0, <1>2, <1>3 DEF Inv, StatesKnown, StateBecomes, Leaves, Fibers
  <2> QED
    BY <2>1, <2>2 DEF StatesKnown
<1>7. QueuesDistinct'
  BY DEF Inv, QueuesDistinct, Leaves
<1>8. HoldersAlone'
  BY <1>0, <1>1, <1>4, <1>5 DEF Inv, HoldersAlone, State, Job
<1>9. OwnersKnown'
  BY <1>3 DEF Inv, OwnersKnown, StateBecomes, Leaves
<1>10. WorkersKnown'
  <2>1. \A v \in Workers : v # w => (Looping(v)' <=> Looping(v))
    BY <1>1 DEF Looping
  <2>2. \A v \in Workers : Looping(v) \/ InTasklet(v) \/ pc[v] = "helper" => OnFiber(v)
    BY DEF Looping, InTasklet, OnFiber
  <2> QED
    BY <1>0, <1>1, <1>4, <1>5, <2>1, <2>2
       DEF Inv, WorkersKnown, Looping, Switches, State, Job, Status, Targeted
<1>11. TargetsKnown'
  BY <1>0, <1>1, <1>3, <1>4 DEF Inv, TypeOK, TargetsKnown, StateBecomes, Switches, State, Job, Status
<1> QED
  BY <1>6, <1>7, <1>8, <1>9, <1>10, <1>11 DEF Core

-----------------------------------------------------------------------------
(* Steps of tasklets. *)

(* One worker goes somewhere else, on the fiber it is on. *)
Moves(w, l) ==
  /\ Goto(w, l)
  /\ UNCHANGED <<back, current, created, free>>
  /\ ready'.queue = ready.queue

JobBecomes(f, t) ==
  \A g \in Fibers : State(g)' = State(g) /\ Job(g)' = (IF g = f THEN t ELSE Job(g))

StatusBecomes(t, s) ==
  \A u \in Tasklets : Status(u)' = (IF u = t THEN s ELSE Status(u)) /\ Owner(u)' = Owner(u)

(* A tasklet starts on the fiber of the worker that found it. *)
LEMMA BeginStep ==
  ASSUME Inv, NEW w \in Workers, pc[w] \in InLoop, NEW t \in Tasklets,
         t \in Elements(fresh.queue), JobBecomes(current[w], t),
         tasklet' = [tasklet EXCEPT ![t] = [owner |-> current[w], status |-> "started"]],
         Elements(fresh.queue)' \subseteq Elements(fresh.queue) \ {t}, Distinct(fresh.queue)',
         Moves(w, "tasklet"), UNCHANGED <<target, cleanup>>
  PROVE  Core'
<1>1. /\ OnFiber(w) /\ current[w] \in Fibers /\ State(current[w]) = "Running"
      /\ Job(current[w]) = Null
      /\ \A v \in Workers : v # w /\ OnFiber(v) => current[v] # current[w]
      /\ ~Targeted(current[w])
      /\ cleanup[w] = None
  <2>1. OnFiber(w) /\ pc[w] # "helper" /\ pc[w] # "resumed"
    BY DEF OnFiber, InLoop
  <2>2. current[w] \in Fibers /\ State(current[w]) = "Running" /\ Job(current[w]) = Null
    BY <2>1 DEF Inv, HoldersAlone, WorkersKnown
  <2>3. current[w] # None
    BY <2>2 DEF Fibers, None
  <2> QED
    BY <2>1, <2>2, <2>3 DEF Inv, HoldersAlone, TargetsKnown, Targeted
<1>2. /\ pc'[w] = "tasklet" /\ OnFiber(w)' /\ InTasklet(w)' /\ ~Looping(w)'
      /\ \A v \in Workers : v # w => /\ pc'[v] = pc[v]
                                     /\ OnFiber(v)' <=> OnFiber(v)
                                     /\ InTasklet(v)' <=> InTasklet(v)
                                     /\ Looping(v)' <=> Looping(v)
      /\ \A a \in Actors : pc'[a] = "unsuspend" <=> pc[a] = "unsuspend"
  <2>1. pc'[w] = "tasklet"
    BY OthersStay DEF Moves, Locations
  <2>2. OnFiber(w)' /\ InTasklet(w)' /\ ~Looping(w)'
    BY <2>1 DEF OnFiber, InTasklet, Looping, InLoop
  <2>3. "tasklet" \in Locations /\ pc[w] # "unsuspend"
    BY DEF Locations, InLoop
  <2> QED
    BY <2>1, <2>2, <2>3, OthersStay DEF Moves, Looping
<1>3. /\ Status(t) = "queued" /\ t # Null
      /\ \A g \in Fibers : Job(g) # t
      /\ \A u \in Tasklets \ {t} : Status(u)' = Status(u) /\ Owner(u)' = Owner(u)
      /\ Status(t)' = "started" /\ Owner(t)' = current[w]
  <2>1. Status(t) = "queued" /\ t # Null
    BY SchedulerAssumption DEF Inv, OwnersKnown
  <2>2. \A g \in Fibers : Job(g) # t
    BY <2>1 DEF Inv, OwnersKnown
  <2>3. t \in DOMAIN tasklet /\ DOMAIN tasklet = Tasklets
    BY DEF Inv, TypeOK
  <2> QED
    BY <2>1, <2>2, <2>3 DEF Status, Owner
<1>4. \A g \in Fibers : Targeted(g)' <=> Targeted(g)
  BY DEF Targeted
<1>5. \A g \in Fibers : Job(g) \in Tasklets \cup {Null}
  BY DEF Inv, TypeOK, Job
<1>6. /\ \A g \in Fibers : g # current[w] => fiber'[g].tasklet = fiber[g].tasklet
      /\ fiber'[current[w]].tasklet = t
      /\ \A g \in Fibers : fiber'[g].state = fiber[g].state
  BY <1>1 DEF JobBecomes, State, Job
<1>7. \A v \in Workers : /\ cleanup[v] # None => cleanup[v] \in Fibers /\ cleanup[v] # current[w]
                         /\ OnFiber(v) => current[v] \in Fibers
  BY <1>1 DEF Inv, TypeOK, HoldersAlone
<1>8. StatesKnown'
  BY <1>1, <1>2, <1>3, <1>4, <1>5 DEF Inv, StatesKnown, JobBecomes, Moves
<1>9. QueuesDistinct'
  BY DEF Inv, QueuesDistinct, Moves
<1>10. HoldersAlone'
  BY <1>1, <1>2, <1>6, <1>7 DEF Inv, HoldersAlone, Moves, State, Job
<1>11. OwnersKnown'
  <2>1. \A g \in Fibers : /\ g # current[w] => Job(g)' = Job(g) /\ Job(g) # t
                          /\ g = current[w] => Job(g)' = t
    BY <1>3 DEF JobBecomes
  <2>2. ASSUME NEW g \in Fibers, Job(g)' # Null
        PROVE  Owner(Job(g))' = g /\ Status(Job(g))' \in {"started", "waiting"}
    <3>1. CASE g = current[w]
      BY <1>3, <1>6, <3>1 DEF Owner, Status, Job
    <3>2. CASE g # current[w]
      <4>1. /\ fiber'[g].tasklet = fiber[g].tasklet /\ fiber[g].tasklet \in Tasklets \ {t}
            /\ Owner(fiber[g].tasklet) = g /\ Status(fiber[g].tasklet) \in {"started", "waiting"}
        BY <1>5, <1>6, <2>1, <2>2, <3>2 DEF Inv, OwnersKnown, Job
      <4> QED
        BY <1>3, <4>1 DEF Job, Owner, Status
    <3> QED
      BY <3>1, <3>2
  <2>3. ASSUME NEW u \in Tasklets, Status(u)' \in {"started", "waiting"}
        PROVE  Owner(u)' \in Fibers /\ Job(Owner(u))' = u
    <3>1. CASE u = t
      BY <1>1, <1>3, <1>6, <3>1 DEF Owner, Job
    <3>2. CASE u # t
      <4>1. Owner(u) \in Fibers /\ Job(Owner(u)) = u /\ Owner(u)' = Owner(u)
        BY <1>3, <2>3, <3>2 DEF Inv, OwnersKnown
      <4>2. Owner(u) # current[w]
        BY <1>1, <4>1, SchedulerAssumption
      <4> QED
        BY <1>6, <4>1, <4>2 DEF Owner, Job
    <3> QED
      BY <3>1, <3>2
  <2>4. \A u \in Tasklets :
          /\ Status(u)' \in {"new", "queued"} => Owner(u)' = None
          /\ u \in Elements(fresh.queue)' => Status(u)' = "queued"
    BY <1>3 DEF Inv, OwnersKnown
  <2> QED
    BY <2>2, <2>3, <2>4 DEF OwnersKnown
<1>12. WorkersKnown'
  <2>1. \A v \in Workers : Looping(v) \/ InTasklet(v) \/ pc[v] = "helper" => OnFiber(v)
    BY DEF Looping, InTasklet, OnFiber
  <2>2. \A u \in Tasklets \ {t} : tasklet'[u].status = tasklet[u].status
    BY <1>3 DEF Status
  <2>3. tasklet'[t].status = "started"
    BY <1>3 DEF Status
  <2>4. \A g \in Fibers : fiber[g].tasklet # t /\ fiber[g].tasklet \in Tasklets \cup {Null}
    BY <1>3, <1>5 DEF Job
  <2> QED
    BY <1>1, <1>2, <1>3, <1>6, <1>7, <2>1, <2>2, <2>3, <2>4
       DEF Inv, WorkersKnown, Looping, Moves, State, Job, Status, Targeted
<1>13. TargetsKnown'
  <2>1. \A a \in Actors : target[a] # None => target[a] \in Fibers /\ target[a] # current[w]
    BY <1>1 DEF Inv, TypeOK, Targeted
  <2>2. \A u \in Tasklets \ {t} : tasklet'[u].status = tasklet[u].status
    BY <1>3 DEF Status
  <2>4. \A g \in Fibers : fiber[g].tasklet # t /\ fiber[g].tasklet \in Tasklets \cup {Null}
    BY <1>3, <1>5 DEF Job
  <2> QED
    BY <1>2, <1>6, <2>1, <2>2, <2>4 DEF Inv, TargetsKnown, State, Job, Status
<1> QED
  BY <1>8, <1>9, <1>10, <1>11, <1>12, <1>13 DEF Core

(* A tasklet on a fiber goes on, pauses or returns.  What the steps below  *)
(* have in common.                                                         *)
LEMMA RunningTasklet ==
  ASSUME Inv, NEW w \in Workers, pc[w] \in {"tasklet", "resumed", "helper"}
  PROVE  /\ OnFiber(w) /\ current[w] \in Fibers /\ current[w] # None
         /\ Job(current[w]) \in Tasklets
         /\ \A v \in Workers : v # w /\ OnFiber(v) => current[v] # current[w]
         /\ \A v \in Workers : cleanup[v] # current[w]
         /\ pc[w] # "helper" =>
              /\ State(current[w]) = "Running"
              /\ Status(Job(current[w])) = "started"
              /\ ~Targeted(current[w])
         /\ State(current[w]) \in {"Running", "Yielding"}
<1>1. OnFiber(w)
  BY DEF OnFiber
<1>2. current[w] \in Fibers /\ current[w] # None
  BY <1>1 DEF Inv, HoldersAlone, Fibers, None
<1>3. Job(current[w]) \in Tasklets
  BY <1>2 DEF Inv, TypeOK, WorkersKnown, InTasklet, Job
<1>4. pc[w] # "helper" => InTasklet(w)
  BY DEF InTasklet
<1> QED
  BY <1>1, <1>2, <1>3, <1>4 DEF Inv, HoldersAlone, WorkersKnown

LEMMA MovedWorker ==
  ASSUME Inv, NEW w \in Workers, NEW l \in Locations, Moves(w, l),
         pc[w] # "unsuspend", l # "unsuspend"
  PROVE  /\ pc'[w] = l
         /\ \A v \in Workers : v # w => /\ pc'[v] = pc[v]
                                        /\ OnFiber(v)' <=> OnFiber(v)
                                        /\ InTasklet(v)' <=> InTasklet(v)
                                        /\ Looping(v)' <=> Looping(v)
         /\ \A a \in Actors : pc'[a] = "unsuspend" <=> pc[a] = "unsuspend"
BY OthersStay DEF Moves, Looping

LEMMA ReturnStep ==
  ASSUME Inv, NEW w \in Workers, pc[w] = "tasklet", JobBecomes(current[w], Null),
         StatusBecomes(Job(current[w]), "done"), Moves(w, "loop"),
         fresh'.queue = fresh.queue, UNCHANGED <<target, cleanup>>
  PROVE  Core'
<1> DEFINE f == current[w]
           t == Job(current[w])
<1>1. /\ OnFiber(w) /\ f \in Fibers /\ t \in Tasklets /\ State(f) = "Running"
      /\ \A v \in Workers : v # w /\ OnFiber(v) => current[v] # f
      /\ \A v \in Workers : cleanup[v] # f
      /\ ~Targeted(f) /\ Status(t) = "started"
  BY RunningTasklet
<1>2. /\ pc'[w] = "loop" /\ OnFiber(w)' /\ ~InTasklet(w)'
      /\ \A v \in Workers : v # w => /\ pc'[v] = pc[v]
                                     /\ OnFiber(v)' <=> OnFiber(v)
                                     /\ InTasklet(v)' <=> InTasklet(v)
                                     /\ Looping(v)' <=> Looping(v)
      /\ \A a \in Actors : pc'[a] = "unsuspend" <=> pc[a] = "unsuspend"
  <2>1. "loop" \in Locations
    BY DEF Locations, InLoop
  <2>2. pc'[w] = "loop"
    BY <2>1, MovedWorker
  <2> QED
    BY <2>1, <2>2, MovedWorker DEF OnFiber, InTasklet, InLoop, Publishing
<1>3. /\ \A g \in Fibers : g # f => Job(g) # t
      /\ \A g \in Fibers : Job(g) \in Tasklets \cup {Null}
      /\ t # Null
  BY <1>1, SchedulerAssumption DEF Inv, TypeOK, OwnersKnown, Job
<1>4. /\ \A g \in Fibers : g # f => fiber'[g].tasklet = fiber[g].tasklet
      /\ fiber'[f].tasklet = Null
      /\ \A g \in Fibers : fiber'[g].state = fiber[g].state
      /\ \A u \in Tasklets \ {t} : tasklet'[u].status = tasklet[u].status
      /\ \A u \in Tasklets : tasklet'[u].owner = tasklet[u].owner
      /\ tasklet'[t].status = "done"
      /\ current' = current
  BY <1>1 DEF JobBecomes, StatusBecomes, Moves, State, Job, Status, Owner
<1>5. \A v \in Workers : /\ cleanup[v] # None => cleanup[v] \in Fibers
                         /\ OnFiber(v) => current[v] \in Fibers
                         /\ Looping(v) \/ InTasklet(v) \/ pc[v] = "helper" => OnFiber(v)
  BY DEF Inv, TypeOK, HoldersAlone, Looping, InTasklet, OnFiber
<1>6. /\ \A g \in Fibers : Targeted(g)' <=> Targeted(g)
      /\ \A a \in Actors : target[a] # None => target[a] \in Fibers /\ target[a] # f
  BY <1>1 DEF Inv, TypeOK, Targeted
<1> HIDE DEF f, t
<1>7. StatesKnown'
  BY <1>1, <1>2, <1>3, <1>4, <1>6 DEF Inv, StatesKnown, Moves, State, Job, Status, f, t
<1>8. QueuesDistinct'
  BY DEF Inv, QueuesDistinct, Moves
<1>9. HoldersAlone'
  BY <1>1, <1>2, <1>4, <1>5 DEF Inv, HoldersAlone, State, Job, f
<1>10. OwnersKnown'
  BY <1>1, <1>3, <1>4 DEF Inv, OwnersKnown, State, Job, Status, Owner, f, t
<1>11. WorkersKnown'
  BY <1>1, <1>2, <1>3, <1>4, <1>5, <1>6
     DEF Inv, WorkersKnown, Looping, State, Job, Status, Targeted, f, t
<1>12. TargetsKnown'
  BY <1>1, <1>2, <1>3, <1>4, <1>6 DEF Inv, TargetsKnown, State, Job, Status, f, t
<1> QED
  BY <1>7, <1>8, <1>9, <1>10, <1>11, <1>12 DEF Core

LEMMA YieldStep ==
  ASSUME Inv, NEW w \in Workers, pc[w] = "tasklet", StateBecomes(current[w], "Yielding"),
         Moves(w, "helper"), fresh'.queue = fresh.queue, UNCHANGED <<target, cleanup, tasklet>>
  PROVE  Core'
<1> DEFINE f == current[w]
           t == Job(current[w])
<1>1. /\ OnFiber(w) /\ f \in Fibers /\ t \in Tasklets /\ State(f) = "Running"
      /\ \A v \in Workers : v # w /\ OnFiber(v) => current[v] # f
      /\ \A v \in Workers : cleanup[v] # f
      /\ ~Targeted(f) /\ Status(t) = "started"
  BY RunningTasklet
<1>2. /\ pc'[w] = "helper" /\ OnFiber(w)' /\ ~InTasklet(w)' /\ ~Looping(w)'
      /\ \A v \in Workers : v # w => /\ pc'[v] = pc[v]
                                     /\ OnFiber(v)' <=> OnFiber(v)
                                     /\ InTasklet(v)' <=> InTasklet(v)
                                     /\ Looping(v)' <=> Looping(v)
      /\ \A a \in Actors : pc'[a] = "unsuspend" <=> pc[a] = "unsuspend"
  <2>1. "helper" \in Locations
    BY DEF Locations, InHelper
  <2>2. pc'[w] = "helper"
    BY <2>1, MovedWorker
  <2> QED
    BY <2>1, <2>2, MovedWorker DEF OnFiber, InTasklet, Looping, InLoop, Publishing
<1>3. /\ \A g \in Fibers : g # f => Job(g) # t
      /\ \A g \in Fibers : Job(g) \in Tasklets \cup {Null}
      /\ t # Null
  BY <1>1, SchedulerAssumption DEF Inv, TypeOK, OwnersKnown, Job
<1>4. /\ \A g \in Fibers : g # f => fiber'[g].state = fiber[g].state
      /\ fiber'[f].state = "Yielding"
      /\ \A g \in Fibers : fiber'[g].tasklet = fiber[g].tasklet
      /\ current' = current /\ tasklet' = tasklet
  BY <1>1 DEF StateBecomes, Moves, State, Job
<1>5. \A v \in Workers : /\ cleanup[v] # None => cleanup[v] \in Fibers
                         /\ OnFiber(v) => current[v] \in Fibers
                         /\ Looping(v) \/ InTasklet(v) \/ pc[v] = "helper" => OnFiber(v)
  BY DEF Inv, TypeOK, HoldersAlone, Looping, InTasklet, OnFiber
<1>6. /\ \A g \in Fibers : Targeted(g)' <=> Targeted(g)
      /\ \A a \in Actors : target[a] # None => target[a] \in Fibers /\ target[a] # f
  BY <1>1 DEF Inv, TypeOK, Targeted
<1> HIDE DEF f, t
<1>7. StatesKnown'
  BY <1>1, <1>2, <1>3, <1>4, <1>6 DEF Inv, StatesKnown, Moves, State, Job, Status, f, t
<1>8. QueuesDistinct'
  BY DEF Inv, QueuesDistinct, Moves
<1>9. HoldersAlone'
  BY <1>1, <1>2, <1>4, <1>5 DEF Inv, HoldersAlone, State, Job, f
<1>10. OwnersKnown'
  BY <1>1, <1>3, <1>4 DEF Inv, OwnersKnown, State, Job, Status, Owner, f, t
<1>11. WorkersKnown'
  BY <1>1, <1>2, <1>3, <1>4, <1>5, <1>6
     DEF Inv, WorkersKnown, Looping, State, Job, Status, Targeted, f, t
<1>12. TargetsKnown'
  BY <1>1, <1>2, <1>3, <1>4, <1>6 DEF Inv, TargetsKnown, State, Job, Status, f, t
<1> QED
  BY <1>7, <1>8, <1>9, <1>10, <1>11, <1>12 DEF Core

LEMMA SuspendStep ==
  ASSUME Inv, NEW w \in Workers, pc[w] = "tasklet", FibersStay,
         StatusBecomes(Job(current[w]), "waiting"), Moves(w, "helper"),
         fresh'.queue = fresh.queue, UNCHANGED <<target, cleanup>>
  PROVE  Core'
<1> DEFINE f == current[w]
           t == Job(current[w])
<1>1. /\ OnFiber(w) /\ f \in Fibers /\ t \in Tasklets /\ State(f) = "Running"
      /\ \A v \in Workers : v # w /\ OnFiber(v) => current[v] # f
      /\ \A v \in Workers : cleanup[v] # f
      /\ ~Targeted(f) /\ Status(t) = "started"
  BY RunningTasklet
<1>2. /\ pc'[w] = "helper" /\ OnFiber(w)' /\ ~InTasklet(w)' /\ ~Looping(w)'
      /\ \A v \in Workers : v # w => /\ pc'[v] = pc[v]
                                     /\ OnFiber(v)' <=> OnFiber(v)
                                     /\ InTasklet(v)' <=> InTasklet(v)
                                     /\ Looping(v)' <=> Looping(v)
      /\ \A a \in Actors : pc'[a] = "unsuspend" <=> pc[a] = "unsuspend"
  <2>1. "helper" \in Locations
    BY DEF Locations, InHelper
  <2>2. pc'[w] = "helper"
    BY <2>1, MovedWorker
  <2> QED
    BY <2>1, <2>2, MovedWorker DEF OnFiber, InTasklet, Looping, InLoop, Publishing
<1>3. /\ \A g \in Fibers : g # f => Job(g) # t
      /\ \A g \in Fibers : Job(g) \in Tasklets \cup {Null}
      /\ t # Null
  BY <1>1, SchedulerAssumption DEF Inv, TypeOK, OwnersKnown, Job
<1>4. /\ \A g \in Fibers : fiber'[g].state = fiber[g].state
      /\ \A g \in Fibers : fiber'[g].tasklet = fiber[g].tasklet
      /\ \A u \in Tasklets \ {t} : tasklet'[u].status = tasklet[u].status
      /\ \A u \in Tasklets : tasklet'[u].owner = tasklet[u].owner
      /\ tasklet'[t].status = "waiting"
      /\ current' = current
  BY <1>1 DEF FibersStay, StatusBecomes, Moves, State, Job, Status, Owner
<1>5. \A v \in Workers : /\ cleanup[v] # None => cleanup[v] \in Fibers
                         /\ OnFiber(v) => current[v] \in Fibers
                         /\ Looping(v) \/ InTasklet(v) \/ pc[v] = "helper" => OnFiber(v)
  BY DEF Inv, TypeOK, HoldersAlone, Looping, InTasklet, OnFiber
<1>6. /\ \A g \in Fibers : Targeted(g)' <=> Targeted(g)
      /\ \A a \in Actors : target[a] # None => target[a] \in Fibers /\ target[a] # f
  BY <1>1 DEF Inv, TypeOK, Targeted
<1> HIDE DEF f, t
<1>7. StatesKnown'
  BY <1>1, <1>2, <1>3, <1>4, <1>6 DEF Inv, StatesKnown, Moves, State, Job, Status, f, t
<1>8. QueuesDistinct'
  BY DEF Inv, QueuesDistinct, Moves
<1>9. HoldersAlone'
  BY <1>1, <1>2, <1>4, <1>5 DEF Inv, HoldersAlone, State, Job, f
<1>10. OwnersKnown'
  BY <1>1, <1>3, <1>4 DEF Inv, OwnersKnown, State, Job, Status, Owner, f, t
<1>11. WorkersKnown'
  BY <1>1, <1>2, <1>3, <1>4, <1>5, <1>6
     DEF Inv, WorkersKnown, Looping, State, Job, Status, Targeted, f, t
<1>12. TargetsKnown'
  BY <1>1, <1>2, <1>3, <1>4, <1>6 DEF Inv, TargetsKnown, State, Job, Status, f, t
<1> QED
  BY <1>7, <1>8, <1>9, <1>10, <1>11, <1>12 DEF Core

-----------------------------------------------------------------------------
(* Steps of publishing. *)

(* A call leaves its worker on the fiber it is on. *)
LEMMA CallStays ==
  ASSUME Inv, NEW a \in Actors, InUserCode(a), NEW l \in Publishing, Goto(a, l),
         back' = [back EXCEPT ![a] = pc[a]]
  PROVE  /\ pc'[a] = l /\ back'[a] = pc[a]
         /\ \A b \in Actors : b # a => pc'[b] = pc[b] /\ back'[b] = back[b]
         /\ \A w \in Workers : /\ OnFiber(w)' <=> OnFiber(w)
                               /\ Looping(w)' <=> Looping(w)
                               /\ InTasklet(w)' <=> InTasklet(w)
                               /\ pc'[w] = "helper" <=> pc[w] = "helper"
                               /\ pc'[w] = "resumed" <=> pc[w] = "resumed"
<1>1. /\ pc'[a] = l /\ back'[a] = pc[a]
      /\ \A b \in Actors : b # a => pc'[b] = pc[b] /\ back'[b] = back[b]
  BY DEF Inv, TypeOK, Goto
<1>2. \A w \in Workers : w \in Actors /\ pc[w] # "outside"
  BY DEF Inv, ReturnsKnown, Actors
<1>3. \A w \in Workers : w # a => /\ OnFiber(w)' <=> OnFiber(w)
                                  /\ Looping(w)' <=> Looping(w)
                                  /\ InTasklet(w)' <=> InTasklet(w)
  BY <1>1, <1>2 DEF OnFiber, Looping, InTasklet
<1>4. a \in Workers => /\ OnFiber(a)' /\ OnFiber(a)
                       /\ ~Looping(a)' /\ ~Looping(a)
                       /\ InTasklet(a)' /\ InTasklet(a)
  BY <1>1, <1>2 DEF OnFiber, Looping, InTasklet, InUserCode, InLoop, Publishing
<1>5. /\ pc[a] \notin {"helper", "resumed"} /\ pc'[a] \notin {"helper", "resumed"}
  BY <1>1 DEF InUserCode, Publishing
<1> QED
  BY <1>1, <1>2, <1>3, <1>4, <1>5

LEMMA EnqueueStep ==
  ASSUME Inv, NEW a \in Actors, NEW t \in Tasklets, EnqueueTasklet(a, t)
  PROVE  Core'
<1>1. /\ \A w \in Workers : /\ OnFiber(w)' <=> OnFiber(w)
                            /\ Looping(w)' <=> Looping(w)
                            /\ InTasklet(w)' <=> InTasklet(w)
                            /\ pc'[w] = "helper" <=> pc[w] = "helper"
                            /\ pc'[w] = "resumed" <=> pc[w] = "resumed"
      /\ \A b \in Actors : pc'[b] = "unsuspend" <=> pc[b] = "unsuspend"
  <2>1. InUserCode(a) /\ Goto(a, "count_tasklet") /\ back' = [back EXCEPT ![a] = pc[a]]
        /\ "count_tasklet" \in Publishing /\ pc[a] # "unsuspend"
    BY DEF EnqueueTasklet, Publishing, InUserCode
  <2> QED
    BY <2>1, CallStays
<1>2. /\ Status(t) = "new" /\ Status(t)' = "queued" /\ Owner(t)' = Owner(t)
      /\ \A u \in Tasklets \ {t} : Status(u)' = Status(u) /\ Owner(u)' = Owner(u)
  BY DEF Inv, TypeOK, EnqueueTasklet, SetStatus, Status, Owner
<1>3. /\ Elements(fresh.queue)' = Elements(fresh.queue) \cup {t}
      /\ Distinct(fresh.queue)'
  <2>1. fresh.queue \in Seq(Tasklets) /\ fresh'.queue = Append(fresh.queue, t)
    BY DEF Inv, TypeOK, EnqueueTasklet
  <2>2. t \notin Elements(fresh.queue) /\ Distinct(fresh.queue)
    BY <1>2 DEF Inv, OwnersKnown, QueuesDistinct
  <2> QED
    BY <2>1, <2>2, Appended
<1>4. UNCHANGED <<target, current, cleanup, fiber, created, free, ready>>
  BY DEF EnqueueTasklet, fibers
<1>5. \A f \in Fibers : /\ Targeted(f)' <=> Targeted(f)
                        /\ State(f)' = State(f) /\ Job(f)' = Job(f)
                        /\ Job(f) # t /\ Job(f) \in Tasklets \cup {Null}
  <2>1. \A f \in Fibers : Job(f) \in Tasklets \cup {Null}
    BY DEF Inv, TypeOK, Job
  <2>2. \A f \in Fibers : Job(f) # t
    BY <1>2, SchedulerAssumption DEF Inv, OwnersKnown
  <2> QED
    BY <1>4, <2>1, <2>2 DEF Targeted, State, Job
<1>6. /\ \A w \in Workers : /\ cleanup[w] # None => cleanup[w] \in Fibers
                            /\ OnFiber(w) => current[w] \in Fibers
                            /\ Looping(w) \/ InTasklet(w) \/ pc[w] = "helper" => OnFiber(w)
      /\ \A b \in Actors : target[b] # None => target[b] \in Fibers
  BY DEF Inv, TypeOK, HoldersAlone, Looping, InTasklet, OnFiber
<1>7. StatesKnown'
  BY <1>1, <1>2, <1>4, <1>5 DEF Inv, StatesKnown
<1>8. QueuesDistinct'
  BY <1>3, <1>4 DEF Inv, QueuesDistinct
<1>9. HoldersAlone'
  BY <1>1, <1>4 DEF Inv, HoldersAlone, State, Job
<1>10. OwnersKnown'
  BY <1>2, <1>3, <1>4, <1>5 DEF Inv, OwnersKnown, Job
<1>11. WorkersKnown'
  BY <1>1, <1>2, <1>4, <1>5, <1>6 DEF Inv, WorkersKnown, Looping, State, Job, Status, Targeted
<1>12. TargetsKnown'
  BY <1>1, <1>2, <1>4, <1>5, <1>6 DEF Inv, TargetsKnown, State, Job, Status
<1> QED
  BY <1>7, <1>8, <1>9, <1>10, <1>11, <1>12 DEF Core

LEMMA WakeStep ==
  ASSUME Inv, NEW a \in Actors, NEW t \in Tasklets, Wake(a, t)
  PROVE  Core'
<1>1. /\ \A w \in Workers : /\ OnFiber(w)' <=> OnFiber(w)
                            /\ Looping(w)' <=> Looping(w)
                            /\ InTasklet(w)' <=> InTasklet(w)
                            /\ pc'[w] = "helper" <=> pc[w] = "helper"
                            /\ pc'[w] = "resumed" <=> pc[w] = "resumed"
      /\ pc'[a] = "unsuspend" /\ pc[a] # "unsuspend"
      /\ \A b \in Actors : b # a => pc'[b] = pc[b]
  <2>1. InUserCode(a) /\ Goto(a, "unsuspend") /\ back' = [back EXCEPT ![a] = pc[a]]
        /\ "unsuspend" \in Publishing /\ pc[a] # "unsuspend"
    BY DEF Wake, Publishing, InUserCode
  <2> QED
    BY <2>1, CallStays
<1>2. /\ Status(t) = "waiting" /\ Status(t)' = "started" /\ Owner(t)' = Owner(t)
      /\ \A u \in Tasklets \ {t} : Status(u)' = Status(u) /\ Owner(u)' = Owner(u)
  BY DEF Inv, TypeOK, Wake, SetStatus, Status, Owner
<1>0. PICK f \in Fibers : f = Owner(t) /\ Job(f) = t
  BY <1>2 DEF Inv, OwnersKnown
<1>3. /\ f \in Fibers /\ f # None /\ Job(f) = t /\ t # Null
      /\ \A g \in Fibers : g # f => Job(g) # t
  BY <1>0, SchedulerAssumption DEF Inv, OwnersKnown, Fibers, None
<1>4. UNCHANGED <<current, cleanup, fiber, created, free, ready, fresh>>
  BY DEF Wake, fibers, queues
<1>5. /\ target'[a] = f /\ target[a] = None
      /\ \A b \in Actors : b # a => target'[b] = target[b]
  BY <1>0, <1>1 DEF Inv, TypeOK, TargetsKnown, Wake, Owner
<1>6. /\ \A w \in Workers : /\ cleanup[w] # None => cleanup[w] \in Fibers
                            /\ OnFiber(w) => current[w] \in Fibers
                            /\ Looping(w) \/ InTasklet(w) \/ pc[w] = "helper" => OnFiber(w)
      /\ \A b \in Actors : target[b] # None => target[b] \in Fibers
  BY DEF Inv, TypeOK, HoldersAlone, Looping, InTasklet, OnFiber
<1>7. ~Targeted(f) /\ Targeted(f)' /\ \A g \in Fibers : g # f => (Targeted(g)' <=> Targeted(g))
  <2>1. ~Targeted(f)
    BY <1>2, <1>3 DEF Inv, TargetsKnown, Targeted
  <2> QED
    BY <1>3, <1>5, <2>1 DEF Targeted, Fibers, None
<1>8. State(f) \in {"Running", "Suspended"}
  <2>1. State(f) # "Runnable"
    BY <1>2, <1>3 DEF Inv, TypeOK, StatesKnown, Fibers
  <2>2. State(f) # "Yielding"
    <3>1. ASSUME State(f) = "Yielding" PROVE FALSE
      <4>1. PICK w \in Workers : (OnFiber(w) /\ current[w] = f) \/ cleanup[w] = f
        BY <1>3, <3>1 DEF Inv, StatesKnown
      <4>2. cleanup[w] # f
        BY <1>3, <3>1 DEF Inv, HoldersAlone
      <4>3. pc[w] = "helper"
        BY <3>1, <4>1, <4>2 DEF Inv, HoldersAlone
      <4> QED
        BY <1>2, <1>3, <3>1, <4>1, <4>2, <4>3 DEF Inv, WorkersKnown
    <3> QED
      BY <3>1
  <2>3. State(f) \in FiberStates
    BY <1>3 DEF Inv, TypeOK, State
  <2> QED
    BY <2>1, <2>2, <2>3 DEF FiberStates
<1>9. \A g \in Fibers : State(g)' = State(g) /\ Job(g)' = Job(g) /\ Job(g) \in Tasklets \cup {Null}
  BY <1>4 DEF Inv, TypeOK, State, Job
<1>10. StatesKnown'
  BY <1>1, <1>2, <1>3, <1>4, <1>7, <1>8, <1>9 DEF Inv, StatesKnown, State, Job
<1>11. QueuesDistinct'
  BY <1>4 DEF Inv, QueuesDistinct
<1>12. HoldersAlone'
  BY <1>1, <1>4 DEF Inv, HoldersAlone, State, Job
<1>13. OwnersKnown'
  BY <1>2, <1>3, <1>4, <1>9 DEF Inv, OwnersKnown, Job, Owner, Status
<1>14. WorkersKnown'
  BY <1>1, <1>2, <1>3, <1>4, <1>6, <1>7, <1>9
     DEF Inv, WorkersKnown, HoldersAlone, Looping, State, Job, Status, Targeted
<1>15. TargetsKnown'
  BY <1>1, <1>2, <1>3, <1>4, <1>5, <1>6, <1>7, <1>8, <1>9
     DEF Inv, TargetsKnown, Targeted, State, Job, Status
<1> QED
  BY <1>10, <1>11, <1>12, <1>13, <1>14, <1>15 DEF Core

LEMMA UnsuspendStep ==
  ASSUME Inv, NEW a \in Actors, Unsuspend(a)
  PROVE  Core'
<1>1. pc[a] = "unsuspend" /\ target[a] # None
  BY DEF Inv, TargetsKnown, Unsuspend
<1>2. PICK f \in Fibers : f = target[a]
  BY <1>1 DEF Inv, TypeOK
<1>3. /\ State(f) = "Suspended" /\ Job(f) # Null /\ Status(Job(f)) = "started"
      /\ f # None /\ f <= created
  <2>1. State(f) \in {"Running", "Suspended"} /\ State(f) # "Running"
    BY <1>1, <1>2 DEF Inv, TargetsKnown, Unsuspend, State
  <2>2. ~(f > created) /\ created \in Nat
    BY <2>1, SchedulerAssumption DEF Inv, TypeOK, StatesKnown
  <2> QED
    BY <1>1, <1>2, <2>1, <2>2 DEF Inv, TargetsKnown, Fibers, None
<1>4. /\ \A w \in Workers : /\ OnFiber(w)' <=> OnFiber(w)
                            /\ Looping(w)' <=> Looping(w)
                            /\ InTasklet(w)' <=> InTasklet(w)
                            /\ pc'[w] = "helper" <=> pc[w] = "helper"
                            /\ pc'[w] = "resumed" <=> pc[w] = "resumed"
      /\ pc'[a] = "count_fiber"
      /\ \A b \in Actors : b # a => pc'[b] = pc[b]
  <2>1. pc'[a] = "count_fiber" /\ \A b \in Actors : b # a => pc'[b] = pc[b]
    BY DEF Inv, TypeOK, Unsuspend, Goto
  <2>2. back' = back /\ \A w \in Workers : w \in Actors
    BY DEF Unsuspend, Actors
  <2> QED
    BY <1>1, <2>1, <2>2 DEF OnFiber, Looping, InTasklet, InLoop, Publishing
<1>5. /\ target'[a] = None
      /\ \A b \in Actors : b # a => target'[b] = target[b] /\ target[b] # f
      /\ ~Targeted(f)'
      /\ \A g \in Fibers : g # f => (Targeted(g)' <=> Targeted(g))
  <2>1. target'[a] = None /\ \A b \in Actors : b # a => target'[b] = target[b]
    BY DEF Inv, TypeOK, Unsuspend
  <2>2. \A b \in Actors : b # a => target[b] # f
    BY <1>2, <1>3 DEF Inv, TargetsKnown
  <2> QED
    BY <1>2, <2>1, <2>2 DEF Targeted, Fibers, None
<1>6. /\ State(f)' = "Runnable"
      /\ \A g \in Fibers : g # f => State(g)' = State(g)
      /\ \A g \in Fibers : Job(g)' = Job(g)
  BY <1>2 DEF Inv, TypeOK, Unsuspend, SetState, State, Job
<1>7. UNCHANGED <<current, cleanup, created, free, tasklet, fresh>>
  BY DEF Unsuspend
<1>8. Elements(ready.queue)' = Elements(ready.queue) \cup {f} /\ Distinct(ready.queue)'
  <2>1. ready.queue \in Seq(Fibers) /\ ready'.queue = Append(ready.queue, f)
    BY <1>2 DEF Inv, TypeOK, Unsuspend
  <2>2. f \notin Elements(ready.queue) /\ Distinct(ready.queue)
    BY <1>3 DEF Inv, StatesKnown, QueuesDistinct
  <2> QED
    BY <2>1, <2>2, Appended
<1>9. \A w \in Workers : /\ cleanup[w] # None => cleanup[w] \in Fibers /\ cleanup[w] # f
                         /\ OnFiber(w) => current[w] \in Fibers /\ current[w] # f
                         /\ Looping(w) \/ InTasklet(w) \/ pc[w] = "helper" => OnFiber(w)
  BY <1>3 DEF Inv, TypeOK, HoldersAlone, Looping, InTasklet, OnFiber
<1>10. \A b \in Actors : target[b] # None => target[b] \in Fibers
  BY DEF Inv, TypeOK
<1>11. \A t : Status(t)' = Status(t) /\ Owner(t)' = Owner(t)
  BY <1>7 DEF Status, Owner
<1>12. StatesKnown'
  BY <1>3, <1>4, <1>5, <1>6, <1>7, <1>8, <1>11 DEF Inv, StatesKnown
<1>13. QueuesDistinct'
  BY <1>7, <1>8 DEF Inv, QueuesDistinct
<1>14. HoldersAlone'
  BY <1>4, <1>6, <1>7, <1>9 DEF Inv, HoldersAlone, State, Job
<1>15. OwnersKnown'
  BY <1>6, <1>7, <1>11 DEF Inv, OwnersKnown
<1>16. WorkersKnown'
  BY <1>4, <1>5, <1>6, <1>7, <1>9 DEF Inv, WorkersKnown, Looping, State, Job, Status, Targeted
<1>17. TargetsKnown'
  BY <1>4, <1>5, <1>6, <1>7, <1>10 DEF Inv, TargetsKnown, State, Job, Status
<1> QED
  BY <1>12, <1>13, <1>14, <1>15, <1>16, <1>17 DEF Core

(* The helper publishes the fiber its worker left. *)
LEMMA MarkStep ==
  ASSUME Inv, NEW w \in Workers, MarkSuspended(w)
  PROVE  Core'
<1>1. PICK f \in Fibers : f = current[w]
  BY RunningTasklet DEF MarkSuspended
<1>2. /\ OnFiber(w) /\ f # None /\ Job(f) \in Tasklets /\ Job(f) # Null
      /\ \A v \in Workers : v # w /\ OnFiber(v) => current[v] # f
      /\ \A v \in Workers : cleanup[v] # f
      /\ State(f) \in {"Running", "Yielding"}
      /\ State(f) = "Running" => Status(Job(f)) = "waiting" \/ Targeted(f)
      /\ State(f) = "Yielding" => Status(Job(f)) = "started" /\ ~Targeted(f)
      /\ pc[w] = "helper" /\ w \in Actors
  BY <1>1, RunningTasklet, SchedulerAssumption DEF Inv, WorkersKnown, MarkSuspended, Actors
<1>3. /\ State(f)' = "Suspended"
      /\ \A g \in Fibers : g # f => State(g)' = State(g)
      /\ \A g \in Fibers : Job(g)' = Job(g)
  BY <1>1 DEF Inv, TypeOK, MarkSuspended, SetState, State, Job
<1>4. UNCHANGED <<current, cleanup, created, free, tasklet, ready, fresh>>
  BY DEF MarkSuspended, queues
<1>5. target[w] = None
  BY <1>2 DEF Inv, TargetsKnown
<1>6. /\ State(f) = "Yielding" =>
           pc'[w] = "unsuspend" /\ back'[w] = "choose" /\ target'[w] = f
      /\ State(f) = "Running" => pc'[w] = "choose" /\ target'[w] = None
      /\ \A a \in Actors : a # w => pc'[a] = pc[a] /\ back'[a] = back[a] /\ target'[a] = target[a]
  BY <1>1, <1>2, <1>5 DEF Inv, TypeOK, MarkSuspended, Goto, State
<1>7. /\ ~OnFiber(w)' /\ ~Looping(w)' /\ ~InTasklet(w)' /\ pc'[w] \notin {"helper", "resumed"}
      /\ \A v \in Workers : v # w => /\ pc'[v] = pc[v]
                                     /\ OnFiber(v)' <=> OnFiber(v)
                                     /\ Looping(v)' <=> Looping(v)
                                     /\ InTasklet(v)' <=> InTasklet(v)
  BY <1>2, <1>6 DEF OnFiber, Looping, InTasklet, InLoop, Publishing, Actors
<1>8. /\ Targeted(f) => Targeted(f)'
      /\ State(f) = "Yielding" => Targeted(f)'
      /\ \A g \in Fibers : g # f => (Targeted(g)' <=> Targeted(g))
  BY <1>2, <1>5, <1>6 DEF Targeted, Fibers, None
<1>9. \A v \in Workers : /\ cleanup[v] # None => cleanup[v] \in Fibers /\ pc[v] = "resumed"
                         /\ OnFiber(v) => current[v] \in Fibers
                         /\ Looping(v) \/ InTasklet(v) \/ pc[v] = "helper" => OnFiber(v)
  BY DEF Inv, TypeOK, HoldersAlone, Looping, InTasklet, OnFiber
<1>10. \A a \in Actors : target[a] # None => target[a] \in Fibers
  BY DEF Inv, TypeOK
<1>11. \A t : Status(t)' = Status(t) /\ Owner(t)' = Owner(t)
  BY <1>4 DEF Status, Owner
<1>12. StatesKnown'
  BY <1>1, <1>2, <1>3, <1>4, <1>7, <1>8, <1>11 DEF Inv, StatesKnown
<1>13. QueuesDistinct'
  BY <1>4 DEF Inv, QueuesDistinct
<1>14. HoldersAlone'
  BY <1>1, <1>2, <1>3, <1>4, <1>7, <1>9 DEF Inv, HoldersAlone, State, Job
<1>15. OwnersKnown'
  BY <1>3, <1>4, <1>11 DEF Inv, OwnersKnown
<1>16. WorkersKnown'
  BY <1>2, <1>3, <1>4, <1>7, <1>8, <1>9 DEF Inv, WorkersKnown, Looping, State, Job, Status, Targeted
<1>17. TargetsKnown'
  BY <1>2, <1>3, <1>4, <1>5, <1>6, <1>10 DEF Inv, TargetsKnown, Targeted, State, Job, Status
<1> QED
  BY <1>12, <1>13, <1>14, <1>15, <1>16, <1>17 DEF Core

(* The fiber that made the switch is free again. *)
LEMMA ResumeStep ==
  ASSUME Inv, NEW w \in Workers, Resume(w)
  PROVE  Core'
<1>1. /\ pc[w] = "resumed" /\ pc'[w] = "tasklet"
      /\ \A a \in Actors : a # w => pc'[a] = pc[a]
      /\ UNCHANGED <<target, back, current, created, tasklet, ready, fresh>>
  BY DEF Inv, TypeOK, Resume, Goto, Actors, queues
<1>2. /\ \A v \in Workers : /\ OnFiber(v)' <=> OnFiber(v)
                            /\ Looping(v)' <=> Looping(v)
                            /\ InTasklet(v)' <=> InTasklet(v)
                            /\ pc'[v] = "helper" <=> pc[v] = "helper"
                            /\ v # w => (pc'[v] = "resumed" <=> pc[v] = "resumed")
      /\ \A a \in Actors : pc'[a] = "unsuspend" <=> pc[a] = "unsuspend"
  BY <1>1 DEF OnFiber, Looping, InTasklet, InLoop, Publishing, Actors
<1>3. \A v \in Workers : /\ cleanup[v] # None => cleanup[v] \in Fibers
                         /\ OnFiber(v) => current[v] \in Fibers
                         /\ Looping(v) \/ InTasklet(v) \/ pc[v] = "helper" => OnFiber(v)
  BY DEF Inv, TypeOK, HoldersAlone, Looping, InTasklet, OnFiber
<1>4. /\ \A a \in Actors : target[a] # None => target[a] \in Fibers
      /\ \A g \in Fibers : Targeted(g)' <=> Targeted(g)
      /\ \A t : Status(t)' = Status(t) /\ Owner(t)' = Owner(t)
  BY <1>1 DEF Inv, TypeOK, Targeted, Status, Owner
<1>5. CASE cleanup[w] = None
  <2>1. UNCHANGED <<fiber, free, cleanup>>
    BY <1>5 DEF Resume
  <2>2. /\ \A g \in Fibers : State(g)' = State(g) /\ Job(g)' = Job(g)
    BY <2>1 DEF State, Job
  <2>3. StatesKnown'
    BY <1>1, <1>2, <1>4, <2>1, <2>2 DEF Inv, StatesKnown
  <2>4. QueuesDistinct'
    BY <1>1, <2>1 DEF Inv, QueuesDistinct
  <2>5. HoldersAlone'
    BY <1>1, <1>2, <1>3, <1>5, <2>1 DEF Inv, HoldersAlone, State, Job
  <2>6. OwnersKnown'
    BY <1>1, <1>4, <2>2 DEF Inv, OwnersKnown
  <2>7. WorkersKnown'
    BY <1>1, <1>2, <1>3, <2>1 DEF Inv, WorkersKnown, Looping, State, Job, Status, Targeted
  <2>8. TargetsKnown'
    BY <1>1, <1>2, <1>4, <2>1 DEF Inv, TargetsKnown, State, Job, Status
  <2> QED
    BY <2>3, <2>4, <2>5, <2>6, <2>7, <2>8 DEF Core
<1>6. CASE cleanup[w] # None
  <2>1. PICK f \in Fibers : f = cleanup[w]
    BY <1>3, <1>6
  <2>2. /\ State(f) = "Running" /\ Job(f) = Null /\ f <= created
        /\ \A v \in Workers : OnFiber(v) => current[v] # f
        /\ \A v \in Workers : v # w => cleanup[v] # f
        /\ ~Targeted(f)
    <3>1. State(f) = "Running" /\ Job(f) = Null
      BY <1>6, <2>1 DEF Inv, HoldersAlone
    <3>2. f <= created
      BY <3>1, SchedulerAssumption DEF Inv, TypeOK, StatesKnown, Fibers
    <3>3. ~Targeted(f)
      BY <3>1 DEF Inv, TargetsKnown, Targeted, Fibers, None
    <3> QED
      BY <1>6, <2>1, <3>1, <3>2, <3>3 DEF Inv, HoldersAlone
  <2>3. /\ cleanup'[w] = None
        /\ \A v \in Workers : v # w => cleanup'[v] = cleanup[v]
        /\ State(f)' = "Runnable"
        /\ \A g \in Fibers : g # f => State(g)' = State(g)
        /\ \A g \in Fibers : Job(g)' = Job(g)
    <3>1. fiber' = [fiber EXCEPT ![f].state = "Runnable"] /\ cleanup' = [cleanup EXCEPT ![w] = None]
      BY <1>6, <2>1 DEF Resume, SetState
    <3>2. cleanup'[w] = None /\ \A v \in Workers : v # w => cleanup'[v] = cleanup[v]
      BY <3>1 DEF Inv, TypeOK
    <3> QED
      BY <3>1, <3>2 DEF Inv, TypeOK, State, Job
  <2>4. Elements(free)' = Elements(free) \cup {f} /\ Distinct(free)'
    <3>1. free \in Seq(Fibers) /\ free' = Append(free, f)
      BY <1>6, <2>1 DEF Inv, TypeOK, Resume
    <3>2. f \notin Elements(free) /\ Distinct(free)
      BY <2>2 DEF Inv, StatesKnown, QueuesDistinct
    <3> QED
      BY <3>1, <3>2, Appended
  <2>5. StatesKnown'
    BY <1>1, <1>2, <1>4, <2>1, <2>2, <2>3, <2>4 DEF Inv, StatesKnown
  <2>6. QueuesDistinct'
    BY <1>1, <2>4 DEF Inv, QueuesDistinct
  <2>7. HoldersAlone'
    BY <1>1, <1>2, <1>3, <2>1, <2>2, <2>3 DEF Inv, HoldersAlone, State, Job
  <2>8. OwnersKnown'
    BY <1>1, <1>4, <2>3 DEF Inv, OwnersKnown
  <2>9. WorkersKnown'
    BY <1>1, <1>2, <1>3, <2>2, <2>3 DEF Inv, WorkersKnown, Looping, State, Job, Status, Targeted
  <2>10. TargetsKnown'
    BY <1>1, <1>2, <1>4, <2>2, <2>3 DEF Inv, TargetsKnown, Targeted, State, Job, Status
  <2> QED
    BY <2>5, <2>6, <2>7, <2>8, <2>9, <2>10 DEF Core
<1> QED
  BY <1>5, <1>6

-----------------------------------------------------------------------------
(* Priorities and queues in the actions. *)

FiberRecords == [Fibers -> [state : FiberStates, tasklet : Tasklets \cup {Null},
                            level : 0 .. Len(Weights) - 1, counter : Counters]]

LEMMA AdvancedInRange ==
  ASSUME NEW p \in Priorities
  PROVE  Advanced(p) \in Priorities
<1>1. Len(Weights) \in Nat \ {0} /\ DOMAIN Weights = 1 .. Len(Weights)
      /\ \A i \in DOMAIN Weights : Weights[i] \in Nat \ {0}
  BY SchedulerAssumption
<1>2. p.level \in 0 .. Len(Weights) - 1 /\ p.counter \in Counters
      /\ p = [level |-> p.level, counter |-> p.counter]
  BY DEF Priorities
<1>3. PICK i \in DOMAIN Weights : p.counter \in 0 .. Weights[i]
  BY <1>2 DEF Counters
<1>4. CASE p.counter = 1
  <2> DEFINE next == (p.level + 1) % Len(Weights)
  <2>1. next \in 0 .. Len(Weights) - 1
    BY <1>1, <1>2
  <2>2. next + 1 \in DOMAIN Weights /\ Weights[next + 1] \in 0 .. Weights[next + 1]
    BY <1>1, <2>1
  <2>3. Weights[next + 1] \in Counters
    BY <2>2 DEF Counters
  <2>4. Advanced(p) = [level |-> next, counter |-> Weights[next + 1]]
    BY <1>4 DEF Advanced
  <2> HIDE DEF next
  <2> QED
    BY <2>1, <2>3, <2>4 DEF Priorities
<1>5. CASE p.counter # 1
  <2> DEFINE c == IF p.counter = 0 THEN 0 ELSE p.counter - 1
  <2>1. c \in 0 .. Weights[i]
    BY <1>1, <1>3
  <2>2. c \in Counters
    BY <2>1 DEF Counters
  <2>3. Advanced(p) = [level |-> p.level, counter |-> c]
    BY <1>2, <1>5 DEF Advanced
  <2> HIDE DEF c
  <2> QED
    BY <1>2, <2>2, <2>3 DEF Priorities
<1> QED
  BY <1>4, <1>5

LEMMA PrioritiesKept ==
  ASSUME Inv, NEW w \in Workers, current[w] \in Fibers, NEW p \in AdvancePriority(w)
  PROVE  /\ Prioritised(current[w], p[2]) \in FiberRecords
         /\ \A g \in Fibers : /\ Prioritised(current[w], p[2])[g].state = State(g)
                              /\ Prioritised(current[w], p[2])[g].tasklet = Job(g)
<1> DEFINE old == [level |-> fiber[current[w]].level, counter |-> fiber[current[w]].counter]
<1>1. old \in Priorities
  BY DEF Inv, TypeOK, Priorities
<1>2. p[2] \in Priorities
  <2>1. CASE Racing(w)
    BY <2>1 DEF AdvancePriority
  <2>2. CASE ~Racing(w)
    <3>1. p = <<old, Advanced(old)>>
      BY <2>2 DEF AdvancePriority
    <3> HIDE DEF old
    <3> QED
      BY <1>1, <3>1, AdvancedInRange
  <2> QED
    BY <2>1, <2>2
<1>3. p[2].level \in 0 .. Len(Weights) - 1 /\ p[2].counter \in Counters
  BY <1>2 DEF Priorities
<1>4. fiber \in FiberRecords
  BY DEF Inv, TypeOK, FiberRecords
<1> QED
  BY <1>3, <1>4 DEF FiberRecords, Prioritised, State, Job

LEMMA QueuesCounted ==
  ASSUME Inv
  PROVE  /\ ready.count > 0 => Len(ready.queue) > 0
         /\ fresh.count > 0 => Len(fresh.queue) > 0
<1>1. \A l : IsFiniteSet(At(l))
  <2>1. IsFiniteSet(Actors)
    BY SchedulerAssumption, FS_Union DEF Actors
  <2> QED
    BY <2>1, FS_Subset DEF At
<1>2. \A l : Cardinality(At(l)) \in Nat
  BY <1>1, FS_CardinalityType
<1>3. /\ ready.count \in Nat /\ fresh.count \in Nat
      /\ ready.count + Cardinality(At("count_fiber")) = Len(ready.queue)
      /\ fresh.count + Cardinality(At("count_tasklet")) = Len(fresh.queue)
  BY DEF Inv, TypeOK, Counted, CountsBacked
<1> QED
  BY <1>2, <1>3

(* What a pick from the queue of ready fibers does. *)
LEMMA ReadyTaken ==
  ASSUME Inv, ready.count > 0, ready' = Pick(ready), UNCHANGED <<free, created>>,
         fresh'.queue = fresh.queue, NEW F \in FiberRecords,
         \A g \in Fibers : F[g].state = State(g) /\ F[g].tasklet = Job(g),
         fiber' = [F EXCEPT ![Picked(ready)].state = "Running"]
  PROVE  /\ Picked(ready) \in Fibers
         /\ Picked(ready) \in Elements(ready.queue)
         /\ State(Picked(ready)) = "Runnable"
         /\ StateBecomes(Picked(ready), "Running")
         /\ Leaves(Picked(ready))
         /\ fiber' \in FiberRecords
         /\ ready' \in [queue : Seq(Fibers), count : Nat]
         /\ Len(ready'.queue) = Len(ready.queue) - 1 /\ ready'.count = ready.count - 1
<1>1. ready.queue \in Seq(Fibers) /\ Len(ready.queue) > 0 /\ ready.count \in Nat
  BY QueuesCounted DEF Inv, TypeOK
<1>2. PICK f : f = Picked(ready)
  OBVIOUS
<1>3. /\ f \in Fibers /\ f \in Elements(ready.queue)
      /\ Tail(ready.queue) \in Seq(Fibers)
      /\ Len(Tail(ready.queue)) = Len(ready.queue) - 1
      /\ \A g : g \in Elements(Tail(ready.queue)) <=> g \in Elements(ready.queue) /\ g # f
      /\ Distinct(Tail(ready.queue))
  BY <1>1, <1>2, Dequeued DEF Inv, QueuesDistinct, Picked
<1>4. State(f) = "Runnable" /\ Job(f) # Null /\ f \notin Elements(free)
  BY <1>3 DEF Inv, StatesKnown
<1>5. ready'.queue = Tail(ready.queue) /\ ready'.count = ready.count - 1
      /\ ready' \in [queue : Seq(Fibers), count : Nat]
  BY <1>1, <1>3 DEF Pick
<1>6. StateBecomes(f, "Running") /\ fiber' \in FiberRecords
  BY <1>2, <1>3 DEF StateBecomes, FiberRecords, FiberStates, State, Job
<1>7. Leaves(f)
  <2>1. created \in Nat /\ f <= created
    BY <1>3, <1>4, SchedulerAssumption DEF Inv, TypeOK, StatesKnown, Fibers
  <2>2. Distinct(free)
    BY DEF Inv, QueuesDistinct
  <2> QED
    BY <1>3, <1>4, <1>5, <2>1, <2>2 DEF Leaves
<1> QED
  BY <1>2, <1>3, <1>4, <1>5, <1>6, <1>7

LEMMA FiberKept ==
  ASSUME Inv
  PROVE  fiber \in FiberRecords /\ \A g \in Fibers : fiber[g].state = State(g) /\ fiber[g].tasklet = Job(g)
BY DEF Inv, TypeOK, FiberRecords, State, Job

DataTyped ==
  /\ fiber \in FiberRecords
  /\ tasklet \in [Tasklets -> [owner : Fibers \cup {None},
                               status : {"new", "queued", "started", "waiting", "done"}]]
  /\ ready \in [queue : Seq(Fibers), count : Nat]
  /\ fresh \in [queue : Seq(Tasklets), count : Nat]
  /\ free \in Seq(Fibers)

LEMMA DataTypedNow == Inv => DataTyped
BY DEF Inv, TypeOK, DataTyped, FiberRecords

(* Steps between two places that the invariant does not tell apart. *)
Away == {"start", "choose", "request", "create", "pick_any"}
OutsideOf == {"outside", "joining", "clear", "joined"}
AfterEnqueueing == {"count_tasklet", "count_fiber", "post"}

LEMMA SamePlace ==
  ASSUME Inv, NEW a \in Actors, NEW l \in Locations, Goto(a, l), back' = back,
         \/ {pc[a], l} \subseteq Away
         \/ {pc[a], l} \subseteq InLoop \cup {"exited"}
         \/ {pc[a], l} \subseteq OutsideOf
         \/ {pc[a], l} \subseteq AfterEnqueueing
  PROVE  PlacesStay
<1>1. pc'[a] = l /\ \A b \in Actors : b # a => pc'[b] = pc[b]
  BY DEF Inv, TypeOK, Goto
<1>2. \A w \in Workers : w \in Actors
  BY DEF Actors
<1>3. \A w \in Workers : w # a => /\ OnFiber(w)' <=> OnFiber(w)
                                  /\ Looping(w)' <=> Looping(w)
                                  /\ InTasklet(w)' <=> InTasklet(w)
  BY <1>1, <1>2 DEF OnFiber, Looping, InTasklet
<1>4. pc[a] = "helper" \/ pc[a] = "resumed" \/ pc[a] = "unsuspend"
        \/ l = "helper" \/ l = "resumed" \/ l = "unsuspend" => FALSE
  BY DEF Away, OutsideOf, AfterEnqueueing, InLoop
<1>5. a \in Workers => /\ OnFiber(a)' <=> OnFiber(a)
                       /\ Looping(a)' <=> Looping(a)
                       /\ InTasklet(a)' <=> InTasklet(a)
  <2>1. CASE {pc[a], l} \subseteq Away
    BY <1>1, <2>1 DEF OnFiber, Looping, InTasklet, Away, InLoop, Publishing
  <2>2. CASE {pc[a], l} \subseteq InLoop \cup {"exited"}
    BY <1>1, <2>2 DEF OnFiber, Looping, InTasklet, InLoop, Publishing
  <2>3. CASE {pc[a], l} \subseteq OutsideOf
    BY <1>1, <2>3 DEF OnFiber, Looping, InTasklet, OutsideOf, InLoop, Publishing
  <2>4. CASE {pc[a], l} \subseteq AfterEnqueueing
    BY <1>1, <2>4 DEF OnFiber, Looping, InTasklet, AfterEnqueueing, InLoop, Publishing
  <2> QED
    BY <2>1, <2>2, <2>3, <2>4
<1> QED
  BY <1>1, <1>2, <1>3, <1>4, <1>5 DEF PlacesStay

LEMMA ChooseStep ==
  ASSUME Inv, NEW w \in Workers, Choose(w)
  PROVE  Core' /\ DataTyped'
<1>1. /\ pc[w] = "choose" /\ current[w] \in Fibers /\ w \in Actors
      /\ ~OnFiber(w) /\ pc[w] # "unsuspend"
      /\ UNCHANGED <<target, back, cleanup, created, free, tasklet, fresh>>
  BY DEF Inv, ReturnsKnown, Choose, Actors, OnFiber, InLoop, Publishing
<1>2. PICK p \in AdvancePriority(w) :
        IF p[1].level = 0 /\ ready.count > 0
        THEN /\ SwitchTo(w, Picked(ready))
             /\ ready' = Pick(ready)
             /\ fiber' = [Prioritised(current[w], p[2]) EXCEPT ![Picked(ready)].state = "Running"]
        ELSE /\ fiber' = Prioritised(current[w], p[2])
             /\ Goto(w, "request")
             /\ UNCHANGED <<current, ready>>
  BY DEF Choose
<1>3. PICK F : F = Prioritised(current[w], p[2])
  OBVIOUS
<1>4. F \in FiberRecords /\ \A g \in Fibers : F[g].state = State(g) /\ F[g].tasklet = Job(g)
  BY <1>1, <1>3, PrioritiesKept
<1>5. CASE p[1].level = 0 /\ ready.count > 0
  <2>1. SwitchTo(w, Picked(ready)) /\ ready' = Pick(ready)
        /\ fiber' = [F EXCEPT ![Picked(ready)].state = "Running"]
    BY <1>2, <1>3, <1>5
  <2>2. /\ Picked(ready) \in Fibers /\ State(Picked(ready)) = "Runnable"
        /\ StateBecomes(Picked(ready), "Running") /\ Leaves(Picked(ready))
        /\ fiber' \in FiberRecords
        /\ ready' \in [queue : Seq(Fibers), count : Nat]
    BY <1>1, <1>4, <1>5, <2>1, ReadyTaken
  <2>3. Switches(w, Picked(ready))
    BY <1>1, <2>1 DEF Switches, SwitchTo, Job
  <2>4. Core'
    BY <1>1, <2>2, <2>3, TakeStep
  <2> QED
    BY <1>1, <2>2, <2>4, DataTypedNow DEF DataTyped
<1>6. CASE ~(p[1].level = 0 /\ ready.count > 0)
  <2>1. fiber' = F /\ Goto(w, "request") /\ UNCHANGED <<current, ready>>
    BY <1>2, <1>3, <1>6
  <2>2. PlacesStay
    BY <1>1, <2>1, SamePlace DEF Away, Locations, InHelper
  <2>3. FibersStay
    BY <1>4, <2>1 DEF FibersStay, State, Job
  <2>4. Core'
    BY <1>1, <2>1, <2>2, <2>3, QuietStep
  <2> QED
    BY <1>1, <1>4, <2>1, <2>4, DataTypedNow DEF DataTyped
<1> QED
  BY <1>5, <1>6

LEMMA RequestFreeStep ==
  ASSUME Inv, NEW w \in Workers, RequestFree(w)
  PROVE  Core' /\ DataTyped'
<1>1. /\ pc[w] = "request" /\ w \in Actors /\ ~OnFiber(w) /\ pc[w] # "unsuspend"
      /\ UNCHANGED <<target, back, cleanup, created, tasklet, ready, fresh>>
  BY DEF RequestFree, Actors, OnFiber, InLoop, Publishing, queues
<1>2. CASE free # <<>>
  <2>1. PICK f : f = Head(free)
    OBVIOUS
  <2>2. /\ f \in Fibers /\ f \in Elements(free)
        /\ Tail(free) \in Seq(Fibers)
        /\ \A g : g \in Elements(Tail(free)) <=> g \in Elements(free) /\ g # f
        /\ Distinct(Tail(free))
    <3>1. free \in Seq(Fibers) /\ Len(free) > 0 /\ Distinct(free)
      BY <1>2 DEF Inv, TypeOK, QueuesDistinct
    <3> QED
      BY <2>1, <3>1, Dequeued
  <2>3. State(f) = "Runnable" /\ Job(f) = Null /\ f <= created /\ f \notin Elements(ready.queue)
    BY <2>2 DEF Inv, StatesKnown
  <2>4. /\ free' = Tail(free) /\ SwitchTo(w, f)
        /\ fiber' = [fiber EXCEPT ![f].state = "Running"]
    BY <1>2, <2>1 DEF RequestFree, SetState
  <2>5. StateBecomes(f, "Running") /\ fiber' \in FiberRecords
    BY <2>2, <2>4, FiberKept DEF FiberRecords, FiberStates, StateBecomes, State, Job
  <2>6. Leaves(f)
    <3>1. created \in Nat /\ Distinct(ready.queue)
      BY SchedulerAssumption DEF Inv, TypeOK, QueuesDistinct
    <3> QED
      BY <1>1, <2>2, <2>3, <2>4, <3>1 DEF Leaves
  <2>7. Switches(w, f)
    BY <1>1, <2>4 DEF Switches, SwitchTo, Job
  <2>8. Core'
    BY <1>1, <2>2, <2>3, <2>5, <2>6, <2>7, TakeStep
  <2> QED
    BY <1>1, <2>2, <2>4, <2>5, <2>8, DataTypedNow DEF DataTyped
<1>3. CASE free = <<>>
  <2>1. Goto(w, "create") /\ UNCHANGED <<current, fiber, free>>
    BY <1>3 DEF RequestFree
  <2>2. PlacesStay
    BY <1>1, <2>1, SamePlace DEF Away, Locations, InHelper
  <2>3. FibersStay
    BY <2>1 DEF FibersStay, State, Job
  <2>4. Core'
    BY <1>1, <2>1, <2>2, <2>3, QuietStep
  <2> QED
    BY <1>1, <2>1, <2>4, DataTypedNow DEF DataTyped
<1> QED
  BY <1>2, <1>3

LEMMA CreateStep ==
  ASSUME Inv, NEW w \in Workers, Create(w)
  PROVE  Core' /\ DataTyped'
<1>1. /\ pc[w] = "create" /\ w \in Actors /\ ~OnFiber(w) /\ pc[w] # "unsuspend"
      /\ UNCHANGED <<target, back, cleanup, free, tasklet, ready, fresh>>
  BY DEF Create, Actors, OnFiber, InLoop, Publishing, queues
<1>2. CASE created < FiberLimit
  <2>1. PICK f : f = created + 1
    OBVIOUS
  <2>2. created \in Nat /\ f \in Fibers /\ f > created
    BY <1>2, <2>1, SchedulerAssumption DEF Inv, TypeOK, Fibers
  <2>3. /\ State(f) = "Runnable" /\ Job(f) = Null
        /\ f \notin Elements(ready.queue) /\ f \notin Elements(free)
    BY <2>2, SchedulerAssumption DEF Inv, StatesKnown, Fibers
  <2>4. /\ created' = created + 1 /\ SwitchTo(w, f)
        /\ fiber' = [fiber EXCEPT ![f].state = "Running"]
    BY <1>2, <2>1 DEF Create, SetState
  <2>5. StateBecomes(f, "Running") /\ fiber' \in FiberRecords
    BY <2>2, <2>4, FiberKept DEF FiberRecords, FiberStates, StateBecomes, State, Job
  <2>6. Leaves(f)
    <3>1. Distinct(ready.queue) /\ Distinct(free)
      BY DEF Inv, QueuesDistinct
    <3> QED
      BY <1>1, <2>1, <2>2, <2>3, <2>4, <3>1 DEF Leaves
  <2>7. Switches(w, f)
    BY <1>1, <2>4 DEF Switches, SwitchTo, Job
  <2>8. Core'
    BY <1>1, <2>2, <2>3, <2>5, <2>6, <2>7, TakeStep
  <2> QED
    BY <1>1, <2>5, <2>8, DataTypedNow DEF DataTyped
<1>3. CASE ~(created < FiberLimit)
  <2>1. Goto(w, "pick_any") /\ UNCHANGED <<current, fiber, created>>
    BY <1>3 DEF Create
  <2>2. PlacesStay
    BY <1>1, <2>1, SamePlace DEF Away, Locations, InHelper
  <2>3. FibersStay
    BY <2>1 DEF FibersStay, State, Job
  <2>4. Core'
    BY <1>1, <2>1, <2>2, <2>3, QuietStep
  <2> QED
    BY <1>1, <2>1, <2>4, DataTypedNow DEF DataTyped
<1> QED
  BY <1>2, <1>3

LEMMA PickAnyStep ==
  ASSUME Inv, NEW w \in Workers, PickAny(w)
  PROVE  Core' /\ DataTyped'
<1>1. /\ pc[w] = "pick_any" /\ w \in Actors /\ ~OnFiber(w) /\ pc[w] # "unsuspend"
      /\ UNCHANGED <<target, back, cleanup, created, free, tasklet, fresh>>
  BY DEF PickAny, Actors, OnFiber, InLoop, Publishing
<1>2. CASE ready.count > 0
  <2>1. SwitchTo(w, Picked(ready)) /\ ready' = Pick(ready)
        /\ fiber' = [fiber EXCEPT ![Picked(ready)].state = "Running"]
    BY <1>2 DEF PickAny, SetState
  <2>2. /\ Picked(ready) \in Fibers /\ State(Picked(ready)) = "Runnable"
        /\ StateBecomes(Picked(ready), "Running") /\ Leaves(Picked(ready))
        /\ fiber' \in FiberRecords
        /\ ready' \in [queue : Seq(Fibers), count : Nat]
    BY <1>1, <1>2, <2>1, ReadyTaken, FiberKept
  <2>3. Switches(w, Picked(ready))
    BY <1>1, <2>1 DEF Switches, SwitchTo, Job
  <2>4. Core'
    BY <1>1, <2>2, <2>3, TakeStep
  <2> QED
    BY <1>1, <2>2, <2>4, DataTypedNow DEF DataTyped
<1>3. CASE ~(ready.count > 0)
  <2>1. Goto(w, IF current[w] = None THEN "request" ELSE "choose")
        /\ UNCHANGED <<current, fiber, ready>>
    BY <1>3 DEF PickAny
  <2>2. PlacesStay
    BY <1>1, <2>1, SamePlace DEF Away, Locations, InHelper
  <2>3. FibersStay
    BY <2>1 DEF FibersStay, State, Job
  <2>4. Core'
    BY <1>1, <2>1, <2>2, <2>3, QuietStep
  <2> QED
    BY <1>1, <2>1, <2>4, DataTypedNow DEF DataTyped
<1> QED
  BY <1>2, <1>3

-----------------------------------------------------------------------------
(* The steps of fiber_loop(). *)

LEMMA LoopPlace ==
  ASSUME Inv, NEW w \in Workers, pc[w] \in InLoop
  PROVE  /\ w \in Actors /\ current[w] \in Fibers /\ OnFiber(w)
         /\ pc[w] # "unsuspend" /\ pc[w] # "helper"
BY DEF Inv, HoldersAlone, OnFiber, InLoop, Actors

LEMMA RunFiberStep ==
  ASSUME Inv, NEW w \in Workers, pc[w] \in InLoop, ready.count > 0, NEW F \in FiberRecords,
         \A g \in Fibers : F[g].state = State(g) /\ F[g].tasklet = Job(g),
         RunFiber(w, F), UNCHANGED <<target, back, created, free>>
  PROVE  Core' /\ DataTyped'
<1>1. /\ SwitchTo(w, Picked(ready)) /\ ready' = Pick(ready)
      /\ fiber' = [F EXCEPT ![Picked(ready)].state = "Running"]
      /\ cleanup' = [cleanup EXCEPT ![w] = current[w]]
      /\ UNCHANGED <<tasklet, fresh>>
  BY DEF RunFiber
<1>2. /\ Picked(ready) \in Fibers /\ Picked(ready) \in Elements(ready.queue)
      /\ StateBecomes(Picked(ready), "Running") /\ Leaves(Picked(ready))
      /\ fiber' \in FiberRecords
      /\ ready' \in [queue : Seq(Fibers), count : Nat]
  BY <1>1, ReadyTaken
<1>3. Switches(w, Picked(ready))
  BY <1>1 DEF Switches, SwitchTo, Job
<1>4. Core'
  BY <1>1, <1>2, <1>3, ReplaceStep
<1> QED
  BY <1>1, <1>2, <1>4, DataTypedNow DEF DataTyped

LEMMA RunTaskletStep ==
  ASSUME Inv, NEW w \in Workers, pc[w] \in InLoop, fresh.count > 0, NEW F \in FiberRecords,
         \A g \in Fibers : F[g].state = State(g) /\ F[g].tasklet = Job(g),
         RunTasklet(w, F), UNCHANGED <<target, back, created, free>>
  PROVE  Core' /\ DataTyped'
<1>1. current[w] \in Fibers
  BY LoopPlace
<1>2. PICK t : t = Picked(fresh)
  OBVIOUS
<1>3. /\ fresh' = Pick(fresh)
      /\ fiber' = [F EXCEPT ![current[w]].tasklet = t]
      /\ tasklet' = [tasklet EXCEPT ![t] = [owner |-> current[w], status |-> "started"]]
      /\ Goto(w, "tasklet")
      /\ UNCHANGED <<current, cleanup, ready>>
  BY <1>2 DEF RunTasklet
<1>4. fresh.queue \in Seq(Tasklets) /\ Len(fresh.queue) > 0 /\ fresh.count \in Nat
  BY QueuesCounted DEF Inv, TypeOK
<1>5. /\ t \in Tasklets /\ t \in Elements(fresh.queue)
      /\ Tail(fresh.queue) \in Seq(Tasklets)
      /\ \A u : u \in Elements(Tail(fresh.queue)) <=> u \in Elements(fresh.queue) /\ u # t
      /\ Distinct(Tail(fresh.queue))
  BY <1>2, <1>4, Dequeued DEF Inv, QueuesDistinct, Picked
<1>6. fresh'.queue = Tail(fresh.queue) /\ fresh' \in [queue : Seq(Tasklets), count : Nat]
  BY <1>3, <1>4, <1>5 DEF Pick
<1>7. JobBecomes(current[w], t) /\ fiber' \in FiberRecords
  BY <1>1, <1>3, <1>5 DEF JobBecomes, FiberRecords, State, Job
<1>8. Moves(w, "tasklet")
  BY <1>3 DEF Moves
<1>9. Elements(fresh.queue)' \subseteq Elements(fresh.queue) \ {t} /\ Distinct(fresh.queue)'
  BY <1>5, <1>6
<1>10. Core'
  BY <1>3, <1>5, <1>7, <1>8, <1>9, BeginStep
<1>11. tasklet' \in [Tasklets -> [owner : Fibers \cup {None},
                                status : {"new", "queued", "started", "waiting", "done"}]]
  BY <1>1, <1>3 DEF Inv, TypeOK
<1> QED
  BY <1>3, <1>6, <1>7, <1>10, <1>11, DataTypedNow DEF DataTyped

LEMMA FindNothingStep ==
  ASSUME Inv, NEW w \in Workers, pc[w] \in InLoop, NEW F \in FiberRecords,
         \A g \in Fibers : F[g].state = State(g) /\ F[g].tasklet = Job(g),
         NEW l \in InLoop, FindNothing(w, F, l), UNCHANGED <<target, back, created, free>>
  PROVE  Core' /\ DataTyped'
<1>1. fiber' = F /\ Goto(w, l) /\ UNCHANGED <<current, cleanup, tasklet, ready, fresh>>
  BY DEF FindNothing, queues
<1>2. l \in Locations /\ w \in Actors
  BY DEF Locations, Actors
<1>3. PlacesStay
  BY <1>1, <1>2, SamePlace
<1>4. FibersStay
  BY <1>1 DEF FibersStay, State, Job
<1>5. Core'
  BY <1>1, <1>3, <1>4, QuietStep
<1> QED
  BY <1>1, <1>5, DataTypedNow DEF DataTyped

LEMMA TryFirstStep ==
  ASSUME Inv, NEW w \in Workers, TryFirst(w)
  PROVE  Core' /\ DataTyped'
<1>1. /\ pc[w] \in InLoop /\ UNCHANGED <<target, back, created, free>>
      /\ "try_tasklet" \in InLoop /\ "try_fiber" \in InLoop
  BY DEF TryFirst, InLoop
<1>2. PICK p \in AdvancePriority(w) :
        IF p[1].level = 0
        THEN IF ready.count > 0
             THEN RunFiber(w, Prioritised(current[w], p[2]))
             ELSE FindNothing(w, Prioritised(current[w], p[2]), "try_tasklet")
        ELSE IF fresh.count > 0
             THEN RunTasklet(w, Prioritised(current[w], p[2]))
             ELSE FindNothing(w, Prioritised(current[w], p[2]), "try_fiber")
  BY DEF TryFirst
<1>3. PICK F : F = Prioritised(current[w], p[2])
  OBVIOUS
<1>4. F \in FiberRecords /\ \A g \in Fibers : F[g].state = State(g) /\ F[g].tasklet = Job(g)
  BY <1>1, <1>3, LoopPlace, PrioritiesKept
<1>5. \/ ready.count > 0 /\ RunFiber(w, F)
      \/ FindNothing(w, F, "try_tasklet")
      \/ fresh.count > 0 /\ RunTasklet(w, F)
      \/ FindNothing(w, F, "try_fiber")
  BY <1>2, <1>3
<1> QED
  BY <1>1, <1>4, <1>5, RunFiberStep, RunTaskletStep, FindNothingStep

LEMMA TrySecondStep ==
  ASSUME Inv, NEW w \in Workers, TrySecond(w)
  PROVE  Core' /\ DataTyped'
<1>1. pc[w] \in InLoop /\ UNCHANGED <<target, back, created, free>> /\ "loop" \in InLoop
  BY DEF TrySecond, InLoop
<1>2. \/ fresh.count > 0 /\ RunTasklet(w, fiber)
      \/ FindNothing(w, fiber, "loop")
      \/ ready.count > 0 /\ RunFiber(w, fiber)
  BY DEF TrySecond
<1> QED
  BY <1>1, <1>2, FiberKept, RunFiberStep, RunTaskletStep, FindNothingStep

-----------------------------------------------------------------------------
(* The steps that move no fiber. *)

LEMMA QuietData ==
  ASSUME Inv, PlacesStay, UNCHANGED <<target, fibers, tasklet>>,
         ready' \in [queue : {ready.queue}, count : Nat],
         fresh' \in [queue : {fresh.queue}, count : Nat]
  PROVE  Core' /\ DataTyped'
<1>1. /\ ready'.queue = ready.queue /\ fresh'.queue = fresh.queue
      /\ UNCHANGED <<current, cleanup, fiber, created, free>>
  BY DEF fibers
<1>2. FibersStay
  BY <1>1 DEF FibersStay, State, Job
<1>3. Core'
  BY <1>1, <1>2, QuietStep
<1>4. ready.queue \in Seq(Fibers) /\ fresh.queue \in Seq(Tasklets)
  BY DEF Inv, TypeOK
<1>5. ready' \in [queue : Seq(Fibers), count : Nat] /\ fresh' \in [queue : Seq(Tasklets), count : Nat]
  BY <1>4
<1> QED
  BY <1>1, <1>3, <1>5, DataTypedNow DEF DataTyped

LEMMA CountStep ==
  ASSUME Inv, NEW a \in Actors, CountTasklet(a) \/ CountFiber(a)
  PROVE  Core' /\ DataTyped'
<1>1. /\ Goto(a, "post") /\ UNCHANGED <<target, back, fibers, tasklet>>
      /\ pc[a] \in AfterEnqueueing /\ "post" \in AfterEnqueueing /\ "post" \in Locations
  BY DEF CountTasklet, CountFiber, AfterEnqueueing, Locations, Publishing
<1>2. PlacesStay
  BY <1>1, SamePlace
<1>3. ready' \in [queue : {ready.queue}, count : Nat] /\ fresh' \in [queue : {fresh.queue}, count : Nat]
  BY DEF Inv, TypeOK, CountTasklet, CountFiber
<1> QED
  BY <1>1, <1>2, <1>3, QuietData

LEMMA PostStep ==
  ASSUME Inv, NEW a \in Actors, Post(a)
  PROVE  Core' /\ DataTyped'
<1>1. /\ pc[a] = "post" /\ pc'[a] = back[a] /\ back'[a] = "outside"
      /\ \A b \in Actors : b # a => pc'[b] = pc[b] /\ back'[b] = back[b]
      /\ UNCHANGED <<target, fibers, tasklet, ready, fresh>>
  BY DEF Inv, TypeOK, Post, Goto, queues
<1>2. /\ a \in Workers => back[a] \in {"tasklet", "choose"}
      /\ a \notin Workers => back[a] = "outside"
      /\ \A w \in Workers : w \in Actors
  BY <1>1 DEF Inv, ReturnsKnown, Publishing, Actors
<1>3. PlacesStay
  <2>1. \A w \in Workers : w # a => /\ OnFiber(w)' <=> OnFiber(w)
                                    /\ Looping(w)' <=> Looping(w)
                                    /\ InTasklet(w)' <=> InTasklet(w)
    BY <1>1, <1>2 DEF OnFiber, Looping, InTasklet
  <2>2. a \in Workers => /\ OnFiber(a)' <=> OnFiber(a)
                         /\ Looping(a)' <=> Looping(a)
                         /\ InTasklet(a)' <=> InTasklet(a)
    BY <1>1, <1>2 DEF OnFiber, Looping, InTasklet, InLoop, Publishing
  <2>3. pc[a] \notin {"helper", "resumed", "unsuspend"} /\ pc'[a] \notin {"helper", "resumed", "unsuspend"}
    BY <1>1, <1>2
  <2> QED
    BY <1>1, <1>2, <2>1, <2>2, <2>3 DEF PlacesStay
<1>4. ready' \in [queue : {ready.queue}, count : Nat] /\ fresh' \in [queue : {fresh.queue}, count : Nat]
  BY <1>1 DEF Inv, TypeOK
<1> QED
  BY <1>1, <1>3, <1>4, QuietData

LEMMA WorkerStep ==
  ASSUME Inv, NEW w \in Workers, Start(w) \/ CheckRunning(w) \/ WaitForWork(w)
  PROVE  Core' /\ DataTyped'
<1>1. UNCHANGED <<target, back, fibers, tasklet, ready, fresh>> /\ w \in Actors
  BY DEF Start, CheckRunning, WaitForWork, queues, Actors
<1>2. PlacesStay
  <2>1. CASE Start(w)
    <3>1. Goto(w, "request") /\ {pc[w], "request"} \subseteq Away /\ "request" \in Locations
      BY <2>1 DEF Start, Away, Locations, InHelper
    <3> QED
      BY <1>1, <3>1, SamePlace
  <2>2. CASE CheckRunning(w) \/ WaitForWork(w)
    <3>1. PICK l \in InLoop \cup {"exited"} : Goto(w, l) /\ pc[w] \in InLoop
      BY <2>2 DEF CheckRunning, WaitForWork, InLoop
    <3> QED
      BY <1>1, <3>1, SamePlace DEF Locations
  <2> QED
    BY <2>1, <2>2
<1>3. ready' \in [queue : {ready.queue}, count : Nat] /\ fresh' \in [queue : {fresh.queue}, count : Nat]
  BY <1>1 DEF Inv, TypeOK
<1> QED
  BY <1>1, <1>2, <1>3, QuietData

LEMMA JoinStep ==
  ASSUME Inv, NEW o \in Outsiders, Join(o)
  PROVE  Core' /\ DataTyped'
<1>1. UNCHANGED <<target, back, fibers, tasklet, ready, fresh>> /\ o \in Actors
  BY DEF Join, StopRunning, JoinPost, SeeNoneAlive, ClearThreads, queues, Actors
<1>2. PlacesStay
  <2>1. CASE JoinPost(o)
    BY <1>1, <2>1 DEF JoinPost, PlacesStay, OnFiber, Looping, InTasklet
  <2>2. CASE ~JoinPost(o)
    <3>1. PICK l \in OutsideOf : Goto(o, l) /\ pc[o] \in OutsideOf
      BY <2>2 DEF Join, StopRunning, SeeNoneAlive, ClearThreads, OutsideOf
    <3> QED
      BY <1>1, <3>1, SamePlace DEF Locations, OutsideOf
  <2> QED
    BY <2>1, <2>2
<1>3. ready' \in [queue : {ready.queue}, count : Nat] /\ fresh' \in [queue : {fresh.queue}, count : Nat]
  BY <1>1 DEF Inv, TypeOK
<1> QED
  BY <1>1, <1>2, <1>3, QuietData

-----------------------------------------------------------------------------
(* The steps of user code and of publishing. *)

LEMMA UserCodeStep ==
  ASSUME Inv, NEW w \in Actors, UserCode(w)
  PROVE  Core' /\ DataTyped'
<1>1. CASE \E t \in Tasklets : EnqueueTasklet(w, t)
  <2>1. PICK t \in Tasklets : EnqueueTasklet(w, t)
    BY <1>1
  <2>2. Core'
    BY <2>1, EnqueueStep
  <2>3. fresh.queue \in Seq(Tasklets) /\ fresh' = [fresh EXCEPT !.queue = Append(@, t)]
        /\ UNCHANGED <<fiber, ready, free>>
    BY <2>1 DEF Inv, TypeOK, EnqueueTasklet, fibers
  <2>4. fresh' \in [queue : Seq(Tasklets), count : Nat]
    BY <2>3, Appended DEF Inv, TypeOK
  <2>5. tasklet' \in [Tasklets -> [owner : Fibers \cup {None},
                                 status : {"new", "queued", "started", "waiting", "done"}]]
    BY <2>1 DEF Inv, TypeOK, EnqueueTasklet, SetStatus
  <2> QED
    BY <2>2, <2>3, <2>4, <2>5, DataTypedNow DEF DataTyped
<1>2. CASE \E t \in Tasklets : Wake(w, t)
  <2>1. PICK t \in Tasklets : Wake(w, t)
    BY <1>2
  <2>2. Core'
    BY <2>1, WakeStep
  <2>3. UNCHANGED <<fiber, ready, fresh, free>>
    BY <2>1 DEF Wake, fibers, queues
  <2>4. tasklet' \in [Tasklets -> [owner : Fibers \cup {None},
                                 status : {"new", "queued", "started", "waiting", "done"}]]
    BY <2>1 DEF Inv, TypeOK, Wake, SetStatus
  <2> QED
    BY <2>2, <2>3, <2>4, DataTypedNow DEF DataTyped
<1>3. CASE Return(w)
  <2>1. w \in Workers /\ pc[w] = "tasklet" /\ current[w] \in Fibers /\ Job(current[w]) \in Tasklets
    BY <1>3, RunningTasklet DEF Return
  <2>2. /\ tasklet' = [tasklet EXCEPT ![Job(current[w])].status = "done"]
        /\ fiber' = [fiber EXCEPT ![current[w]].tasklet = Null]
        /\ UNCHANGED <<target, back, current, cleanup, created, free, ready, fresh>>
        /\ Goto(w, "loop")
    BY <1>3 DEF Return, SetStatus, Job, queues
  <2>3. JobBecomes(current[w], Null) /\ fiber' \in FiberRecords
    BY <2>1, <2>2, FiberKept DEF JobBecomes, FiberRecords, State, Job
  <2>4. /\ StatusBecomes(Job(current[w]), "done")
        /\ tasklet' \in [Tasklets -> [owner : Fibers \cup {None},
                                    status : {"new", "queued", "started", "waiting", "done"}]]
    BY <2>1, <2>2 DEF Inv, TypeOK, StatusBecomes, Status, Owner
  <2>5. Core'
    BY <2>1, <2>2, <2>3, <2>4, ReturnStep DEF Moves
  <2> QED
    BY <2>2, <2>3, <2>4, <2>5, DataTypedNow DEF DataTyped
<1>4. CASE Yield(w)
  <2>1. w \in Workers /\ pc[w] = "tasklet" /\ current[w] \in Fibers
    BY <1>4, RunningTasklet DEF Yield
  <2>2. /\ fiber' = [fiber EXCEPT ![current[w]].state = "Yielding"]
        /\ UNCHANGED <<target, back, current, cleanup, created, free, tasklet, ready, fresh>>
        /\ Goto(w, "helper")
    BY <1>4 DEF Yield, SetState, queues
  <2>3. StateBecomes(current[w], "Yielding") /\ fiber' \in FiberRecords
    BY <2>1, <2>2, FiberKept DEF StateBecomes, FiberRecords, FiberStates, State, Job
  <2>4. Core'
    BY <2>1, <2>2, <2>3, YieldStep DEF Moves
  <2> QED
    BY <2>2, <2>3, <2>4, DataTypedNow DEF DataTyped
<1>5. CASE Suspend(w)
  <2>1. w \in Workers /\ pc[w] = "tasklet" /\ Job(current[w]) \in Tasklets
    BY <1>5, RunningTasklet DEF Suspend
  <2>2. /\ tasklet' = [tasklet EXCEPT ![Job(current[w])].status = "waiting"]
        /\ UNCHANGED <<target, back, current, cleanup, fiber, created, free, ready, fresh>>
        /\ Goto(w, "helper")
    BY <1>5 DEF Suspend, SetStatus, Job, fibers, queues
  <2>3. /\ StatusBecomes(Job(current[w]), "waiting")
        /\ tasklet' \in [Tasklets -> [owner : Fibers \cup {None},
                                    status : {"new", "queued", "started", "waiting", "done"}]]
    BY <2>1, <2>2 DEF Inv, TypeOK, StatusBecomes, Status, Owner
  <2>4. FibersStay
    BY <2>2 DEF FibersStay, State, Job
  <2>5. Core'
    BY <2>1, <2>2, <2>3, <2>4, SuspendStep DEF Moves
  <2> QED
    BY <2>2, <2>3, <2>5, DataTypedNow DEF DataTyped
<1> QED
  BY <1>1, <1>2, <1>3, <1>4, <1>5 DEF UserCode

LEMMA PublishStep ==
  ASSUME Inv, NEW a \in Actors, Publish(a)
  PROVE  Core' /\ DataTyped'
<1>1. CASE Unsuspend(a)
  <2>1. Core'
    BY <1>1, UnsuspendStep
  <2>2. target[a] \in Fibers
    BY <1>1 DEF Inv, TypeOK, TargetsKnown, Unsuspend
  <2>3. /\ fiber' = [fiber EXCEPT ![target[a]].state = "Runnable"]
        /\ ready' = [ready EXCEPT !.queue = Append(@, target[a])]
        /\ UNCHANGED <<tasklet, fresh, free>>
    BY <1>1 DEF Unsuspend, SetState
  <2>4. fiber' \in FiberRecords
    BY <2>2, <2>3, FiberKept DEF FiberRecords, FiberStates
  <2>5. ready' \in [queue : Seq(Fibers), count : Nat]
    BY <2>2, <2>3, Appended DEF Inv, TypeOK
  <2> QED
    BY <2>1, <2>3, <2>4, <2>5, DataTypedNow DEF DataTyped
<1> QED
  BY <1>1, CountStep, PostStep DEF Publish

LEMMA DispatchStep ==
  ASSUME Inv, NEW w \in Workers, Dispatch(w)
  PROVE  Core' /\ DataTyped'
<1>1. CASE MarkSuspended(w)
  <2>1. Core' /\ current[w] \in Fibers
    BY <1>1, MarkStep, RunningTasklet DEF MarkSuspended
  <2>2. /\ fiber' = [fiber EXCEPT ![current[w]].state = "Suspended"]
        /\ UNCHANGED <<tasklet, ready, fresh, free>>
    BY <1>1 DEF MarkSuspended, SetState, queues
  <2>3. fiber' \in FiberRecords
    BY <2>1, <2>2, FiberKept DEF FiberRecords, FiberStates
  <2> QED
    BY <2>1, <2>2, <2>3, DataTypedNow DEF DataTyped
<1>2. CASE Resume(w)
  <2>1. Core'
    BY <1>2, ResumeStep
  <2>2. UNCHANGED <<tasklet, ready, fresh>>
    BY <1>2 DEF Resume, queues
  <2>3. fiber' \in FiberRecords /\ free' \in Seq(Fibers)
    <3>1. CASE cleanup[w] = None
      BY <1>2, <3>1, FiberKept DEF Inv, TypeOK, Resume
    <3>2. CASE cleanup[w] # None
      <4>1. /\ cleanup[w] \in Fibers
            /\ fiber' = [fiber EXCEPT ![cleanup[w]].state = "Runnable"]
            /\ free' = Append(free, cleanup[w]) /\ free \in Seq(Fibers)
        BY <1>2, <3>2 DEF Inv, TypeOK, Resume, SetState
      <4> QED
        BY <4>1, FiberKept, Appended DEF FiberRecords, FiberStates
    <3> QED
      BY <3>1, <3>2
  <2> QED
    BY <2>1, <2>2, <2>3, DataTypedNow DEF DataTyped
<1> QED
  BY <1>1, <1>2, WorkerStep, ChooseStep, RequestFreeStep, CreateStep, PickAnyStep, TryFirstStep,
     TrySecondStep DEF Dispatch

-----------------------------------------------------------------------------
(* The variables of the threads. *)

LocalsTyped ==
  /\ pc \in [Actors -> Locations]
  /\ target \in [Actors -> Fibers \cup {None}]
  /\ back \in [Actors -> {"outside", "tasklet", "choose"}]
  /\ current \in [Workers -> Fibers \cup {None}]
  /\ cleanup \in [Workers -> Fibers \cup {None}]
  /\ created \in 0 .. FiberLimit
  /\ permits \in Nat
  /\ running \in BOOLEAN
  /\ pauses \in 0 .. MaxPauses

LEMMA LocalsNow == Inv => LocalsTyped /\ ReturnsKnown
BY DEF Inv, TypeOK, LocalsTyped

(* A step that changes none but the place of one thread. *)
LEMMA LocalsMove ==
  ASSUME Inv, NEW a \in Actors, NEW l \in Locations, Goto(a, l), UNCHANGED <<target, back>>,
         current' \in [Workers -> Fibers \cup {None}], cleanup' \in [Workers -> Fibers \cup {None}],
         \A w \in Workers : w # a => current'[w] = current[w],
         created' \in 0 .. FiberLimit, permits' \in Nat, running' \in BOOLEAN,
         pauses' \in 0 .. MaxPauses,
         a \in Workers => /\ l \notin OutsideOf
                          /\ pc[a] \notin Publishing => l \notin Publishing
                          /\ current'[a] \in Fibers \/ l # "choose"
                          /\ current'[a] = current[a] \/ pc[a] \notin Publishing,
         a \notin Workers => l \in Publishing \cup OutsideOf
  PROVE  LocalsTyped' /\ ReturnsKnown'
<1>1. pc'[a] = l /\ (\A b \in Actors : b # a => pc'[b] = pc[b]) /\ pc' \in [Actors -> Locations]
  BY DEF Inv, TypeOK, Goto
<1>2. LocalsTyped'
  BY <1>1 DEF Inv, TypeOK, LocalsTyped
<1>3. \A w : /\ w \in Workers => w \in Actors /\ w \notin Outsiders
             /\ w \in Outsiders => w \in Actors /\ w \notin Workers
  BY SchedulerAssumption DEF Actors
<1>4. ASSUME NEW w \in Workers
      PROVE  /\ pc'[w] \notin OutsideOf
             /\ pc'[w] \in Publishing => back'[w] \in {"tasklet", "choose"}
             /\ pc'[w] = "choose" \/ (pc'[w] \in Publishing /\ back'[w] = "choose") => current'[w] \in Fibers
  <2>1. CASE w = a
    <3>1. CASE l \in Publishing
      <4>1. pc[a] \in Publishing /\ current'[a] = current[a]
        BY <2>1, <3>1
      <4> QED
        BY <1>1, <1>3, <2>1, <3>1, <4>1 DEF Inv, ReturnsKnown, OutsideOf, Publishing
    <3>2. CASE l \notin Publishing
      BY <1>1, <2>1, <3>2
    <3> QED
      BY <3>1, <3>2
  <2>2. CASE w # a
    BY <1>1, <1>3, <1>4, <2>2 DEF Inv, ReturnsKnown, OutsideOf
  <2> QED
    BY <2>1, <2>2
<1>5. ASSUME NEW o \in Outsiders
      PROVE  pc'[o] \in Publishing \cup OutsideOf /\ back'[o] = "outside"
  BY <1>1, <1>3, <1>5 DEF Inv, ReturnsKnown, OutsideOf
<1>6. ReturnsKnown'
  BY <1>4, <1>5 DEF ReturnsKnown, OutsideOf
<1> QED
  BY <1>2, <1>6

LEMMA SwitchLocals ==
  ASSUME Inv, NEW w \in Workers, NEW f \in Fibers, SwitchTo(w, f), pc[w] \notin Publishing,
         UNCHANGED <<target, back, permits, running, pauses>>,
         cleanup' \in [Workers -> Fibers \cup {None}], created' \in 0 .. FiberLimit
  PROVE  LocalsTyped' /\ ReturnsKnown'
<1>1. PICK l \in {"loop", "resumed"} : Goto(w, l)
  BY DEF SwitchTo
<1>2. /\ current' \in [Workers -> Fibers \cup {None}]
      /\ \A v \in Workers : v # w => current'[v] = current[v]
      /\ current'[w] \in Fibers
  BY DEF Inv, TypeOK, SwitchTo
<1>3. l \in Locations /\ l \notin OutsideOf /\ l \notin Publishing /\ w \in Actors
  BY DEF Locations, InLoop, OutsideOf, Publishing, Actors
<1>4. permits' \in Nat /\ running' \in BOOLEAN /\ pauses' \in 0 .. MaxPauses
  BY DEF Inv, TypeOK
<1> QED
  BY <1>1, <1>2, <1>3, <1>4, LocalsMove

LEMMA StayLocals ==
  ASSUME Inv, NEW w \in Workers, NEW l \in Locations, Goto(w, l), pc[w] \notin Publishing,
         l \notin OutsideOf \cup Publishing, l = "choose" => current[w] \in Fibers,
         UNCHANGED <<target, back, current, created, running>>,
         permits' \in Nat, cleanup' \in [Workers -> Fibers \cup {None}],
         pauses' \in 0 .. MaxPauses
  PROVE  LocalsTyped' /\ ReturnsKnown'
<1>1. w \in Actors
  BY DEF Actors
<1>2. /\ created' \in 0 .. FiberLimit /\ running' \in BOOLEAN
      /\ current' \in [Workers -> Fibers \cup {None}]
      /\ \A v \in Workers : current'[v] = current[v]
  BY DEF Inv, TypeOK
<1> QED
  BY <1>1, <1>2, LocalsMove

LEMMA PublishLocals ==
  ASSUME Inv, NEW a \in Actors, Publish(a)
  PROVE  LocalsTyped' /\ ReturnsKnown'
<1> USE DEF Inv, TypeOK, LocalsTyped
<1>1. UNCHANGED <<current, cleanup, created, running, pauses>>
  BY DEF Publish, CountTasklet, CountFiber, Unsuspend, Post, fibers, control
<1>2. \A w : /\ w \in Workers => w \in Actors /\ w \notin Outsiders
             /\ w \in Outsiders => w \in Actors /\ w \notin Workers
  BY SchedulerAssumption DEF Actors
<1>3. CASE CountTasklet(a) \/ CountFiber(a) \/ Unsuspend(a)
  <2>1. PICK l \in {"post", "count_fiber"} : Goto(a, l)
    BY <1>3 DEF CountTasklet, CountFiber, Unsuspend
  <2>2. l \in Publishing /\ l \in Locations /\ pc[a] \in Publishing /\ back' = back /\ permits' = permits
    BY <1>3 DEF CountTasklet, CountFiber, Unsuspend, Locations, Publishing
  <2>3. target' \in [Actors -> Fibers \cup {None}]
    BY <1>3 DEF CountTasklet, CountFiber, Unsuspend
  <2>4. pc' \in [Actors -> Locations] /\ pc'[a] = l /\ \A b \in Actors : b # a => pc'[b] = pc[b]
    BY <2>1, <2>2 DEF Goto
  <2>5. LocalsTyped'
    BY <1>1, <2>2, <2>3, <2>4
  <2>6. l \notin {"outside", "joining", "clear", "joined", "choose"}
    OBVIOUS
  <2>7. ReturnsKnown'
    BY <1>1, <1>2, <2>2, <2>4, <2>6 DEF ReturnsKnown
  <2> QED
    BY <2>5, <2>7
<1>4. CASE Post(a)
  <2>1. /\ pc[a] = "post" /\ pc'[a] = back[a] /\ back'[a] = "outside"
        /\ \A b \in Actors : b # a => pc'[b] = pc[b] /\ back'[b] = back[b]
        /\ target' = target /\ permits' = permits + 1
        /\ back' \in [Actors -> {"outside", "tasklet", "choose"}]
    BY <1>4 DEF Post, Goto
  <2>2. back[a] \in Locations
    BY DEF Locations, InHelper
  <2>3. pc' \in [Actors -> Locations]
    BY <1>4, <2>2 DEF Post, Goto
  <2>4. LocalsTyped'
    BY <1>1, <2>1, <2>3
  <2>5. a \in Workers => back[a] \in {"tasklet", "choose"} /\ (back[a] = "choose" => current[a] \in Fibers)
    BY <2>1 DEF ReturnsKnown, Publishing
  <2>6. a \in Outsiders => back[a] = "outside"
    BY DEF ReturnsKnown
  <2>7. ReturnsKnown'
    BY <1>1, <1>2, <2>1, <2>5, <2>6 DEF ReturnsKnown, Publishing
  <2> QED
    BY <2>4, <2>7
<1> QED
  BY <1>3, <1>4 DEF Publish

LEMMA UserCodeLocals ==
  ASSUME Inv, NEW a \in Actors, UserCode(a)
  PROVE  LocalsTyped' /\ ReturnsKnown'
<1> USE DEF Inv, TypeOK, LocalsTyped
<1>1. CASE \E t \in Tasklets : EnqueueTasklet(a, t) \/ Wake(a, t)
  <2>1. PICK t \in Tasklets : EnqueueTasklet(a, t) \/ Wake(a, t)
    BY <1>1
  <2>2. PICK l \in {"count_tasklet", "unsuspend"} : Goto(a, l)
    BY <2>1 DEF EnqueueTasklet, Wake
  <2>3. /\ InUserCode(a) /\ back' = [back EXCEPT ![a] = pc[a]]
        /\ target' \in [Actors -> Fibers \cup {None}]
        /\ UNCHANGED <<current, cleanup, created, permits, running, pauses>>
    BY <2>1 DEF EnqueueTasklet, Wake, fibers, control
  <2>4. l \in Publishing /\ l \in Locations
    BY DEF Locations, Publishing
  <2>5. /\ pc' \in [Actors -> Locations] /\ pc'[a] = l
        /\ back' \in [Actors -> {"outside", "tasklet", "choose"}] /\ back'[a] = pc[a]
        /\ \A b \in Actors : b # a => pc'[b] = pc[b] /\ back'[b] = back[b]
    BY <2>2, <2>3, <2>4 DEF Goto, InUserCode
  <2>6. LocalsTyped'
    BY <2>3, <2>5
  <2>7. \A w : /\ w \in Workers => w \in Actors /\ w \notin Outsiders
               /\ w \in Outsiders => w \in Actors /\ w \notin Workers
    BY SchedulerAssumption DEF Actors
  <2>8. (a \in Workers => pc[a] = "tasklet") /\ (a \in Outsiders => pc[a] = "outside")
    BY <2>3 DEF ReturnsKnown, InUserCode, Publishing
  <2>9. l \notin {"outside", "joining", "clear", "joined", "choose"}
    OBVIOUS
  <2>10. ReturnsKnown'
    BY <2>3, <2>4, <2>5, <2>7, <2>8, <2>9 DEF ReturnsKnown
  <2> QED
    BY <2>6, <2>10
<1>2. CASE Return(a) \/ Yield(a) \/ Suspend(a)
  <2>1. PICK l \in {"loop", "helper"} : Goto(a, l)
    BY <1>2 DEF Return, Yield, Suspend
  <2>2. /\ a \in Workers /\ pc[a] = "tasklet"
        /\ UNCHANGED <<target, back, current, cleanup, created, permits, running>>
        /\ pauses' \in 0 .. MaxPauses
    <3>1. CASE Return(a)
      BY <3>1 DEF Return, control
    <3>2. CASE Yield(a) \/ Suspend(a)
      <4>1. pauses < MaxPauses /\ pauses' = pauses + 1
        BY <3>2 DEF Yield, Suspend
      <4>2. pauses' \in 0 .. MaxPauses
        BY <4>1, SchedulerAssumption
      <4> QED
        BY <3>2, <4>2 DEF Yield, Suspend, fibers, control
    <3> QED
      BY <1>2, <3>1, <3>2
  <2>3. /\ l \in Locations /\ l \notin OutsideOf \cup Publishing /\ l # "choose"
        /\ pc[a] \notin Publishing
    BY <2>2 DEF Locations, InLoop, InHelper, OutsideOf, Publishing
  <2> QED
    BY <2>1, <2>2, <2>3, StayLocals
<1> QED
  BY <1>1, <1>2 DEF UserCode

LEMMA JoinLocals ==
  ASSUME Inv, NEW o \in Outsiders, Join(o)
  PROVE  LocalsTyped' /\ ReturnsKnown'
<1> USE DEF Inv, TypeOK
<1>1. UNCHANGED <<target, back, current, cleanup, created, pauses>> /\ permits' \in Nat
      /\ running' \in BOOLEAN
  <2>1. permits' = permits \/ permits' = permits + 1
    BY DEF Join, StopRunning, JoinPost, SeeNoneAlive, ClearThreads
  <2>2. running' = running \/ running' = FALSE
    BY DEF Join, StopRunning, JoinPost, SeeNoneAlive, ClearThreads, control
  <2>3. UNCHANGED <<target, back, current, cleanup, created, pauses>>
    BY DEF Join, StopRunning, JoinPost, SeeNoneAlive, ClearThreads, fibers
  <2>4. permits' \in Nat
    BY <2>1
  <2>5. running' \in BOOLEAN
    BY <2>2
  <2> QED
    BY <2>3, <2>4, <2>5
<1>2. CASE JoinPost(o)
  BY <1>1, <1>2, LocalsNow DEF JoinPost, LocalsTyped, ReturnsKnown
<1>3. CASE ~JoinPost(o)
  <2>1. PICK l \in OutsideOf : Goto(o, l)
    BY <1>3 DEF Join, StopRunning, SeeNoneAlive, ClearThreads, OutsideOf
  <2>2. o \in Actors /\ o \notin Workers /\ l \in Locations
    BY SchedulerAssumption DEF Actors, Locations, OutsideOf
  <2> QED
    BY <1>1, <2>1, <2>2, LocalsMove
<1> QED
  BY <1>2, <1>3

LEMMA FirstReady ==
  ASSUME Inv, ready.count > 0
  PROVE  Picked(ready) \in Fibers
BY QueuesCounted, Dequeued DEF Inv, TypeOK, Picked

LEMMA DispatchLocals ==
  ASSUME Inv, NEW w \in Workers, Dispatch(w)
  PROVE  LocalsTyped' /\ ReturnsKnown'
<1>1. /\ permits \in Nat /\ created \in 0 .. FiberLimit /\ pauses \in 0 .. MaxPauses
      /\ cleanup \in [Workers -> Fibers \cup {None}]
      /\ \A l \in {"request", "create", "pick_any", "choose", "loop", "wait", "wait_done",
                   "try_tasklet", "try_fiber", "tasklet", "exited"} :
           l \in Locations /\ l \notin OutsideOf \cup Publishing
  BY DEF Inv, TypeOK, Locations, InHelper, InLoop, OutsideOf, Publishing
<1>2. CASE MarkSuspended(w)
  <2>1. /\ pc[w] = "helper" /\ current[w] \in Fibers /\ w \in Actors
        /\ UNCHANGED <<current, cleanup, created, permits, running, pauses>>
    BY <1>2, RunningTasklet DEF MarkSuspended, control, Actors
  <2>2. PICK l \in {"unsuspend", "choose"} : Goto(w, l)
    BY <1>2 DEF MarkSuspended
  <2>3. /\ target' \in [Actors -> Fibers \cup {None}]
        /\ back' \in [Actors -> {"outside", "tasklet", "choose"}]
        /\ \A b \in Actors : b # w => back'[b] = back[b]
    BY <1>2, <2>1 DEF Inv, TypeOK, MarkSuspended
  <2>4. l = "unsuspend" => back'[w] = "choose"
    BY <1>2, <2>1, <2>2 DEF Inv, TypeOK, MarkSuspended, Goto
  <2>5. /\ pc' \in [Actors -> Locations] /\ pc'[w] = l /\ \A b \in Actors : b # w => pc'[b] = pc[b]
    BY <2>1, <2>2 DEF Inv, TypeOK, Goto, Locations, InHelper, Publishing
  <2>6. LocalsTyped'
    BY <2>1, <2>3, <2>5 DEF Inv, TypeOK, LocalsTyped
  <2>7. \A v : /\ v \in Workers => v \in Actors /\ v \notin Outsiders
               /\ v \in Outsiders => v \in Actors /\ v \notin Workers
    BY SchedulerAssumption DEF Actors
  <2>8. l \notin {"outside", "joining", "clear", "joined"} /\ (l \in Publishing => l = "unsuspend")
    BY DEF Publishing
  <2>9. ReturnsKnown'
    BY <2>1, <2>3, <2>4, <2>5, <2>7, <2>8 DEF Inv, ReturnsKnown
  <2> QED
    BY <2>6, <2>9
<1>3. CASE Start(w) \/ CheckRunning(w) \/ WaitForWork(w)
  <2>1. UNCHANGED <<target, back, current, cleanup, created, pauses>> /\ running' = running
    BY <1>3 DEF Start, CheckRunning, WaitForWork, fibers, control
  <2>2. permits' \in Nat
    <3>1. permits' = permits \/ (permits > 0 /\ permits' = permits - 1)
      BY <1>3 DEF Start, CheckRunning, WaitForWork
    <3> QED
      BY <1>1, <3>1
  <2>3. PICK l \in {"request", "wait", "exited", "wait_done"} : Goto(w, l)
    BY <1>3 DEF Start, CheckRunning, WaitForWork
  <2>4. pc[w] \notin Publishing
    BY <1>3 DEF Start, CheckRunning, WaitForWork, Publishing
  <2> QED
    BY <1>1, <2>1, <2>2, <2>3, <2>4, StayLocals
<1>4. CASE Choose(w)
  <2>1. /\ pc[w] \notin Publishing
        /\ UNCHANGED <<target, back, cleanup, created, permits, running, pauses>>
    BY <1>4 DEF Choose, control, Publishing
  <2>2. \/ ready.count > 0 /\ SwitchTo(w, Picked(ready))
        \/ Goto(w, "request") /\ current' = current
    BY <1>4 DEF Choose
  <2> QED
    BY <1>1, <2>1, <2>2, FirstReady, SwitchLocals, StayLocals
<1>5. CASE RequestFree(w)
  <2>1. /\ pc[w] \notin Publishing
        /\ UNCHANGED <<target, back, cleanup, created, permits, running, pauses>>
    BY <1>5 DEF RequestFree, control, Publishing
  <2>2. \/ free # <<>> /\ SwitchTo(w, Head(free))
        \/ Goto(w, "create") /\ current' = current
    BY <1>5 DEF RequestFree
  <2>3. free # <<>> => Head(free) \in Fibers
    BY DEF Inv, TypeOK
  <2> QED
    BY <1>1, <2>1, <2>2, <2>3, SwitchLocals, StayLocals
<1>6. CASE Create(w)
  <2>1. /\ pc[w] \notin Publishing
        /\ UNCHANGED <<target, back, cleanup, permits, running, pauses>>
    BY <1>6 DEF Create, control, Publishing
  <2>2. \/ created < FiberLimit /\ created' = created + 1 /\ SwitchTo(w, created + 1)
        \/ created' = created /\ Goto(w, "pick_any") /\ current' = current
    BY <1>6 DEF Create
  <2>3. created < FiberLimit => created + 1 \in Fibers /\ created + 1 \in 0 .. FiberLimit
    BY <1>1, SchedulerAssumption DEF Fibers
  <2> QED
    BY <1>1, <2>1, <2>2, <2>3, SwitchLocals, StayLocals
<1>7. CASE PickAny(w)
  <2>1. /\ pc[w] \notin Publishing
        /\ UNCHANGED <<target, back, cleanup, created, permits, running, pauses>>
    BY <1>7 DEF PickAny, control, Publishing
  <2>2. \/ ready.count > 0 /\ SwitchTo(w, Picked(ready))
        \/ Goto(w, IF current[w] = None THEN "request" ELSE "choose") /\ current' = current
    BY <1>7 DEF PickAny
  <2>3. current[w] = None \/ current[w] \in Fibers
    BY DEF Inv, TypeOK
  <2> QED
    BY <1>1, <2>1, <2>2, <2>3, FirstReady, SwitchLocals, StayLocals
<1>8. CASE Resume(w)
  <2>1. /\ pc[w] \notin Publishing /\ Goto(w, "tasklet")
        /\ UNCHANGED <<target, back, current, created, permits, running, pauses>>
    BY <1>8 DEF Resume, control, Publishing
  <2>2. cleanup' \in [Workers -> Fibers \cup {None}]
    BY <1>1, <1>8 DEF Resume
  <2> QED
    BY <1>1, <2>1, <2>2, StayLocals
<1>9. CASE TryFirst(w) \/ TrySecond(w)
  <2>1. /\ pc[w] \in InLoop /\ pc[w] \notin Publishing
        /\ UNCHANGED <<target, back, created, permits, running, pauses>>
    BY <1>9 DEF TryFirst, TrySecond, InLoop, Publishing, control
  <2>2. \/ /\ ready.count > 0 /\ SwitchTo(w, Picked(ready))
           /\ cleanup' = [cleanup EXCEPT ![w] = current[w]]
        \/ /\ \E l \in {"tasklet", "try_tasklet", "try_fiber", "loop"} : Goto(w, l)
           /\ UNCHANGED <<current, cleanup>>
    BY <1>9 DEF TryFirst, TrySecond, RunFiber, RunTasklet, FindNothing
  <2>3. [cleanup EXCEPT ![w] = current[w]] \in [Workers -> Fibers \cup {None}]
    BY <1>1, <2>1, LoopPlace
  <2> QED
    BY <1>1, <2>1, <2>2, <2>3, FirstReady, SwitchLocals, StayLocals
<1> QED
  BY <1>2, <1>3, <1>4, <1>5, <1>6, <1>7, <1>8, <1>9 DEF Dispatch

-----------------------------------------------------------------------------
(* The counts. *)

LEMMA SetsFinite ==
  /\ \A l : IsFiniteSet(At(l)) /\ Cardinality(At(l)) \in Nat
  /\ IsFiniteSet(Started) /\ Cardinality(Started) \in Nat
<1>1. IsFiniteSet(Actors)
  BY SchedulerAssumption, FS_Union DEF Actors
<1>2. \A l : IsFiniteSet(At(l))
  BY <1>1, FS_Subset DEF At
<1>3. IsFiniteSet(Started)
  BY SchedulerAssumption, FS_Subset DEF Started
<1> QED
  BY <1>2, <1>3, FS_CardinalityType

(* One thread goes from one place to another. *)
LEMMA SetsMove ==
  ASSUME Inv, NEW a \in Actors, NEW l, Goto(a, l)
  PROVE  /\ \A k : k # pc[a] /\ k # l => At(k)' = At(k)
         /\ \A k : k = pc[a] /\ k = l => At(k)' = At(k)
         /\ \A k : k = l /\ k # pc[a] => Cardinality(At(k)') = Cardinality(At(k)) + 1
         /\ \A k : k = pc[a] /\ k # l => Cardinality(At(k)') = Cardinality(At(k)) - 1
         /\ (pc[a] \in {"start", "exited"} <=> l \in {"start", "exited"}) \/ a \notin Workers
              => Started' = Started
<1>1. pc'[a] = l /\ \A b \in Actors : b # a => pc'[b] = pc[b]
  BY DEF Inv, TypeOK, Goto
<1>2. \A w \in Workers : w \in Actors
  BY DEF Actors
<1>3. ASSUME NEW k, (k # pc[a] /\ k # l) \/ (k = pc[a] /\ k = l) PROVE At(k)' = At(k)
  BY <1>1, <1>3 DEF At
<1>4. ASSUME NEW k, k = l, k # pc[a] PROVE Cardinality(At(k)') = Cardinality(At(k)) + 1
  <2>1. At(k)' = At(k) \cup {a} /\ a \notin At(k)
    BY <1>1, <1>4 DEF At
  <2> QED
    BY <2>1, SetsFinite, FS_AddElement
<1>5. ASSUME NEW k, k = pc[a], k # l PROVE Cardinality(At(k)') = Cardinality(At(k)) - 1
  <2>1. At(k)' = At(k) \ {a} /\ a \in At(k)
    BY <1>1, <1>5 DEF At
  <2> QED
    BY <2>1, SetsFinite, FS_RemoveElement
<1>6. ASSUME (pc[a] \in {"start", "exited"} <=> l \in {"start", "exited"}) \/ a \notin Workers
      PROVE  Started' = Started
  BY <1>1, <1>2, <1>6 DEF Started
<1> QED
  BY <1>3, <1>4, <1>5, <1>6

LEMMA LengthsKnown ==
  ASSUME Inv
  PROVE  /\ Len(ready.queue) \in Nat /\ Len(fresh.queue) \in Nat
         /\ ready.count \in Nat /\ fresh.count \in Nat
         /\ ready.count + Cardinality(At("count_fiber")) = Len(ready.queue)
         /\ fresh.count + Cardinality(At("count_tasklet")) = Len(fresh.queue)
         /\ alive = Cardinality(Started)
BY DEF Inv, TypeOK, Counted, CountsBacked

(* A queue loses an element and its count one, or neither changes. *)
SameSlack(q) ==
  \/ q'.count = q.count /\ Len(q'.queue) = Len(q.queue)
  \/ q'.count = q.count - 1 /\ Len(q'.queue) = Len(q.queue) - 1

LEMMA SlackKept ==
  ASSUME NEW count \in Nat, NEW length \in Nat, NEW slack \in Nat, count + slack = length
  PROVE  (count - 1) + slack = length - 1
OBVIOUS

LEMMA CountsKept ==
  ASSUME Inv, NEW a \in Actors, NEW l, Goto(a, l),
         pc[a] \notin {"count_fiber", "count_tasklet"}, l \notin {"count_fiber", "count_tasklet"},
         SameSlack(ready), SameSlack(fresh)
  PROVE  CountsBacked'
<1>1. At("count_fiber")' = At("count_fiber") /\ At("count_tasklet")' = At("count_tasklet")
  BY SetsMove
<1> QED
  <2>1. /\ Cardinality(At("count_fiber")') = Cardinality(At("count_fiber"))
        /\ Cardinality(At("count_tasklet")') = Cardinality(At("count_tasklet"))
    BY <1>1
  <2>2. Cardinality(At("count_fiber")) \in Nat /\ Cardinality(At("count_tasklet")) \in Nat
    BY SetsFinite
  <2>3. ready'.count + Cardinality(At("count_fiber")) = Len(ready'.queue)
    <3>1. CASE ready'.count = ready.count /\ Len(ready'.queue) = Len(ready.queue)
      BY <3>1, LengthsKnown
    <3>2. CASE ready'.count = ready.count - 1 /\ Len(ready'.queue) = Len(ready.queue) - 1
      <4>1. /\ ready.count \in Nat /\ Len(ready.queue) \in Nat
            /\ ready.count + Cardinality(At("count_fiber")) = Len(ready.queue)
        BY LengthsKnown
      <4>2. (ready.count - 1) + Cardinality(At("count_fiber")) = Len(ready.queue) - 1
        BY <2>2, <4>1, SlackKept
      <4> QED
        BY <3>2, <4>2
    <3> QED
      BY <3>1, <3>2 DEF SameSlack
  <2>4. fresh'.count + Cardinality(At("count_tasklet")) = Len(fresh'.queue)
    <3>1. CASE fresh'.count = fresh.count /\ Len(fresh'.queue) = Len(fresh.queue)
      BY <3>1, LengthsKnown
    <3>2. CASE fresh'.count = fresh.count - 1 /\ Len(fresh'.queue) = Len(fresh.queue) - 1
      <4>1. /\ fresh.count \in Nat /\ Len(fresh.queue) \in Nat
            /\ fresh.count + Cardinality(At("count_tasklet")) = Len(fresh.queue)
        BY LengthsKnown
      <4>2. (fresh.count - 1) + Cardinality(At("count_tasklet")) = Len(fresh.queue) - 1
        BY <2>2, <4>1, SlackKept
      <4> QED
        BY <3>2, <4>2
    <3> QED
      BY <3>1, <3>2 DEF SameSlack
  <2> QED
    BY <2>1, <2>3, <2>4 DEF CountsBacked

LEMMA ReadyPicked ==
  ASSUME Inv, ready.count > 0, ready' = Pick(ready)
  PROVE  SameSlack(ready)
<1>1. ready.queue \in Seq(Fibers) /\ Len(ready.queue) > 0
  BY QueuesCounted DEF Inv, TypeOK
<1>2. Len(Tail(ready.queue)) = Len(ready.queue) - 1
  BY <1>1, Dequeued
<1> QED
  BY <1>2 DEF SameSlack, Pick

LEMMA FreshPicked ==
  ASSUME Inv, fresh.count > 0, fresh' = Pick(fresh)
  PROVE  SameSlack(fresh)
<1>1. fresh.queue \in Seq(Tasklets) /\ Len(fresh.queue) > 0
  BY QueuesCounted DEF Inv, TypeOK
<1>2. Len(Tail(fresh.queue)) = Len(fresh.queue) - 1
  BY <1>1, Dequeued
<1> QED
  BY <1>2 DEF SameSlack, Pick

LEMMA PublishCounts ==
  ASSUME Inv, NEW a \in Actors, Publish(a)
  PROVE  Counted'
<1>1. ASSUME NEW l, Goto(a, l), l \notin {"start", "exited"}, UNCHANGED alive PROVE alive' = Cardinality(Started)'
  <2>1. pc[a] \notin {"start", "exited"}
    BY DEF Publish, CountTasklet, CountFiber, Unsuspend, Post
  <2>2. Started' = Started
    BY <1>1, <2>1, SetsMove
  <2> QED
    BY <1>1, <2>2, LengthsKnown
<1>2. CASE CountTasklet(a)
  <2>1. /\ pc[a] = "count_tasklet" /\ Goto(a, "post") /\ alive' = alive
        /\ ready' = ready /\ fresh'.count = fresh.count + 1 /\ fresh'.queue = fresh.queue
    BY <1>2 DEF Inv, TypeOK, CountTasklet, control
  <2>2. /\ Cardinality(At("count_tasklet")') = Cardinality(At("count_tasklet")) - 1
        /\ At("count_fiber")' = At("count_fiber")
    BY <2>1, SetsMove
  <2>3. alive' = Cardinality(Started)'
    BY <1>1, <2>1
  <2> QED
    BY <2>1, <2>2, <2>3, LengthsKnown, SetsFinite DEF Counted, CountsBacked
<1>3. CASE CountFiber(a)
  <2>1. /\ pc[a] = "count_fiber" /\ Goto(a, "post") /\ alive' = alive
        /\ fresh' = fresh /\ ready'.count = ready.count + 1 /\ ready'.queue = ready.queue
    BY <1>3 DEF Inv, TypeOK, CountFiber, control
  <2>2. /\ Cardinality(At("count_fiber")') = Cardinality(At("count_fiber")) - 1
        /\ At("count_tasklet")' = At("count_tasklet")
    BY <2>1, SetsMove
  <2>3. alive' = Cardinality(Started)'
    BY <1>1, <2>1
  <2> QED
    BY <2>1, <2>2, <2>3, LengthsKnown, SetsFinite DEF Counted, CountsBacked
<1>4. CASE Unsuspend(a)
  <2>1. /\ pc[a] = "unsuspend" /\ Goto(a, "count_fiber") /\ alive' = alive
        /\ fresh' = fresh /\ ready' = [ready EXCEPT !.queue = Append(@, target[a])]
    BY <1>4 DEF Unsuspend, control
  <2>2. /\ Cardinality(At("count_fiber")') = Cardinality(At("count_fiber")) + 1
        /\ At("count_tasklet")' = At("count_tasklet")
    BY <2>1, SetsMove
  <2>3. alive' = Cardinality(Started)'
    BY <1>1, <2>1
  <2>4. Len(ready'.queue) = Len(ready.queue) + 1 /\ ready'.count = ready.count
    <3>1. target[a] \in Fibers /\ ready.queue \in Seq(Fibers)
      BY <2>1 DEF Inv, TypeOK, TargetsKnown
    <3> QED
      BY <2>1, <3>1, Appended DEF Inv, TypeOK
  <2>5. CountsBacked'
    <3>1. Cardinality(At("count_fiber")') = Cardinality(At("count_fiber")) + 1
      BY <2>2
    <3>2. Cardinality(At("count_tasklet")') = Cardinality(At("count_tasklet")) /\ fresh' = fresh
      BY <2>1, <2>2
    <3>3. ready'.count + Cardinality(At("count_fiber")') = Len(ready'.queue)
      <4>1. Cardinality(At("count_fiber")) \in Nat
        BY SetsFinite
      <4> QED
        BY <2>4, <3>1, <4>1, LengthsKnown
    <3> QED
      BY <3>2, <3>3, LengthsKnown DEF CountsBacked
  <2> QED
    BY <2>3, <2>5 DEF Counted
<1>5. CASE Post(a)
  <2>1. /\ pc[a] = "post" /\ Goto(a, back[a]) /\ alive' = alive
        /\ fresh' = fresh /\ ready' = ready
    BY <1>5 DEF Post, control, queues
  <2>2. back[a] \in {"outside", "tasklet", "choose"}
    BY DEF Inv, TypeOK
  <2>3. CountsBacked'
    BY <2>1, <2>2, CountsKept DEF SameSlack
  <2> QED
    BY <1>1, <2>1, <2>2, <2>3 DEF Counted
<1> QED
  BY <1>2, <1>3, <1>4, <1>5 DEF Publish

LEMMA UserCodeCounts ==
  ASSUME Inv, NEW a \in Actors, UserCode(a)
  PROVE  Counted'
<1>1. CASE \E t \in Tasklets : EnqueueTasklet(a, t)
  <2>1. PICK t \in Tasklets : EnqueueTasklet(a, t)
    BY <1>1
  <2>2. /\ pc[a] \in {"tasklet", "outside"} /\ Goto(a, "count_tasklet") /\ alive' = alive
        /\ ready' = ready /\ fresh' = [fresh EXCEPT !.queue = Append(@, t)]
    BY <2>1 DEF EnqueueTasklet, InUserCode, control
  <2>3. /\ Cardinality(At("count_tasklet")') = Cardinality(At("count_tasklet")) + 1
        /\ At("count_fiber")' = At("count_fiber")
        /\ Started' = Started
    BY <2>2, SetsMove
  <2>4. Len(fresh'.queue) = Len(fresh.queue) + 1 /\ fresh'.count = fresh.count
    <3>1. fresh.queue \in Seq(Tasklets)
      BY DEF Inv, TypeOK
    <3> QED
      BY <2>2, <3>1, Appended DEF Inv, TypeOK
  <2>5. ready'.count + Cardinality(At("count_fiber")') = Len(ready'.queue)
    BY <2>2, <2>3, LengthsKnown
  <2>6. fresh.count + (Cardinality(At("count_tasklet")) + 1) = Len(fresh.queue) + 1
    BY LengthsKnown, SetsFinite
  <2>7. fresh'.count + Cardinality(At("count_tasklet")') = Len(fresh'.queue)
    BY <2>3, <2>4, <2>6
  <2>8. alive' = Cardinality(Started')
    BY <2>2, <2>3, LengthsKnown
  <2> QED
    BY <2>5, <2>7, <2>8 DEF Counted, CountsBacked
<1>2. CASE ~\E t \in Tasklets : EnqueueTasklet(a, t)
  <2>1. PICK l \in {"unsuspend", "loop", "helper"} : Goto(a, l)
    BY <1>2 DEF UserCode, Wake, Return, Yield, Suspend
  <2>2. pc[a] \in {"tasklet", "outside"} /\ alive' = alive /\ ready' = ready /\ fresh' = fresh
    BY <1>2 DEF UserCode, Wake, Return, Yield, Suspend, InUserCode, control, queues
  <2>3. CountsBacked'
    BY <2>1, <2>2, CountsKept DEF SameSlack
  <2>4. Started' = Started
    BY <2>1, <2>2, SetsMove
  <2> QED
    BY <2>2, <2>3, <2>4, LengthsKnown DEF Counted
<1> QED
  BY <1>1, <1>2

LEMMA JoinCounts ==
  ASSUME Inv, NEW o \in Outsiders, Join(o)
  PROVE  Counted'
<1>1. o \in Actors /\ o \notin Workers
  BY SchedulerAssumption DEF Actors
<1>2. alive' = alive /\ ready' = ready /\ fresh' = fresh
  BY DEF Join, StopRunning, JoinPost, SeeNoneAlive, ClearThreads, control, queues
<1>3. CASE JoinPost(o)
  BY <1>2, <1>3, LengthsKnown DEF JoinPost, Counted, CountsBacked, At, Started
<1>4. CASE ~JoinPost(o)
  <2>1. PICK l \in OutsideOf : Goto(o, l) /\ pc[o] \in OutsideOf
    BY <1>4 DEF Join, StopRunning, SeeNoneAlive, ClearThreads, OutsideOf
  <2>2. CountsBacked'
    BY <1>1, <1>2, <2>1, CountsKept DEF SameSlack, OutsideOf
  <2>3. Started' = Started
    BY <1>1, <2>1, SetsMove
  <2> QED
    BY <1>2, <2>2, <2>3, LengthsKnown DEF Counted
<1> QED
  BY <1>3, <1>4

LEMMA DispatchCounts ==
  ASSUME Inv, NEW w \in Workers, Dispatch(w)
  PROVE  Counted'
<1>1. w \in Actors
  BY DEF Actors
<1>2. CASE Start(w)
  <2>1. pc[w] = "start" /\ Goto(w, "request") /\ alive' = alive + 1 /\ ready' = ready /\ fresh' = fresh
    BY <1>2 DEF Start, queues
  <2>2. CountsBacked'
    BY <1>1, <2>1, CountsKept DEF SameSlack
  <2>3. Started' = Started \cup {w} /\ w \notin Started
    BY <1>1, <2>1 DEF Inv, TypeOK, Goto, Started, Actors
  <2>4. Cardinality(Started') = Cardinality(Started) + 1
    BY <2>3, SetsFinite, FS_AddElement
  <2> QED
    BY <2>1, <2>2, <2>4, LengthsKnown DEF Counted
<1>3. CASE CheckRunning(w) /\ ~running
  <2>1. pc[w] = "loop" /\ Goto(w, "exited") /\ alive' = alive - 1 /\ ready' = ready /\ fresh' = fresh
    BY <1>3 DEF CheckRunning, queues
  <2>2. CountsBacked'
    BY <1>1, <2>1, CountsKept DEF SameSlack
  <2>3. Started' = Started \ {w} /\ w \in Started
    BY <1>1, <2>1 DEF Inv, TypeOK, Goto, Started, Actors
  <2>4. Cardinality(Started') = Cardinality(Started) - 1
    BY <2>3, SetsFinite, FS_RemoveElement
  <2> QED
    BY <2>1, <2>2, <2>4, LengthsKnown DEF Counted
<1>4. CASE ~Start(w) /\ ~(CheckRunning(w) /\ ~running)
  <2>1. PICK l \in {"unsuspend", "choose", "loop", "resumed", "request", "create", "pick_any",
                   "tasklet", "wait", "wait_done", "try_tasklet", "try_fiber"} : Goto(w, l)
    <3>1. CASE MarkSuspended(w) \/ Resume(w) \/ WaitForWork(w) \/ (CheckRunning(w) /\ running)
      BY <3>1 DEF MarkSuspended, Resume, WaitForWork, CheckRunning
    <3>2. CASE Choose(w) \/ RequestFree(w) \/ Create(w) \/ PickAny(w)
      BY <3>2 DEF Choose, RequestFree, Create, PickAny, SwitchTo
    <3>3. CASE TryFirst(w) \/ TrySecond(w)
      BY <3>3 DEF TryFirst, TrySecond, RunFiber, RunTasklet, FindNothing, SwitchTo
    <3> QED
      BY <1>4, <3>1, <3>2, <3>3 DEF Dispatch
  <2>2. pc[w] \notin {"count_fiber", "count_tasklet", "start", "exited"}
    BY <1>4 DEF Dispatch, CheckRunning, WaitForWork, MarkSuspended, Choose, RequestFree, Create, PickAny,
                Resume, TryFirst, TrySecond
  <2>3. alive' = alive
    BY <1>4 DEF Dispatch, CheckRunning, WaitForWork, MarkSuspended, Choose, RequestFree, Create, PickAny,
                Resume, TryFirst, TrySecond, control
  <2>4. \/ ready' = ready
        \/ ready.count > 0 /\ ready' = Pick(ready)
    <3>1. CASE MarkSuspended(w) \/ Resume(w) \/ WaitForWork(w) \/ CheckRunning(w)
               \/ RequestFree(w) \/ Create(w)
      BY <3>1 DEF MarkSuspended, Resume, WaitForWork, CheckRunning, RequestFree, Create, queues
    <3>2. CASE Choose(w) \/ PickAny(w)
      BY <3>2 DEF Choose, PickAny
    <3>3. CASE TryFirst(w) \/ TrySecond(w)
      BY <3>3 DEF TryFirst, TrySecond, RunFiber, RunTasklet, FindNothing, queues
    <3> QED
      BY <1>4, <3>1, <3>2, <3>3 DEF Dispatch
  <2>5. \/ fresh' = fresh
        \/ fresh.count > 0 /\ fresh' = Pick(fresh)
    <3>1. CASE MarkSuspended(w) \/ Resume(w) \/ WaitForWork(w) \/ CheckRunning(w)
               \/ RequestFree(w) \/ Create(w) \/ Choose(w) \/ PickAny(w)
      BY <3>1 DEF MarkSuspended, Resume, WaitForWork, CheckRunning, RequestFree, Create, Choose, PickAny,
                  queues
    <3>2. CASE TryFirst(w) \/ TrySecond(w)
      BY <3>2 DEF TryFirst, TrySecond, RunFiber, RunTasklet, FindNothing, queues
    <3> QED
      BY <1>4, <3>1, <3>2 DEF Dispatch
  <2>6. SameSlack(ready) /\ SameSlack(fresh)
    <3>1. ready' = ready => SameSlack(ready)
      BY DEF SameSlack
    <3>2. fresh' = fresh => SameSlack(fresh)
      BY DEF SameSlack
    <3> QED
      BY <2>4, <2>5, <3>1, <3>2, ReadyPicked, FreshPicked
  <2>7. CountsBacked'
    BY <1>1, <2>1, <2>2, <2>6, CountsKept
  <2>8. Started' = Started
    BY <1>1, <2>1, <2>2, SetsMove
  <2> QED
    BY <2>3, <2>7, <2>8, LengthsKnown DEF Counted
<1> QED
  BY <1>2, <1>3, <1>4

-----------------------------------------------------------------------------
(* The invariant. *)

LEMMA InvParts == Core' /\ DataTyped' /\ LocalsTyped' /\ ReturnsKnown' /\ Counted' => Inv'
<1>1. Cardinality(Started') \in 0 .. Cardinality(Workers)
  <2>1. Started' \in SUBSET Workers
    BY DEF Started
  <2> QED
    BY <2>1, SchedulerAssumption, FS_Subset, FS_CardinalityType
<1> QED
  BY <1>1 DEF Core, DataTyped, LocalsTyped, Counted, Inv, TypeOK, FiberRecords

LEMMA NextInv == Inv /\ [Next]_vars => Inv'
<1> SUFFICES ASSUME Inv, [Next]_vars PROVE Inv'
  OBVIOUS
<1>1. \A w : w \in Workers \/ w \in Outsiders <=> w \in Actors
  BY DEF Actors
<1>2. ASSUME NEW a \in Actors, Publish(a) PROVE Inv'
  BY <1>2, PublishStep, PublishLocals, PublishCounts, InvParts
<1>3. ASSUME NEW a \in Actors, UserCode(a) PROVE Inv'
  BY <1>3, UserCodeStep, UserCodeLocals, UserCodeCounts, InvParts
<1>4. ASSUME NEW w \in Workers, Dispatch(w) PROVE Inv'
  BY <1>4, DispatchStep, DispatchLocals, DispatchCounts, InvParts
<1>5. ASSUME NEW o \in Outsiders, Join(o) PROVE Inv'
  BY <1>5, JoinStep, JoinLocals, JoinCounts, InvParts
<1>6. CASE UNCHANGED vars
  <2>1. UNCHANGED <<pc, target, back, current, cleanup, fiber, created, free, tasklet, ready, fresh,
                    permits, running, alive, pauses>>
    BY <1>6 DEF vars, fibers, queues, control
  <2>2. TypeOK'
    BY <2>1 DEF Inv, TypeOK
  <2>3. StatesKnown' /\ QueuesDistinct'
    BY <2>1 DEF Inv, StatesKnown, QueuesDistinct, State, Job, Status, Targeted, OnFiber, Elements,
                Distinct
  <2>4. HoldersAlone' /\ OwnersKnown'
    BY <2>1 DEF Inv, HoldersAlone, OwnersKnown, State, Job, Status, Owner, OnFiber, Elements
  <2>5. WorkersKnown' /\ TargetsKnown' /\ ReturnsKnown'
    BY <2>1 DEF Inv, WorkersKnown, TargetsKnown, ReturnsKnown, State, Job, Status, Targeted, InTasklet
  <2>6. Counted'
    BY <2>1 DEF Inv, Counted, CountsBacked, At, Started
  <2> QED
    BY <2>2, <2>3, <2>4, <2>5, <2>6 DEF Inv
<1> QED
  BY <1>2, <1>3, <1>4, <1>5, <1>6 DEF Next

-----------------------------------------------------------------------------
(* What follows from it. *)

LEMMA PlaceKinds ==
  ASSUME NEW f \in Fibers
  PROVE  \A x : x \in Places(f) <=>
           \/ \E w \in Workers : x = <<"current", w>> /\ current[w] = f /\ OnFiber(w)
           \/ \E w \in Workers : x = <<"cleanup", w>> /\ cleanup[w] = f
           \/ \E i \in DOMAIN ready.queue : x = <<"ready", i>> /\ ready.queue[i] = f
           \/ \E i \in DOMAIN free : x = <<"free", i>> /\ free[i] = f
           \/ \E a \in Actors : x = <<"target", a>> /\ target[a] = f /\ State(f) = "Suspended"
           \/ x = <<"waiting", f>> /\ Waiting(f)
BY DEF Places, Occurrences, State

LEMMA OnePlace ==
  ASSUME Inv, NEW f \in Fibers
  PROVE  IF f <= created THEN \E x : Places(f) = {x} ELSE Places(f) = {}
<1>1. f # None /\ created \in Nat
  BY SchedulerAssumption DEF Inv, TypeOK, Fibers, None
<1>2. \A w \in Workers : current[w] = f /\ OnFiber(w) => State(f) \in {"Running", "Yielding"}
  BY DEF Inv, HoldersAlone
<1>3. \A w \in Workers : cleanup[w] = f => State(f) = "Running"
  BY <1>1 DEF Inv, HoldersAlone
<1>4. \A i \in DOMAIN ready.queue : ready.queue[i] = f => State(f) = "Runnable" /\ Job(f) # Null
  BY DEF Inv, StatesKnown, Elements
<1>5. \A i \in DOMAIN free : free[i] = f => State(f) = "Runnable" /\ Job(f) = Null /\ f <= created
  BY DEF Inv, StatesKnown, Elements
<1>6. \A a \in Actors : target[a] = f => Status(Job(f)) = "started"
  BY <1>1 DEF Inv, TargetsKnown
<1>7. Waiting(f) <=> Job(f) # Null /\ Status(Job(f)) = "waiting" /\ State(f) = "Suspended"
  BY DEF Waiting, State, Job, Status
<1>8. CASE State(f) = "Runnable" /\ Job(f) # Null
  <2>1. f <= created
    BY <1>1, <1>8 DEF Inv, StatesKnown, Fibers
  <2>2. PICK i \in DOMAIN ready.queue : ready.queue[i] = f
    BY <1>8 DEF Inv, StatesKnown, Elements
  <2>3. \A j \in DOMAIN ready.queue : ready.queue[j] = f => j = i
    BY <2>2 DEF Inv, QueuesDistinct, Distinct
  <2>4. \A x : x \in Places(f) <=> x = <<"ready", i>>
    BY <1>2, <1>3, <1>5, <1>7, <1>8, <2>2, <2>3, PlaceKinds
  <2>5. Places(f) = {<<"ready", i>>}
    BY <2>4
  <2> QED
    BY <2>1, <2>5
<1>9. CASE State(f) = "Runnable" /\ Job(f) = Null /\ f <= created
  <2>1. PICK i \in DOMAIN free : free[i] = f
    BY <1>9 DEF Inv, StatesKnown, Elements
  <2>2. \A j \in DOMAIN free : free[j] = f => j = i
    BY <2>1 DEF Inv, QueuesDistinct, Distinct
  <2>3. \A x : x \in Places(f) <=> x = <<"free", i>>
    BY <1>2, <1>3, <1>4, <1>7, <1>9, <2>1, <2>2, PlaceKinds
  <2>4. Places(f) = {<<"free", i>>}
    BY <2>3
  <2> QED
    BY <1>9, <2>4
<1>10. CASE State(f) = "Runnable" /\ Job(f) = Null /\ ~(f <= created)
  <2>1. \A x : x \notin Places(f)
    BY <1>2, <1>3, <1>4, <1>5, <1>7, <1>10, PlaceKinds
  <2> QED
    BY <1>10, <2>1
<1>11. CASE State(f) \in {"Running", "Yielding"}
  <2>1. f <= created
    BY <1>1, <1>11 DEF Inv, StatesKnown, Fibers
  <2>2. PICK w \in Workers : (OnFiber(w) /\ current[w] = f) \/ cleanup[w] = f
    BY <1>11 DEF Inv, StatesKnown
  <2>3. CASE cleanup[w] = f
    <3>1. /\ \A v \in Workers : cleanup[v] = f => v = w
          /\ \A v \in Workers : ~(current[v] = f /\ OnFiber(v))
      BY <1>1, <2>3 DEF Inv, HoldersAlone
    <3>2. \A x : x \in Places(f) <=> x = <<"cleanup", w>>
      BY <1>4, <1>5, <1>7, <1>11, <2>3, <3>1, PlaceKinds
    <3>3. Places(f) = {<<"cleanup", w>>}
      BY <3>2
    <3> QED
      BY <2>1, <3>3
  <2>4. CASE OnFiber(w) /\ current[w] = f
    <3>1. /\ \A v \in Workers : current[v] = f /\ OnFiber(v) => v = w
          /\ \A v \in Workers : cleanup[v] # f
      BY <1>1, <2>4 DEF Inv, HoldersAlone
    <3>2. \A x : x \in Places(f) <=> x = <<"current", w>>
      BY <1>4, <1>5, <1>7, <1>11, <2>4, <3>1, PlaceKinds
    <3>3. Places(f) = {<<"current", w>>}
      BY <3>2
    <3> QED
      BY <2>1, <3>3
  <2> QED
    BY <2>2, <2>3, <2>4
<1>12. CASE State(f) = "Suspended"
  <2>1. f <= created
    BY <1>1, <1>12 DEF Inv, StatesKnown, Fibers
  <2>2. Job(f) # Null /\ (Status(Job(f)) = "waiting" \/ Targeted(f))
    BY <1>12 DEF Inv, StatesKnown
  <2>3. CASE Status(Job(f)) = "waiting"
    <3>1. \A x : x \in Places(f) <=> x = <<"waiting", f>>
      BY <1>2, <1>3, <1>4, <1>5, <1>6, <1>7, <1>12, <2>2, <2>3, PlaceKinds
    <3>2. Places(f) = {<<"waiting", f>>}
      BY <3>1
    <3> QED
      BY <2>1, <3>2
  <2>4. CASE Targeted(f)
    <3>1. PICK a \in Actors : target[a] = f
      BY <2>4 DEF Targeted
    <3>2. (\A b \in Actors : target[b] = f => b = a) /\ ~Waiting(f)
      BY <1>1, <1>6, <1>7, <3>1 DEF Inv, TargetsKnown
    <3>3. \A x : x \in Places(f) <=> x = <<"target", a>>
      BY <1>2, <1>3, <1>4, <1>5, <1>12, <3>1, <3>2, PlaceKinds
    <3>4. Places(f) = {<<"target", a>>}
      BY <3>3
    <3> QED
      BY <2>1, <3>4
  <2> QED
    BY <2>2, <2>3, <2>4
<1>13. State(f) \in FiberStates
  BY DEF Inv, TypeOK, State
<1> QED
  BY <1>8, <1>9, <1>10, <1>11, <1>12, <1>13 DEF FiberStates

LEMMA InvSound == Inv => FibersSound
<1> SUFFICES ASSUME Inv PROVE FibersSound
  OBVIOUS
<1>1. FiberInOnePlace
  <2>1. \A x : Cardinality({x}) = 1
    BY FS_Singleton
  <2>2. Cardinality({}) = 0
    BY FS_EmptySet
  <2>3. ASSUME NEW f \in Fibers PROVE Cardinality(Places(f)) = IF f <= created THEN 1 ELSE 0
    BY <2>1, <2>2, OnePlace
  <2> QED
    BY <2>3 DEF FiberInOnePlace
<1>2. AssertionsHold
  <2>1. ASSUME NEW w \in Workers
        PROVE  /\ pc[w] \in InLoop => /\ \A i \in DOMAIN ready.queue : ready.queue[i] # current[w]
                                      /\ cleanup[w] = None
               /\ pc[w] = "tasklet" => fiber[current[w]].state = "Running"
               /\ cleanup[w] # None => pc[w] = "resumed"
    <3>1. pc[w] \in InLoop => \A i \in DOMAIN ready.queue : ready.queue[i] # current[w]
      <4>1. pc[w] \in InLoop => current[w] \in Fibers /\ State(current[w]) \in {"Running", "Yielding"}
        BY LoopPlace DEF Inv, HoldersAlone
      <4> QED
        BY <4>1 DEF Inv, StatesKnown, Elements
    <3>2. pc[w] \in InLoop => cleanup[w] = None
      BY DEF Inv, HoldersAlone, InLoop
    <3>3. pc[w] = "tasklet" => fiber[current[w]].state = "Running"
      BY RunningTasklet DEF State
    <3> QED
      BY <3>1, <3>2, <3>3 DEF Inv, HoldersAlone
  <2>2. \A a \in Actors : pc[a] = "unsuspend" => fiber[target[a]].state # "Runnable"
    BY DEF Inv, TargetsKnown, State
  <2>3. \A i \in DOMAIN fresh.queue : tasklet[fresh.queue[i]].owner = None
    <3>1. \A i \in DOMAIN fresh.queue : fresh.queue[i] \in Tasklets
      BY DEF Inv, TypeOK
    <3> QED
      BY <3>1 DEF Inv, OwnersKnown, Elements, Owner
  <2> QED
    BY <2>1, <2>2, <2>3 DEF AssertionsHold
<1> QED
  BY <1>1, <1>2 DEF Inv, Counted, FibersSound

(* No fiber is lost, doubled or run by two workers, the assertions of the  *)
(* scheduler hold where they are made, and no count promises more than its *)
(* queue holds: for any workers, outsiders, tasklets, fiber limit and      *)
(* priority weights.                                                       *)
THEOREM SchedulerFibers == Spec => []FibersSound
<1>1. Spec => []Inv
  BY InitInv, NextInv, PTL DEF Spec
<1> QED
  BY <1>1, InvSound, PTL

-----------------------------------------------------------------------------
(* The life cycle of a tasklet, as TaskletLifecycle tells it. *)

Executing(w) == pc[w] = "tasklet" \/ (pc[w] \in Publishing /\ back[w] = "tasklet")

PhaseView == [t \in Tasklets |-> Phase(t)]
RunsView == [w \in Workers |-> RunsOn(w)]

(* What a worker runs is started, on the fiber the worker is on, and run   *)
(* by nobody else.                                                         *)
LEMMA Runs ==
  ASSUME Inv, NEW w \in Workers
  PROVE  /\ RunsOn(w) = IF Executing(w) THEN Job(current[w]) ELSE Null
         /\ Executing(w) => /\ current[w] \in Fibers
                            /\ RunsOn(w) \in Tasklets /\ RunsOn(w) # Null
                            /\ Status(RunsOn(w)) = "started"
                            /\ \A v \in Workers : RunsOn(v) = RunsOn(w) => v = w
<1>1. \A v \in Workers : RunsOn(v) = IF Executing(v) THEN Job(current[v]) ELSE Null
  BY DEF RunsOn, Executing, Job
<1>2. \A v \in Workers : Executing(v) => OnFiber(v) /\ InTasklet(v)
  BY DEF Executing, OnFiber, InTasklet
<1>3. \A v \in Workers : Executing(v) => current[v] \in Fibers
  BY <1>2 DEF Inv, HoldersAlone
<1>4. \A v \in Workers : Executing(v) => /\ Job(current[v]) \in Tasklets /\ Job(current[v]) # Null
                                         /\ Status(Job(current[v])) = "started"
  BY <1>2, <1>3 DEF Inv, TypeOK, WorkersKnown, Job
<1>5. ASSUME NEW v \in Workers, Executing(v), Executing(w), Job(current[v]) = Job(current[w])
      PROVE  v = w
  <2>1. Owner(Job(current[v])) = current[v] /\ Owner(Job(current[w])) = current[w]
    BY <1>3, <1>4, <1>5 DEF Inv, OwnersKnown
  <2> QED
    BY <1>2, <1>5, <2>1 DEF Inv, HoldersAlone
<1> QED
  BY <1>1, <1>3, <1>4, <1>5

(* A tasklet keeps its phase while its status says the same of it and the  *)
(* same worker, or none, runs it.                                          *)
Begun == {"started", "waiting"}

LEMMA PhaseKept ==
  ASSUME NEW t \in Tasklets, Status(t)' = Status(t) \/ {Status(t), Status(t)'} \subseteq Begun,
         \A w \in Workers : RunsOn(w)' = t <=> RunsOn(w) = t
  PROVE  Phase(t)' = Phase(t)
<1>1. (\E w \in Workers : RunsOn(w) = t)' <=> \E w \in Workers : RunsOn(w) = t
  OBVIOUS
<1>2. CASE tasklet[t].status \in Begun /\ tasklet'[t].status \in Begun
  <2>1. /\ Phase(t) = IF \E w \in Workers : RunsOn(w) = t THEN "running" ELSE "paused"
        /\ Phase(t)' = IF (\E w \in Workers : RunsOn(w) = t)' THEN "running" ELSE "paused"
    BY <1>2 DEF Phase, Begun
  <2> QED
    BY <1>1, <2>1
<1>3. CASE tasklet'[t].status = tasklet[t].status
  BY <1>1, <1>3 DEF Phase
<1> QED
  BY <1>2, <1>3 DEF Status

LEMMA NothingSeen ==
  ASSUME \A t \in Tasklets : Status(t)' = Status(t) \/ {Status(t), Status(t)'} \subseteq Begun,
         \A w \in Workers : RunsOn(w)' = RunsOn(w)
  PROVE  UNCHANGED <<PhaseView, RunsView>>
<1>1. \A t \in Tasklets : Phase(t)' = Phase(t)
  BY PhaseKept
<1> QED
  BY <1>1 DEF PhaseView, RunsView

(* What the others run stays when one thread moves. *)
JobsStay == \A f \in Fibers : Job(f)' = Job(f)

LEMMA RunsKept ==
  ASSUME Inv, NEW w \in Workers, Executing(w)' <=> Executing(w),
         Executing(w) => current'[w] = current[w] /\ Job(current[w])' = Job(current[w])
  PROVE  RunsOn(w)' = RunsOn(w)
<1>1. RunsOn(w) = IF Executing(w) THEN Job(current[w]) ELSE Null
  BY Runs
<1>2. RunsOn(w)' = IF Executing(w)' THEN fiber'[current'[w]].tasklet ELSE Null
  BY DEF RunsOn, Executing
<1> QED
  BY <1>1, <1>2 DEF Job

LEMMA OthersRun ==
  ASSUME Inv, NEW a \in Actors, NEW l, Goto(a, l), NEW w \in Workers, w # a,
         back'[w] = back[w], current'[w] = current[w],
         Executing(w) => Job(current[w])' = Job(current[w])
  PROVE  RunsOn(w)' = RunsOn(w)
<1>1. pc'[w] = pc[w]
  BY DEF Inv, TypeOK, Goto, Actors
<1>2. Executing(w)' <=> Executing(w)
  BY <1>1 DEF Executing
<1> QED
  BY <1>2, RunsKept

(* A step of a worker outside of tasklets that starts none. *)
LEMMA UnseenStep ==
  ASSUME Inv, NEW w \in Workers, NEW l \in Locations, Goto(w, l),
         l \notin Publishing \cup {"tasklet"}, pc[w] \notin Publishing \cup {"tasklet"},
         JobsStay, UNCHANGED <<back, tasklet>>,
         \A v \in Workers : v # w => current'[v] = current[v]
  PROVE  UNCHANGED <<PhaseView, RunsView>>
<1>1. w \in Actors /\ pc'[w] = l
  BY DEF Inv, TypeOK, Goto, Actors
<1>2. ~Executing(w) /\ ~Executing(w)'
  BY <1>1 DEF Executing
<1>3. \A v \in Workers : Executing(v) => current[v] \in Fibers
  BY Runs
<1>4. ASSUME NEW v \in Workers PROVE RunsOn(v)' = RunsOn(v)
  <2>1. CASE v = w
    BY <1>2, <2>1, RunsKept
  <2>2. CASE v # w
    BY <1>1, <1>3, <2>2, OthersRun DEF JobsStay
  <2> QED
    BY <2>1, <2>2
<1> QED
  BY <1>4, NothingSeen DEF Status

LEMMA SwitchUnseen ==
  ASSUME Inv, NEW w \in Workers, NEW f, SwitchTo(w, f),
         pc[w] \notin Publishing \cup {"tasklet"}, JobsStay, UNCHANGED <<back, tasklet>>
  PROVE  UNCHANGED <<PhaseView, RunsView>>
<1>1. PICK l \in {"loop", "resumed"} : Goto(w, l)
  BY DEF SwitchTo
<1>2. l \in Locations /\ l \notin Publishing \cup {"tasklet"}
  BY DEF Locations, InLoop, Publishing
<1>3. \A v \in Workers : v # w => current'[v] = current[v]
  BY DEF Inv, TypeOK, SwitchTo
<1> QED
  BY <1>1, <1>2, <1>3, UnseenStep

(* Taking a fiber changes its state, whatever the priorities become. *)
LEMMA JobsKept ==
  ASSUME Inv, NEW F \in FiberRecords,
         \A g \in Fibers : F[g].state = State(g) /\ F[g].tasklet = Job(g),
         \/ fiber' = F
         \/ \E f, s : fiber' = [F EXCEPT ![f].state = s]
  PROVE  JobsStay
BY DEF JobsStay, FiberRecords, Job

(* The helper, and the loop while it starts no tasklet. *)
LEMMA HelperUnseen ==
  ASSUME Inv, NEW w \in Workers,
         Choose(w) \/ RequestFree(w) \/ Create(w) \/ PickAny(w)
  PROVE  UNCHANGED <<PhaseView, RunsView>>
<1>1. /\ pc[w] \notin Publishing \cup {"tasklet"} /\ UNCHANGED <<back, tasklet>>
      /\ {"request", "create", "pick_any", "choose"} \subseteq Locations
      /\ {"request", "create", "pick_any", "choose"} \cap (Publishing \cup {"tasklet"}) = {}
  BY DEF Choose, RequestFree, Create, PickAny, Locations, InHelper, Publishing
<1>2. /\ JobsStay
      /\ (\E f : SwitchTo(w, f)) \/ (\E l \in {"request", "create", "pick_any", "choose"} : Goto(w, l) /\ UNCHANGED current)
  <2>1. CASE Choose(w)
    <3>1. current[w] \in Fibers
      BY <2>1 DEF Inv, ReturnsKnown, Choose
    <3>2. PICK p \in AdvancePriority(w) :
            IF p[1].level = 0 /\ ready.count > 0
            THEN /\ SwitchTo(w, Picked(ready))
                 /\ fiber' = [Prioritised(current[w], p[2]) EXCEPT ![Picked(ready)].state = "Running"]
            ELSE /\ fiber' = Prioritised(current[w], p[2])
                 /\ Goto(w, "request")
                 /\ UNCHANGED <<current, ready>>
      BY <2>1 DEF Choose
    <3>3. PICK F : F = Prioritised(current[w], p[2])
      OBVIOUS
    <3>4. F \in FiberRecords /\ \A g \in Fibers : F[g].state = State(g) /\ F[g].tasklet = Job(g)
      BY <3>1, <3>3, PrioritiesKept
    <3>5. fiber' = F \/ \E f, s : fiber' = [F EXCEPT ![f].state = s]
      BY <3>2, <3>3
    <3>6. JobsStay
      BY <3>4, <3>5, JobsKept
    <3> QED
      BY <3>2, <3>6
  <2>2. CASE RequestFree(w)
    <3>1. JobsStay
      BY <2>2, FiberKept, JobsKept DEF RequestFree, SetState
    <3> QED
      BY <2>2, <3>1 DEF RequestFree
  <2>3. CASE Create(w)
    <3>1. JobsStay
      BY <2>3, FiberKept, JobsKept DEF Create, SetState
    <3> QED
      BY <2>3, <3>1 DEF Create
  <2>4. CASE PickAny(w)
    <3>1. JobsStay
      BY <2>4, FiberKept, JobsKept DEF PickAny, SetState
    <3> QED
      BY <2>4, <3>1 DEF PickAny
  <2> QED
    BY <2>1, <2>2, <2>3, <2>4
<1>3. CASE \E f : SwitchTo(w, f)
  BY <1>1, <1>2, <1>3, SwitchUnseen
<1>4. CASE \E l \in {"request", "create", "pick_any", "choose"} : Goto(w, l) /\ UNCHANGED current
  BY <1>1, <1>2, <1>4, UnseenStep
<1> QED
  BY <1>2, <1>3, <1>4

(* The four steps of the life cycle. *)
LEMMA Moved ==
  ASSUME NEW t \in Tasklets, NEW from, NEW to, Phase(t) = from, Phase(t)' = to,
         \A u \in Tasklets : u # t => Phase(u)' = Phase(u)
  PROVE  Lifecycle!Move(t, from, to)
BY DEF Lifecycle!Move

LEMMA BeginsRunning ==
  ASSUME Inv, NEW w \in Workers, NEW t \in Tasklets, ~Executing(w), RunsOn(w)' = t,
         \A v \in Workers : v # w => RunsOn(v)' = RunsOn(v) /\ RunsOn(v) # t,
         \A u \in Tasklets : u # t => Status(u)' = Status(u),
         Status(t) \in {"queued"} \cup Begun, Status(t)' \in Begun
  PROVE  Lifecycle!Execute(w, t)
<1>1. RunsOn(w) = Null /\ t # Null
  BY Runs, SchedulerAssumption
<1>2. \A u \in Tasklets : u # t => Phase(u)' = Phase(u)
  <2>1. \A u \in Tasklets : u # t => \A v \in Workers : RunsOn(v)' = u <=> RunsOn(v) = u
    BY <1>1, SchedulerAssumption
  <2> QED
    BY <2>1, PhaseKept
<1>3. ~\E v \in Workers : RunsOn(v) = t
  BY <1>1
<1>4. Phase(t) = "ready" \/ Phase(t) = "paused"
  <2>1. CASE tasklet[t].status = "queued"
    BY <2>1 DEF Phase
  <2>2. CASE tasklet[t].status \in Begun
    BY <1>3, <2>2 DEF Phase, Begun
  <2> QED
    BY <2>1, <2>2 DEF Status
<1>5. Phase(t)' = "running"
  <2>1. tasklet'[t].status \in Begun /\ (\E v \in Workers : RunsOn(v) = t)'
    BY DEF Status
  <2> QED
    BY <2>1 DEF Phase, Begun
<1>6. Lifecycle!Move(t, "ready", "running") \/ Lifecycle!Move(t, "paused", "running")
  BY <1>2, <1>4, <1>5, Moved
<1> QED
  BY <1>1, <1>6 DEF Lifecycle!Execute

LEMMA StopsRunning ==
  ASSUME Inv, NEW w \in Workers, NEW t \in Tasklets, Executing(w), RunsOn(w) = t, ~Executing(w)',
         \A v \in Workers : v # w => RunsOn(v)' = RunsOn(v),
         \A u \in Tasklets : u # t => Status(u)' = Status(u),
         Status(t)' \in {"done"} \cup Begun
  PROVE  Lifecycle!Leave(w, t)
<1>1. RunsOn(w)' = Null /\ t # Null /\ Status(t) = "started"
  <2>1. RunsOn(w)' = Null
    BY DEF RunsOn, Executing
  <2> QED
    BY <2>1, Runs
<1>2. \A v \in Workers : v # w => RunsOn(v) # t
  BY Runs
<1>3. \A u \in Tasklets : u # t => Phase(u)' = Phase(u)
  <2>1. \A u \in Tasklets : u # t => \A v \in Workers : RunsOn(v)' = u <=> RunsOn(v) = u
    BY <1>1, SchedulerAssumption
  <2> QED
    BY <2>1, PhaseKept
<1>4. Phase(t) = "running"
  <2>1. tasklet[t].status = "started" /\ \E v \in Workers : RunsOn(v) = t
    BY <1>1 DEF Status
  <2> QED
    BY <2>1 DEF Phase
<1>5. Phase(t)' = "paused" \/ Phase(t)' = "done"
  <2>1. ~(\E v \in Workers : RunsOn(v) = t)'
    BY <1>1, <1>2
  <2>2. CASE tasklet'[t].status = "done"
    BY <2>2 DEF Phase
  <2>3. CASE tasklet'[t].status \in Begun
    BY <2>1, <2>3 DEF Phase, Begun
  <2> QED
    BY <2>2, <2>3 DEF Status
<1>6. Lifecycle!Move(t, "running", "paused") \/ Lifecycle!Move(t, "running", "done")
  BY <1>3, <1>4, <1>5, Moved
<1>7. [v \in Workers |-> RunsOn(v)]' = [[v \in Workers |-> RunsOn(v)] EXCEPT ![w] = Null]
  BY <1>1
<1> QED
  BY <1>6, <1>7 DEF Lifecycle!Leave

LEMMA StartsTasklet ==
  ASSUME Inv, NEW w \in Workers, pc[w] \in InLoop,
         RunTasklet(w, fiber) \/ \E p \in AdvancePriority(w) : RunTasklet(w, Prioritised(current[w], p[2])),
         fresh.count > 0, UNCHANGED back
  PROVE  \E u \in Tasklets : Lifecycle!Execute(w, u)
<1>1. /\ w \in Actors /\ current[w] \in Fibers /\ OnFiber(w)
      /\ pc[w] \notin Publishing \cup {"tasklet"}
  BY LoopPlace DEF InLoop, Publishing
<1>2. PICK F \in FiberRecords : /\ \A g \in Fibers : F[g].state = State(g) /\ F[g].tasklet = Job(g)
                                /\ RunTasklet(w, F)
  <2>1. CASE RunTasklet(w, fiber)
    BY <2>1, FiberKept
  <2>2. CASE \E p \in AdvancePriority(w) : RunTasklet(w, Prioritised(current[w], p[2]))
    <3>1. PICK p \in AdvancePriority(w) : RunTasklet(w, Prioritised(current[w], p[2]))
      BY <2>2
    <3> QED
      BY <1>1, <3>1, PrioritiesKept
  <2> QED
    BY <2>1, <2>2
<1>3. PICK u : u = Picked(fresh)
  OBVIOUS
<1>4. /\ fiber' = [F EXCEPT ![current[w]].tasklet = u]
      /\ tasklet' = [tasklet EXCEPT ![u] = [owner |-> current[w], status |-> "started"]]
      /\ Goto(w, "tasklet") /\ current' = current
  BY <1>2, <1>3 DEF RunTasklet
<1>5. u \in Tasklets /\ u \in Elements(fresh.queue)
  <2>1. fresh.queue \in Seq(Tasklets) /\ Len(fresh.queue) > 0
    BY QueuesCounted DEF Inv, TypeOK
  <2> QED
    BY <1>3, <2>1, Dequeued DEF Picked
<1>6. Status(u) = "queued"
  BY <1>5 DEF Inv, OwnersKnown
<1>7. /\ \A v \in Tasklets : v # u => Status(v)' = Status(v)
      /\ Status(u)' = "started"
  BY <1>4, <1>5 DEF Inv, TypeOK, Status
<1>8. /\ \A g \in Fibers : g # current[w] => Job(g)' = Job(g)
      /\ Job(current[w])' = u
  BY <1>1, <1>2, <1>4 DEF FiberRecords, Job
<1>9. ~Executing(w) /\ Executing(w)' /\ RunsOn(w)' = u
  <2>1. pc'[w] = "tasklet"
    BY <1>1, <1>4 DEF Inv, TypeOK, Goto
  <2>2. fiber'[current'[w]].tasklet = u
    BY <1>4, <1>8 DEF Job
  <2> QED
    BY <1>1, <2>1, <2>2 DEF Executing, RunsOn
<1>10. ASSUME NEW v \in Workers, v # w PROVE RunsOn(v)' = RunsOn(v) /\ RunsOn(v) # u
  <2>1. Executing(v) => current[v] # current[w] /\ current[v] \in Fibers
    <3>1. Executing(v) => OnFiber(v)
      BY DEF Executing, OnFiber
    <3> QED
      BY <1>1, <1>10, <3>1 DEF Inv, HoldersAlone
  <2>2. RunsOn(v)' = RunsOn(v)
    BY <1>1, <1>4, <1>8, <1>10, <2>1, OthersRun
  <2>3. RunsOn(v) # u
    BY <1>5, <1>6, Runs, SchedulerAssumption
  <2> QED
    BY <2>2, <2>3
<1> QED
  BY <1>5, <1>6, <1>7, <1>9, <1>10, BeginsRunning DEF Begun

Unseen == UNCHANGED <<PhaseView, RunsView>>

LEMMA RunFiberUnseen ==
  ASSUME Inv, NEW w \in Workers, pc[w] \in InLoop, NEW F \in FiberRecords,
         \A g \in Fibers : F[g].state = State(g) /\ F[g].tasklet = Job(g),
         RunFiber(w, F) \/ \E l \in InLoop : FindNothing(w, F, l), UNCHANGED back
  PROVE  Unseen
<1>1. pc[w] \notin Publishing \cup {"tasklet"}
  BY DEF InLoop, Publishing
<1>2. CASE RunFiber(w, F)
  <2>1. JobsStay /\ tasklet' = tasklet /\ SwitchTo(w, Picked(ready))
    BY <1>2, JobsKept DEF RunFiber
  <2> QED
    BY <1>1, <2>1, SwitchUnseen DEF Unseen
<1>3. CASE \E l \in InLoop : FindNothing(w, F, l)
  <2>1. PICK l \in InLoop : FindNothing(w, F, l)
    BY <1>3
  <2>2. JobsStay /\ tasklet' = tasklet /\ current' = current /\ Goto(w, l)
    BY <2>1, JobsKept DEF FindNothing
  <2>3. l \in Locations /\ l \notin Publishing \cup {"tasklet"}
    BY DEF Locations, InLoop, Publishing
  <2> QED
    BY <1>1, <2>2, <2>3, UnseenStep DEF Unseen
<1> QED
  BY <1>2, <1>3

LEMMA TrySeen ==
  ASSUME Inv, NEW w \in Workers, TryFirst(w) \/ TrySecond(w)
  PROVE  Unseen \/ \E t \in Tasklets : Lifecycle!Execute(w, t)
<1>1. /\ pc[w] \in InLoop /\ UNCHANGED back /\ "try_tasklet" \in InLoop /\ "try_fiber" \in InLoop
      /\ "loop" \in InLoop
  BY DEF TryFirst, TrySecond, InLoop
<1>2. current[w] \in Fibers
  BY <1>1, LoopPlace
<1>3. CASE TryFirst(w)
  <2>1. PICK p \in AdvancePriority(w) :
          IF p[1].level = 0
          THEN IF ready.count > 0
               THEN RunFiber(w, Prioritised(current[w], p[2]))
               ELSE FindNothing(w, Prioritised(current[w], p[2]), "try_tasklet")
          ELSE IF fresh.count > 0
               THEN RunTasklet(w, Prioritised(current[w], p[2]))
               ELSE FindNothing(w, Prioritised(current[w], p[2]), "try_fiber")
    BY <1>3 DEF TryFirst
  <2>2. CASE fresh.count > 0 /\ RunTasklet(w, Prioritised(current[w], p[2]))
    BY <1>1, <2>2, StartsTasklet
  <2>3. CASE ~(fresh.count > 0 /\ RunTasklet(w, Prioritised(current[w], p[2])))
    <3>1. PICK F : F = Prioritised(current[w], p[2])
      OBVIOUS
    <3>2. F \in FiberRecords /\ \A g \in Fibers : F[g].state = State(g) /\ F[g].tasklet = Job(g)
      BY <1>2, <3>1, PrioritiesKept
    <3>3. RunFiber(w, F) \/ \E l \in InLoop : FindNothing(w, F, l)
      BY <1>1, <2>1, <2>3, <3>1
    <3> QED
      BY <1>1, <3>2, <3>3, RunFiberUnseen
  <2> QED
    BY <2>2, <2>3
<1>4. CASE TrySecond(w)
  <2>1. \/ fresh.count > 0 /\ RunTasklet(w, fiber)
        \/ FindNothing(w, fiber, "loop")
        \/ RunFiber(w, fiber)
    BY <1>4 DEF TrySecond
  <2>2. CASE fresh.count > 0 /\ RunTasklet(w, fiber)
    BY <1>1, <2>2, StartsTasklet
  <2>3. CASE RunFiber(w, fiber) \/ FindNothing(w, fiber, "loop")
    BY <1>1, <2>3, FiberKept, RunFiberUnseen
  <2> QED
    BY <2>1, <2>2, <2>3
<1> QED
  BY <1>3, <1>4

LEMMA DispatchSeen ==
  ASSUME Inv, NEW w \in Workers, Dispatch(w)
  PROVE  Unseen \/ \E t \in Tasklets : Lifecycle!Execute(w, t)
<1>1. w \in Actors
  BY DEF Actors
<1>2. CASE Start(w) \/ CheckRunning(w) \/ WaitForWork(w)
  <2>1. /\ UNCHANGED <<current, fiber, back, tasklet>>
        /\ pc[w] \notin Publishing \cup {"tasklet"}
        /\ \E l \in {"request", "wait", "exited", "wait_done"} : Goto(w, l)
    BY <1>2 DEF Start, CheckRunning, WaitForWork, fibers, Publishing
  <2>2. \A l \in {"request", "wait", "exited", "wait_done"} :
          l \in Locations /\ l \notin Publishing \cup {"tasklet"}
    BY DEF Locations, InHelper, InLoop, Publishing
  <2>3. JobsStay
    BY <2>1 DEF JobsStay, Job
  <2> QED
    BY <2>1, <2>2, <2>3, UnseenStep DEF Unseen
<1>3. CASE MarkSuspended(w)
  <2>1. /\ pc[w] = "helper" /\ tasklet' = tasklet /\ current' = current
        /\ \/ Goto(w, "unsuspend") /\ back' = [back EXCEPT ![w] = "choose"]
           \/ Goto(w, "choose") /\ back' = back
        /\ SetState(current[w], "Suspended")
    BY <1>3 DEF MarkSuspended
  <2>2. JobsStay
    <3>1. fiber \in FiberRecords /\ \A g \in Fibers : fiber[g].state = State(g) /\ fiber[g].tasklet = Job(g)
      BY FiberKept
    <3>2. fiber' = fiber \/ \E f, s : fiber' = [fiber EXCEPT ![f].state = s]
      BY <2>1 DEF SetState
    <3> QED
      BY <3>1, <3>2, JobsKept
  <2>3. ~Executing(w) /\ ~Executing(w)'
    BY <1>1, <2>1 DEF Inv, TypeOK, Goto, Executing, Publishing
  <2>4. PICK l : Goto(w, l)
    BY <2>1
  <2>5. \A v \in Workers : v # w => back'[v] = back[v] /\ current'[v] = current[v]
    BY <2>1 DEF Inv, TypeOK, Actors
  <2>6. \A v \in Workers : Executing(v) => current[v] \in Fibers
    BY Runs
  <2>7. ASSUME NEW v \in Workers PROVE RunsOn(v)' = RunsOn(v)
    <3>1. CASE v = w
      BY <2>3, <3>1, RunsKept
    <3>2. CASE v # w
      BY <1>1, <2>2, <2>4, <2>5, <2>6, <3>2, OthersRun DEF JobsStay
    <3> QED
      BY <3>1, <3>2
  <2> QED
    BY <2>1, <2>7, NothingSeen DEF Unseen, Status
<1>4. CASE Choose(w) \/ RequestFree(w) \/ Create(w) \/ PickAny(w)
  BY <1>4, HelperUnseen DEF Unseen
<1>5. CASE Resume(w)
  <2>1. /\ pc[w] = "resumed" /\ Goto(w, "tasklet") /\ UNCHANGED <<back, current, tasklet>>
        /\ fiber' = fiber \/ SetState(cleanup[w], "Runnable")
    BY <1>5 DEF Resume
  <2>2. JobsStay
    <3>1. fiber \in FiberRecords /\ \A g \in Fibers : fiber[g].state = State(g) /\ fiber[g].tasklet = Job(g)
      BY FiberKept
    <3>2. fiber' = fiber \/ \E f, s : fiber' = [fiber EXCEPT ![f].state = s]
      BY <2>1 DEF SetState
    <3> QED
      BY <3>1, <3>2, JobsKept
  <2>3. /\ current[w] \in Fibers /\ Job(current[w]) \in Tasklets
        /\ Status(Job(current[w])) = "started"
        /\ \A v \in Workers : v # w /\ OnFiber(v) => current[v] # current[w]
    BY <2>1, RunningTasklet
  <2>4. PICK t : t = Job(current[w])
    OBVIOUS
  <2>5. ~Executing(w) /\ RunsOn(w)' = t
    <3>1. pc'[w] = "tasklet"
      BY <1>1, <2>1 DEF Inv, TypeOK, Goto
    <3>2. fiber'[current'[w]].tasklet = t
      BY <2>1, <2>2, <2>3, <2>4 DEF JobsStay, Job
    <3> QED
      BY <2>1, <3>1, <3>2 DEF Executing, RunsOn, Publishing
  <2>6. ASSUME NEW v \in Workers, v # w PROVE RunsOn(v)' = RunsOn(v) /\ RunsOn(v) # t
    <3>1. Executing(v) => OnFiber(v) /\ current[v] \in Fibers /\ RunsOn(v) = Job(current[v])
      BY Runs DEF Executing, OnFiber
    <3>2. RunsOn(v)' = RunsOn(v)
      BY <1>1, <2>1, <2>2, <2>6, <3>1, OthersRun DEF JobsStay
    <3>3. Executing(v) => Owner(Job(current[v])) = current[v] /\ Owner(t) = current[w]
      <4>1. Executing(v) => Job(current[v]) # Null
        BY <3>1, Runs
      <4> QED
        BY <2>3, <2>4, <3>1, <4>1, SchedulerAssumption DEF Inv, OwnersKnown
    <3>4. RunsOn(v) # t
      BY <2>3, <2>4, <2>6, <3>1, <3>3, Runs, SchedulerAssumption
    <3> QED
      BY <3>2, <3>4
  <2>7. \A u \in Tasklets : Status(u)' = Status(u)
    BY <2>1 DEF Status
  <2>8. Status(t) \in Begun /\ Status(t)' \in Begun
    BY <2>3, <2>4, <2>7 DEF Begun
  <2>9. t \in Tasklets
    BY <2>3, <2>4
  <2>10. Lifecycle!Execute(w, t)
    BY <2>5, <2>6, <2>7, <2>8, <2>9, BeginsRunning
  <2> QED
    BY <2>9, <2>10
<1>6. CASE TryFirst(w) \/ TrySecond(w)
  BY <1>6, TrySeen
<1> QED
  BY <1>2, <1>3, <1>4, <1>5, <1>6 DEF Dispatch

LEMMA PublishSeen ==
  ASSUME Inv, NEW a \in Actors, Publish(a)
  PROVE  Unseen
<1>1. /\ pc[a] \in Publishing /\ UNCHANGED <<current, tasklet>>
      /\ fiber' = fiber \/ SetState(target[a], "Runnable")
  BY DEF Publish, CountTasklet, Unsuspend, CountFiber, Post, fibers, Publishing
<1>2. JobsStay
  BY <1>1, FiberKept, JobsKept DEF SetState
<1>3. \/ back' = back /\ \E l \in {"post", "count_fiber"} : Goto(a, l)
      \/ back' = [back EXCEPT ![a] = "outside"] /\ Goto(a, back[a])
  BY DEF Publish, CountTasklet, Unsuspend, CountFiber, Post
<1>4. a \in Workers => back[a] \in {"tasklet", "choose"}
  BY <1>1 DEF Inv, ReturnsKnown
<1>5. a \in Workers => (Executing(a)' <=> Executing(a))
  BY <1>1, <1>3, <1>4 DEF Inv, TypeOK, Goto, Executing, Publishing
<1>6. PICK l : Goto(a, l)
  BY <1>3
<1>7. \A w \in Workers : w # a => back'[w] = back[w]
  BY <1>3 DEF Inv, TypeOK, Actors
<1>8. \A w \in Workers : Executing(w) => current[w] \in Fibers
  BY Runs
<1>9. ASSUME NEW w \in Workers PROVE RunsOn(w)' = RunsOn(w)
  <2>1. CASE w = a
    BY <1>1, <1>2, <1>5, <1>8, <2>1, RunsKept DEF JobsStay
  <2>2. CASE w # a
    BY <1>1, <1>2, <1>6, <1>7, <1>8, <2>2, OthersRun DEF JobsStay
  <2> QED
    BY <2>1, <2>2
<1> QED
  BY <1>1, <1>9, NothingSeen DEF Unseen, Status

(* A call of schedule() from a tasklet goes on with the tasklet. *)
LEMMA CallSeen ==
  ASSUME Inv, NEW a \in Actors, InUserCode(a), NEW l \in Publishing, Goto(a, l),
         back' = [back EXCEPT ![a] = pc[a]], UNCHANGED <<current, fiber>>
  PROVE  \A w \in Workers : RunsOn(w)' = RunsOn(w)
<1>1. pc'[a] = l /\ back'[a] = pc[a] /\ \A w \in Workers : w # a => back'[w] = back[w]
  BY DEF Inv, TypeOK, Goto, Actors
<1>2. a \in Workers => pc[a] = "tasklet"
  BY DEF Inv, ReturnsKnown, InUserCode
<1>3. a \in Workers => (Executing(a)' <=> Executing(a))
  BY <1>1, <1>2 DEF Executing
<1>4. ASSUME NEW w \in Workers PROVE RunsOn(w)' = RunsOn(w)
  <2>1. Job(current[w])' = Job(current[w])
    BY DEF Job
  <2>2. CASE w = a
    BY <1>3, <2>1, <2>2, RunsKept
  <2>3. CASE w # a
    BY <1>1, <2>1, <2>3, OthersRun
  <2> QED
    BY <2>2, <2>3
<1> QED
  BY <1>4

LEMMA LeaveSeen ==
  ASSUME Inv, NEW w \in Workers, Return(w) \/ Yield(w) \/ Suspend(w)
  PROVE  \E t \in Tasklets : Lifecycle!Leave(w, t)
<1>1. /\ pc[w] = "tasklet" /\ current' = current /\ back' = back
      /\ Goto(w, "loop") \/ Goto(w, "helper")
  BY DEF Return, Yield, Suspend, fibers
<1>2. w \in Actors /\ Executing(w)
  BY <1>1 DEF Actors, Executing
<1>3. PICK t : t = Job(current[w])
  OBVIOUS
<1>4. /\ t \in Tasklets /\ RunsOn(w) = t /\ current[w] \in Fibers /\ Status(t) = "started"
      /\ \A v \in Workers : v # w /\ OnFiber(v) => current[v] # current[w]
  BY <1>1, <1>2, <1>3, RunningTasklet, Runs
<1>5. ~Executing(w)'
  BY <1>1, <1>2 DEF Inv, TypeOK, Goto, Executing, Publishing
<1>6. /\ \A u \in Tasklets : u # t => Status(u)' = Status(u)
      /\ Status(t)' \in {"done"} \cup Begun
      /\ \A g \in Fibers : g # current[w] => Job(g)' = Job(g)
  <2>1. CASE Return(w)
    <3>1. SetStatus(t, "done") /\ fiber' = [fiber EXCEPT ![current[w]].tasklet = Null]
      BY <1>3, <2>1 DEF Return, Job
    <3> QED
      BY <1>4, <3>1 DEF Inv, TypeOK, SetStatus, Status, Job
  <2>2. CASE Yield(w)
    <3>1. SetState(current[w], "Yielding") /\ tasklet' = tasklet
      BY <2>2 DEF Yield
    <3> QED
      BY <1>4, <3>1 DEF Inv, TypeOK, SetState, Status, Job, Begun
  <2>3. CASE Suspend(w)
    <3>1. SetStatus(t, "waiting") /\ fiber' = fiber
      BY <1>3, <2>3 DEF Suspend, Job, fibers
    <3> QED
      BY <1>4, <3>1 DEF Inv, TypeOK, SetStatus, Status, Job, Begun
  <2> QED
    BY <2>1, <2>2, <2>3
<1>7. PICK l : Goto(w, l)
  BY <1>1
<1>8. ASSUME NEW v \in Workers, v # w PROVE RunsOn(v)' = RunsOn(v)
  <2>1. Executing(v) => OnFiber(v) /\ current[v] \in Fibers
    BY Runs DEF Executing, OnFiber
  <2> QED
    BY <1>1, <1>2, <1>4, <1>6, <1>7, <1>8, <2>1, OthersRun
<1> QED
  BY <1>2, <1>4, <1>5, <1>6, <1>8, StopsRunning

LEMMA UserCodeSeen ==
  ASSUME Inv, NEW a \in Actors, UserCode(a)
  PROVE  \/ Unseen
         \/ \E t \in Tasklets : Lifecycle!Schedule(t)
         \/ \E t \in Tasklets : \E w \in Workers : Lifecycle!Leave(w, t)
<1>1. CASE \E t \in Tasklets : EnqueueTasklet(a, t)
  <2>1. PICK t \in Tasklets : EnqueueTasklet(a, t)
    BY <1>1
  <2>2. /\ InUserCode(a) /\ Status(t) = "new" /\ SetStatus(t, "queued")
        /\ back' = [back EXCEPT ![a] = pc[a]] /\ Goto(a, "count_tasklet")
        /\ UNCHANGED <<current, fiber>>
    BY <2>1 DEF EnqueueTasklet, fibers, Status
  <2>3. \A w \in Workers : RunsOn(w)' = RunsOn(w)
    BY <2>2, CallSeen DEF Publishing
  <2>4. /\ \A u \in Tasklets : u # t => Status(u)' = Status(u)
        /\ Status(t)' = "queued"
    BY <2>2 DEF Inv, TypeOK, SetStatus, Status
  <2>5. Phase(t) = "new" /\ Phase(t)' = "ready"
    BY <2>2, <2>4 DEF Phase, Status
  <2>6. \A u \in Tasklets : u # t => Phase(u)' = Phase(u)
    BY <2>3, <2>4, PhaseKept
  <2>7. Lifecycle!Move(t, "new", "ready")
    BY <2>5, <2>6, Moved
  <2>8. Lifecycle!Schedule(t)
    BY <2>3, <2>7 DEF Lifecycle!Schedule
  <2> QED
    BY <2>8
<1>2. CASE \E t \in Tasklets : Wake(a, t)
  <2>1. PICK t \in Tasklets : Wake(a, t)
    BY <1>2
  <2>2. /\ InUserCode(a) /\ Status(t) = "waiting" /\ SetStatus(t, "started")
        /\ back' = [back EXCEPT ![a] = pc[a]] /\ Goto(a, "unsuspend")
        /\ UNCHANGED <<current, fiber>>
    BY <2>1 DEF Wake, fibers, Status
  <2>3. \A w \in Workers : RunsOn(w)' = RunsOn(w)
    BY <2>2, CallSeen DEF Publishing
  <2>4. \A u \in Tasklets : Status(u)' = Status(u) \/ {Status(u), Status(u)'} \subseteq Begun
    BY <2>2 DEF Inv, TypeOK, SetStatus, Status, Begun
  <2> QED
    BY <2>3, <2>4, NothingSeen DEF Unseen
<1>3. CASE Return(a) \/ Yield(a) \/ Suspend(a)
  <2>1. a \in Workers
    BY <1>3 DEF Return, Yield, Suspend
  <2> QED
    BY <1>3, <2>1, LeaveSeen
<1> QED
  BY <1>1, <1>2, <1>3 DEF UserCode

LEMMA JoinSeen ==
  ASSUME Inv, NEW o \in Outsiders, Join(o)
  PROVE  Unseen
<1>1. /\ UNCHANGED <<back, current, fiber, tasklet>>
      /\ pc' = pc \/ \E l : Goto(o, l)
  BY DEF Join, StopRunning, JoinPost, SeeNoneAlive, ClearThreads, fibers
<1>2. o \notin Workers
  BY SchedulerAssumption
<1>3. ASSUME NEW w \in Workers PROVE RunsOn(w)' = RunsOn(w)
  <2>1. pc'[w] = pc[w]
    BY <1>1, <1>2 DEF Inv, TypeOK, Goto, Actors
  <2> QED
    BY <1>1, <2>1 DEF RunsOn
<1> QED
  BY <1>1, <1>3, NothingSeen DEF Unseen, Status

LEMMA StepSeen == Inv /\ [Next]_vars => [Lifecycle!Next]_<<PhaseView, RunsView>>
<1> SUFFICES ASSUME Inv, [Next]_vars PROVE Lifecycle!Next \/ Unseen
  BY DEF Unseen
<1>1. ASSUME NEW a \in Actors, Publish(a) PROVE Unseen
  BY <1>1, PublishSeen
<1>2. ASSUME NEW a \in Actors, UserCode(a) PROVE Lifecycle!Next \/ Unseen
  BY <1>2, UserCodeSeen DEF Lifecycle!Next
<1>3. ASSUME NEW w \in Workers, Dispatch(w) PROVE Lifecycle!Next \/ Unseen
  BY <1>3, DispatchSeen DEF Lifecycle!Next
<1>4. ASSUME NEW o \in Outsiders, Join(o) PROVE Unseen
  BY <1>4, JoinSeen
<1>5. CASE UNCHANGED vars
  <2>1. UNCHANGED <<pc, back, current, fiber, tasklet>>
    BY <1>5 DEF vars, fibers
  <2>2. \A w \in Workers : RunsOn(w)' = RunsOn(w)
    BY <2>1 DEF RunsOn
  <2> QED
    BY <2>1, <2>2, NothingSeen DEF Unseen, Status
<1> QED
  BY <1>1, <1>2, <1>3, <1>4, <1>5 DEF Next

LEMMA InitSeen == Init => Lifecycle!Init
<1> SUFFICES ASSUME Init PROVE Lifecycle!Init
  OBVIOUS
<1>1. \A t \in Tasklets : Phase(t) = "new"
  BY DEF Init, Phase
<1>2. \A w \in Workers : RunsOn(w) = Null
  <2>1. \A w \in Workers : pc[w] = "start"
    BY DEF Init, Actors
  <2> QED
    BY <2>1 DEF RunsOn, Publishing
<1> QED
  BY <1>1, <1>2 DEF Lifecycle!Init

(* The scheduler implements the life cycle of tasklets: each scheduled     *)
(* tasklet is started once, a worker runs one at a time, none is on two    *)
(* workers, and one that pauses goes on where it paused.                   *)
THEOREM SchedulerImplementsLifecycle == Spec => ImplementsLifecycle
<1>1. Spec => []Inv
  BY InitInv, NextInv, PTL DEF Spec
<1>2. Inv /\ [Next]_vars => [Lifecycle!Next]_<<[t \in Tasklets |-> Phase(t)], [w \in Workers |-> RunsOn(w)]>>
  BY StepSeen DEF PhaseView, RunsView
<1> QED
  BY <1>1, <1>2, InitSeen, PTL DEF Spec, ImplementsLifecycle, Lifecycle!Spec

=============================================================================
