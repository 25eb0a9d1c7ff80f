------------------------------ MODULE Scheduler ------------------------------
(***************************************************************************)
(* tasklet::Scheduler and its fibers (engine/sources/tasklet/scheduler.cc  *)
(* and fiber.cc): worker threads run tasklets on fibers.  A worker that    *)
(* suspends a fiber leaves it through its helper fiber, which publishes    *)
(* the fiber as Suspended and switches to another one; a fiber that finds  *)
(* a ready fiber in its loop switches to it and is put back on the free    *)
(* list by the fiber it resumed.                                           *)
(*                                                                         *)
(* The queues are FIFO (MpmcQueue) and never full, work_available is a     *)
(* counting semaphore (CountingSemaphore).  What a tasklet does between    *)
(* two calls of the scheduler is its own business: it may schedule a new   *)
(* tasklet, wake one that waits, yield, wait, or return, in any order.     *)
(* Outsiders are the threads that are no workers: the IO thread and the    *)
(* thread that owns the scheduler.                                         *)
(***************************************************************************)
EXTENDS Naturals, Sequences, FiniteSets, TLC

CONSTANTS
  Workers, Outsiders, Tasklets,
  Null,         (* nullptr                                                 *)
  FiberLimit,   (* m_fiber_limit                                           *)
  Weights,      (* k_priority_weights                                      *)
  MaxPauses,    (* bound: how often tasklets yield or wait, together       *)
  PermitLimit   (* bound: permits that join() piles up                     *)

ASSUME SchedulerAssumption ==
  /\ Workers \cap Outsiders = {}
  /\ IsFiniteSet(Workers) /\ IsFiniteSet(Outsiders)
  /\ Null \notin Workers \cup Outsiders \cup Tasklets
  /\ FiberLimit \in Nat \ {0}
  /\ Weights \in Seq(Nat \ {0}) /\ Weights # <<>>
  /\ MaxPauses \in Nat
  /\ PermitLimit \in Nat

Actors == Workers \cup Outsiders
Fibers == 1 .. FiberLimit       (* in the order of their creation *)
None == 0                       (* no fiber: Fiber::current() of a new thread *)

VARIABLES
  pc,             (* where each thread is                                  *)
  target,         (* the fiber a thread unsuspends                         *)
  back,           (* where it goes on once it has posted                   *)
  current,        (* s_current_fiber of a worker                           *)
  cleanup,        (* s_cleanup_fiber of a worker                           *)
  fiber,          (* [state, tasklet, level, counter] of a fiber           *)
  tasklet,        (* [owner, status] of a tasklet                          *)
  ready,          (* [queue, count] of the fibers to resume                *)
  fresh,          (* [queue, count] of the tasklets to start               *)
  free,           (* m_free_fiber_queue                                    *)
  created,        (* m_created_fiber_count                                 *)
  permits,        (* m_work_available                                      *)
  running,        (* m_running                                             *)
  alive,          (* m_alive_worker_count                                  *)
  pauses          (* pauses so far, for MaxPauses                          *)

fibers == <<current, cleanup, fiber, created, free>>
queues == <<ready, fresh>>
control == <<running, alive>>
vars == <<pc, target, back, fibers, tasklet, queues, permits, control, pauses>>

Goto(a, l) == pc' = [pc EXCEPT ![a] = l]
SetState(f, s) == fiber' = [fiber EXCEPT ![f].state = s]
SetStatus(t, s) == tasklet' = [tasklet EXCEPT ![t].status = s]

NewFiber == [state |-> "Runnable", tasklet |-> Null, level |-> 0, counter |-> 1]

Init ==
  /\ pc = [a \in Actors |-> IF a \in Workers THEN "start" ELSE "outside"]
  /\ target = [a \in Actors |-> None]
  /\ back = [a \in Actors |-> "outside"]
  /\ current = [w \in Workers |-> None]
  /\ cleanup = [w \in Workers |-> None]
  /\ fiber = [f \in Fibers |-> NewFiber]
  /\ tasklet = [t \in Tasklets |-> [owner |-> None, status |-> "new"]]
  /\ ready = [queue |-> <<>>, count |-> 0]
  /\ fresh = [queue |-> <<>>, count |-> 0]
  /\ free = <<>>
  /\ created = 0
  /\ permits = 0
  /\ running = TRUE
  /\ alive = 0
  /\ pauses = 0

-----------------------------------------------------------------------------
(* Publishing work: queue, then count, then post. *)

(* Code that tasklets and outsiders may run calls the scheduler. *)
InUserCode(a) == pc[a] \in {"tasklet", "outside"}

(* schedule() of a new tasklet, enqueue(): onto the queue. *)
EnqueueTasklet(a, t) ==
  /\ InUserCode(a)
  /\ tasklet[t].status = "new"
  /\ SetStatus(t, "queued")
  /\ fresh' = [fresh EXCEPT !.queue = Append(@, t)]
  /\ back' = [back EXCEPT ![a] = pc[a]]
  /\ Goto(a, "count_tasklet")
  /\ UNCHANGED <<target, fibers, ready, permits, control, pauses>>

CountTasklet(a) ==
  /\ pc[a] = "count_tasklet"
  /\ fresh' = [fresh EXCEPT !.count = @ + 1]
  /\ Goto(a, "post")
  /\ UNCHANGED <<target, back, fibers, tasklet, ready, permits, control, pauses>>

(* schedule() of a tasklet that waits: its owner is to be unsuspended.     *)
Wake(a, t) ==
  /\ InUserCode(a)
  /\ tasklet[t].status = "waiting"
  /\ SetStatus(t, "started")
  /\ target' = [target EXCEPT ![a] = tasklet[t].owner]
  /\ back' = [back EXCEPT ![a] = pc[a]]
  /\ Goto(a, "unsuspend")
  /\ UNCHANGED <<fibers, queues, permits, control, pauses>>

(* unsuspend_fiber(): spin while the fiber is Running or Yielding, then    *)
(* exchange its state and enqueue it; nobody else can see it in between.   *)
Unsuspend(a) ==
  /\ pc[a] = "unsuspend"
  /\ fiber[target[a]].state \notin {"Running", "Yielding"}
  /\ SetState(target[a], "Runnable")
  /\ ready' = [ready EXCEPT !.queue = Append(@, target[a])]
  /\ target' = [target EXCEPT ![a] = None]
  /\ Goto(a, "count_fiber")
  /\ UNCHANGED <<back, current, cleanup, created, free, tasklet, fresh, permits,
                 control, pauses>>

CountFiber(a) ==
  /\ pc[a] = "count_fiber"
  /\ ready' = [ready EXCEPT !.count = @ + 1]
  /\ Goto(a, "post")
  /\ UNCHANGED <<target, back, fibers, tasklet, fresh, permits, control, pauses>>

(* Mutant of Post: an event, which remembers one post only. *)
PostEvent(a) ==
  /\ pc[a] = "post"
  /\ permits' = 1
  /\ Goto(a, back[a])
  /\ back' = [back EXCEPT ![a] = "outside"]
  /\ UNCHANGED <<target, fibers, tasklet, queues, control, pauses>>

Post(a) ==
  /\ pc[a] = "post"
  /\ permits' = permits + 1
  /\ Goto(a, back[a])
  /\ back' = [back EXCEPT ![a] = "outside"]
  /\ UNCHANGED <<target, fibers, tasklet, queues, control, pauses>>

-----------------------------------------------------------------------------
(* Taking work. *)

(* pick_ready_fiber() and pick_ready_tasklet(): the count is decremented   *)
(* first, so that the dequeue always finds an element.                     *)
Pick(q) == [queue |-> Tail(q.queue), count |-> q.count - 1]
Picked(q) == Head(q.queue)

(* switch_to() and swap_to(): a fiber that has a tasklet was left inside   *)
(* suspend(), one without starts or goes on in fiber_loop().               *)
SwitchTo(w, f) ==
  /\ current' = [current EXCEPT ![w] = f]
  /\ Goto(w, IF fiber[f].tasklet = Null THEN "loop" ELSE "resumed")

(* advance_priority() of the fiber a worker is on, or, in its helper, of   *)
(* the fiber it left.  The helper reads and writes the two fields after    *)
(* the fiber was handed to the ready queue, without synchronisation: when  *)
(* two workers do so at once any value may remain, a counter wrapped below *)
(* zero, shown as 0, among them.                                           *)
Counters == UNION {0 .. Weights[i] : i \in DOMAIN Weights}
Priorities == [level : 0 .. Len(Weights) - 1, counter : Counters]

Advanced(p) ==
  IF p.counter = 1
  THEN LET next == (p.level + 1) % Len(Weights) IN
         [level |-> next, counter |-> Weights[next + 1]]
  ELSE [p EXCEPT !.counter = IF @ = 0 THEN 0 ELSE @ - 1]

Racing(w) ==
  \E v \in Workers \ {w} : current[v] = current[w] /\ pc[v] \in {"wait_done", "choose"}

AdvancePriority(w) ==
  LET old == [level |-> fiber[current[w]].level, counter |-> fiber[current[w]].counter] IN
    IF Racing(w) THEN Priorities \X Priorities ELSE {<<old, Advanced(old)>>}

Prioritised(f, p) == [fiber EXCEPT ![f].level = p.level, ![f].counter = p.counter]

-----------------------------------------------------------------------------
(* helper_fiber(). *)

(* The entry point of a worker thread switches to its helper. *)
Start(w) ==
  /\ w \in Workers
  /\ pc[w] = "start"
  /\ alive' = alive + 1
  /\ Goto(w, "request")
  /\ UNCHANGED <<target, back, fibers, tasklet, queues, permits, running, pauses>>

(* Mutant of MarkSuspended: requeues every fiber, yielding or not. *)
MarkSuspendedRequeues(w) ==
  /\ w \in Workers
  /\ pc[w] = "helper"
  /\ SetState(current[w], "Suspended")
  /\ target' = [target EXCEPT ![w] = current[w]]
  /\ back' = [back EXCEPT ![w] = "choose"]
  /\ Goto(w, "unsuspend")
  /\ UNCHANGED <<current, cleanup, created, free, tasklet, queues, permits, control, pauses>>

(* The fiber that called suspend() is off this thread's stack from now on. *)
MarkSuspended(w) ==
  /\ w \in Workers
  /\ pc[w] = "helper"
  /\ SetState(current[w], "Suspended")
  /\ IF fiber[current[w]].state = "Yielding"
     THEN /\ target' = [target EXCEPT ![w] = current[w]]
          /\ back' = [back EXCEPT ![w] = "choose"]
          /\ Goto(w, "unsuspend")
     ELSE Goto(w, "choose") /\ UNCHANGED <<target, back>>
  /\ UNCHANGED <<current, cleanup, created, free, tasklet, queues, permits, control, pauses>>

(* A ready fiber first, if the priority of the fiber left behind allows.   *)
Choose(w) ==
  /\ w \in Workers
  /\ pc[w] = "choose"
  /\ \E p \in AdvancePriority(w) :
       IF p[1].level = 0 /\ ready.count > 0
       THEN /\ SwitchTo(w, Picked(ready))
            /\ ready' = Pick(ready)
            /\ fiber' = [Prioritised(current[w], p[2]) EXCEPT ![Picked(ready)].state = "Running"]
       ELSE /\ fiber' = Prioritised(current[w], p[2])
            /\ Goto(w, "request")
            /\ UNCHANGED <<current, ready>>
  /\ UNCHANGED <<target, back, cleanup, created, free, tasklet, fresh, permits, control, pauses>>

(* request_fiber(): from the free list, *)
RequestFree(w) ==
  /\ w \in Workers
  /\ pc[w] = "request"
  /\ IF free # <<>>
     THEN /\ SwitchTo(w, Head(free))
          /\ SetState(Head(free), "Running")
          /\ free' = Tail(free)
     ELSE Goto(w, "create") /\ UNCHANGED <<current, fiber, free>>
  /\ UNCHANGED <<target, back, cleanup, created, tasklet, queues, permits, control, pauses>>

(* else a new one under the limit. *)
Create(w) ==
  /\ w \in Workers
  /\ pc[w] = "create"
  /\ IF created < FiberLimit
     THEN /\ created' = created + 1
          /\ SwitchTo(w, created + 1)
          /\ SetState(created + 1, "Running")
     ELSE Goto(w, "pick_any") /\ UNCHANGED <<current, fiber, created>>
  /\ UNCHANGED <<target, back, cleanup, free, tasklet, queues, permits, control, pauses>>

(* The pool is exhausted: any ready fiber, or the loop starts over.        *)
PickAny(w) ==
  /\ w \in Workers
  /\ pc[w] = "pick_any"
  /\ IF ready.count > 0
     THEN /\ SwitchTo(w, Picked(ready))
          /\ SetState(Picked(ready), "Running")
          /\ ready' = Pick(ready)
     ELSE /\ Goto(w, IF current[w] = None THEN "request" ELSE "choose")
          /\ UNCHANGED <<current, fiber, ready>>
  /\ UNCHANGED <<target, back, cleanup, created, free, tasklet, fresh, permits, control, pauses>>

-----------------------------------------------------------------------------
(* Mutant of Resume: reads s_cleanup_fiber without clearing it. *)
ResumeKeepsCleanup(w) ==
  /\ w \in Workers
  /\ pc[w] = "resumed"
  /\ IF cleanup[w] = None
     THEN UNCHANGED <<fiber, free>>
     ELSE SetState(cleanup[w], "Runnable") /\ free' = Append(free, cleanup[w])
  /\ Goto(w, "tasklet")
  /\ UNCHANGED <<target, back, current, cleanup, created, tasklet, queues, permits, control,
                 pauses>>

(* suspend(), after the switch back: the fiber that made the switch goes   *)
(* to the free list.                                                       *)
Resume(w) ==
  /\ w \in Workers
  /\ pc[w] = "resumed"
  /\ IF cleanup[w] = None
     THEN UNCHANGED <<fiber, free, cleanup>>
     ELSE /\ SetState(cleanup[w], "Runnable")
          /\ free' = Append(free, cleanup[w])
          /\ cleanup' = [cleanup EXCEPT ![w] = None]
  /\ Goto(w, "tasklet")
  /\ UNCHANGED <<target, back, current, created, tasklet, queues, permits, control, pauses>>

-----------------------------------------------------------------------------
(* fiber_loop(). *)

(* Mutant of CheckRunning: leaves without decrease_worker_count(). *)
CheckRunningStaysCounted(w) ==
  /\ w \in Workers
  /\ pc[w] = "loop"
  /\ Goto(w, IF running THEN "wait" ELSE "exited")
  /\ UNCHANGED <<target, back, fibers, tasklet, queues, permits, control, pauses>>

CheckRunning(w) ==
  /\ w \in Workers
  /\ pc[w] = "loop"
  /\ Goto(w, IF running THEN "wait" ELSE "exited")
  /\ alive' = IF running THEN alive ELSE alive - 1
  /\ UNCHANGED <<target, back, fibers, tasklet, queues, permits, running, pauses>>

WaitForWork(w) ==
  /\ w \in Workers
  /\ pc[w] = "wait"
  /\ permits > 0
  /\ permits' = permits - 1
  /\ Goto(w, "wait_done")
  /\ UNCHANGED <<target, back, fibers, tasklet, queues, control, pauses>>

(* A ready fiber takes the thread over; the running one is to be freed.    *)
RunFiber(w, prioritised) ==
  /\ SwitchTo(w, Picked(ready))
  /\ cleanup' = [cleanup EXCEPT ![w] = current[w]]
  /\ ready' = Pick(ready)
  /\ fiber' = [prioritised EXCEPT ![Picked(ready)].state = "Running"]
  /\ UNCHANGED <<tasklet, fresh>>

(* A new tasklet starts on the running fiber. *)
RunTasklet(w, prioritised) ==
  /\ fresh' = Pick(fresh)
  /\ fiber' = [prioritised EXCEPT ![current[w]].tasklet = Picked(fresh)]
  /\ tasklet' = [tasklet EXCEPT ![Picked(fresh)] = [owner |-> current[w], status |-> "started"]]
  /\ Goto(w, "tasklet")
  /\ UNCHANGED <<current, cleanup, ready>>

FindNothing(w, prioritised, l) ==
  /\ fiber' = prioritised
  /\ Goto(w, l)
  /\ UNCHANGED <<current, cleanup, tasklet, queues>>

TryFirst(w) ==
  /\ w \in Workers
  /\ pc[w] = "wait_done"
  /\ \E p \in AdvancePriority(w) :
       LET prioritised == Prioritised(current[w], p[2]) IN
         IF p[1].level = 0
         THEN IF ready.count > 0 THEN RunFiber(w, prioritised)
                                 ELSE FindNothing(w, prioritised, "try_tasklet")
         ELSE IF fresh.count > 0 THEN RunTasklet(w, prioritised)
                                 ELSE FindNothing(w, prioritised, "try_fiber")
  /\ UNCHANGED <<target, back, created, free, permits, control, pauses>>

(* The permit is spent even when this finds nothing either. *)
TrySecond(w) ==
  /\ w \in Workers
  /\ \/ /\ pc[w] = "try_tasklet"
        /\ IF fresh.count > 0 THEN RunTasklet(w, fiber) ELSE FindNothing(w, fiber, "loop")
     \/ /\ pc[w] = "try_fiber"
        /\ IF ready.count > 0 THEN RunFiber(w, fiber) ELSE FindNothing(w, fiber, "loop")
  /\ UNCHANGED <<target, back, created, free, permits, control, pauses>>

-----------------------------------------------------------------------------
(* What a tasklet does on its worker. *)

Return(w) ==
  /\ w \in Workers
  /\ pc[w] = "tasklet"
  /\ SetStatus(fiber[current[w]].tasklet, "done")
  /\ fiber' = [fiber EXCEPT ![current[w]].tasklet = Null]
  /\ Goto(w, "loop")
  /\ UNCHANGED <<target, back, current, cleanup, created, free, queues, permits, control, pauses>>

Yield(w) ==
  /\ w \in Workers
  /\ pc[w] = "tasklet"
  /\ pauses < MaxPauses
  /\ pauses' = pauses + 1
  /\ SetState(current[w], "Yielding")
  /\ Goto(w, "helper")
  /\ UNCHANGED <<target, back, current, cleanup, created, free, tasklet, queues, permits, control>>

(* The tasklet has entered a wait list and calls suspend(); from now on    *)
(* somebody may wake it.                                                   *)
Suspend(w) ==
  /\ w \in Workers
  /\ pc[w] = "tasklet"
  /\ pauses < MaxPauses
  /\ pauses' = pauses + 1
  /\ SetStatus(fiber[current[w]].tasklet, "waiting")
  /\ Goto(w, "helper")
  /\ UNCHANGED <<target, back, fibers, queues, permits, control>>

-----------------------------------------------------------------------------
(* join(). *)

StopRunning(o) ==
  /\ o \in Outsiders
  /\ pc[o] = "outside"
  /\ running
  /\ running' = FALSE
  /\ Goto(o, "joining")
  /\ UNCHANGED <<target, back, fibers, tasklet, queues, permits, alive, pauses>>

JoinPost(o) ==
  /\ o \in Outsiders
  /\ pc[o] = "joining"
  /\ alive # 0
  /\ permits < PermitLimit
  /\ permits' = permits + 1
  /\ UNCHANGED <<pc, target, back, fibers, tasklet, queues, control, pauses>>

(* The worker count is zero, because all have left or none has started;    *)
(* then the threads themselves are joined.                                 *)
SeeNoneAlive(o) ==
  /\ o \in Outsiders
  /\ pc[o] = "joining"
  /\ alive = 0
  /\ Goto(o, "clear")
  /\ UNCHANGED <<target, back, fibers, tasklet, queues, permits, control, pauses>>

ClearThreads(o) ==
  /\ o \in Outsiders
  /\ pc[o] = "clear"
  /\ \A w \in Workers : pc[w] = "exited"
  /\ Goto(o, "joined")
  /\ UNCHANGED <<target, back, fibers, tasklet, queues, permits, control, pauses>>

-----------------------------------------------------------------------------

Publish(a) == CountTasklet(a) \/ Unsuspend(a) \/ CountFiber(a) \/ Post(a)

(* The scheduler's own steps of a worker. *)
Dispatch(w) ==
  \/ Start(w) \/ MarkSuspended(w) \/ Choose(w) \/ RequestFree(w) \/ Create(w) \/ PickAny(w)
  \/ Resume(w)
  \/ CheckRunning(w) \/ WaitForWork(w) \/ TryFirst(w) \/ TrySecond(w)

UserCode(a) ==
  \/ \E t \in Tasklets : EnqueueTasklet(a, t) \/ Wake(a, t)
  \/ Return(a) \/ Yield(a) \/ Suspend(a)

Join(o) == StopRunning(o) \/ JoinPost(o) \/ SeeNoneAlive(o) \/ ClearThreads(o)

Next ==
  \/ \E a \in Actors : Publish(a) \/ UserCode(a)
  \/ \E w \in Workers : Dispatch(w)
  \/ \E o \in Outsiders : Join(o)

Spec == Init /\ [][Next]_vars

(* Everything is run by a thread, so it goes on; a tasklet does not run    *)
(* forever, and an outsider (the completion of IO, say) wakes every        *)
(* tasklet that waits until it joins the scheduler.                        *)
FairSpec ==
  /\ Spec
  /\ \A a \in Actors : WF_vars(Publish(a))
  /\ \A w \in Workers : WF_vars(Dispatch(w)) /\ WF_vars(Return(w))
  /\ \A o \in Outsiders :
       /\ WF_vars(\E t \in Tasklets : Wake(o, t))
       /\ WF_vars(JoinPost(o) \/ SeeNoneAlive(o) \/ ClearThreads(o))

-----------------------------------------------------------------------------

FiberStates == {"Runnable", "Running", "Yielding", "Suspended"}
Publishing == {"count_tasklet", "unsuspend", "count_fiber", "post"}
InHelper == {"start", "helper", "choose", "request", "create", "pick_any"}
InLoop == {"loop", "wait", "wait_done", "try_tasklet", "try_fiber"}
Locations == Publishing \cup InHelper \cup InLoop
             \cup {"resumed", "tasklet", "exited", "outside", "joining", "clear", "joined"}

(* The shared and the per-thread variables are of their kinds, and counts  *)
(* never go below zero.                                                    *)
TypeOK ==
  /\ pc \in [Actors -> Locations]
  /\ target \in [Actors -> Fibers \cup {None}]
  /\ back \in [Actors -> {"outside", "tasklet", "choose"}]
  /\ current \in [Workers -> Fibers \cup {None}]
  /\ cleanup \in [Workers -> Fibers \cup {None}]
  /\ fiber \in [Fibers -> [state : FiberStates, tasklet : Tasklets \cup {Null},
                          level : 0 .. Len(Weights) - 1, counter : Counters]]
  /\ tasklet \in [Tasklets -> [owner : Fibers \cup {None},
                               status : {"new", "queued", "started", "waiting", "done"}]]
  /\ ready \in [queue : Seq(Fibers), count : Nat]
  /\ fresh \in [queue : Seq(Tasklets), count : Nat]
  /\ free \in Seq(Fibers)
  /\ created \in 0 .. FiberLimit
  /\ permits \in Nat
  /\ running \in BOOLEAN
  /\ alive \in 0 .. Cardinality(Workers)
  /\ pauses \in 0 .. MaxPauses

(* The places a fiber can be.  A worker whose helper has published the     *)
(* fiber it left still has it as its current one, but is not on it.        *)
OnFiber(w) ==
  \/ pc[w] \in InLoop \cup {"resumed", "tasklet", "helper", "exited"}
  \/ pc[w] \in Publishing /\ back[w] = "tasklet"

Waiting(f) ==
  /\ fiber[f].tasklet # Null
  /\ tasklet[fiber[f].tasklet].status = "waiting"
  /\ fiber[f].state = "Suspended"

Occurrences(seq, f) == {i \in DOMAIN seq : seq[i] = f}

Places(f) ==
  {<<"current", w>> : w \in {v \in Workers : current[v] = f /\ OnFiber(v)}}
  \cup {<<"cleanup", w>> : w \in {v \in Workers : cleanup[v] = f}}
  \cup {<<"ready", i>> : i \in Occurrences(ready.queue, f)}
  \cup {<<"free", i>> : i \in Occurrences(free, f)}
  \cup {<<"target", a>> : a \in {b \in Actors : target[b] = f /\ fiber[f].state = "Suspended"}}
  \cup {<<"waiting", f>> : x \in {y \in {f} : Waiting(f)}}

(* A fiber is a stack: two workers on it, or a second entry in a queue,    *)
(* destroy it.  Each created fiber is in exactly one place: no waker,      *)
(* helper or cleanup hand-off duplicates or loses one.                     *)
FiberInOnePlace ==
  \A f \in Fibers : Cardinality(Places(f)) = IF f <= created THEN 1 ELSE 0

(* The assertions of the scheduler, where they are evaluated: a fiber      *)
(* found in the loop is another one and was suspended, no fiber waits for  *)
(* its cleanup then, an unsuspended fiber was Suspended, a tasklet found   *)
(* on the tasklet queue has no owner, a yielding fiber was Running.        *)
AssertionsHold ==
  /\ \A w \in Workers :
       /\ pc[w] \in InLoop => /\ \A i \in DOMAIN ready.queue : ready.queue[i] # current[w]
                            /\ cleanup[w] = None
       /\ pc[w] = "tasklet" => fiber[current[w]].state = "Running"
       /\ cleanup[w] # None => pc[w] = "resumed"
  /\ \A a \in Actors :
       pc[a] = "unsuspend" => fiber[target[a]].state # "Runnable"
  /\ \A i \in DOMAIN fresh.queue : tasklet[fresh.queue[i]].owner = None

At(l) == {a \in Actors : pc[a] = l}

(* A count never promises more than its queue holds: the dequeue after a   *)
(* decrement, which spins until it gets something, gets it.                *)
CountsBacked ==
  /\ ready.count + Cardinality(At("count_fiber")) = Len(ready.queue)
  /\ fresh.count + Cardinality(At("count_tasklet")) = Len(fresh.queue)

Asleep(w) == pc[w] = "wait" /\ permits = 0

(* When every worker sleeps on work_available and nobody else is about to  *)
(* post, there is no ready fiber and no new tasklet left: a yielded        *)
(* tasklet "will be rescheduled automatically" (functions.hh).             *)
IdleMeansDrained ==
  /\ \A w \in Workers : Asleep(w)
  /\ \A o \in Outsiders : pc[o] \notin Publishing
  => ready.queue = <<>> /\ fresh.queue = <<>>

(* The scheduler implements the life cycle of tasklets: started once, on   *)
(* one worker at a time, never lost between a pause and the next run.      *)
RunsOn(w) ==
  IF pc[w] = "tasklet" \/ (pc[w] \in Publishing /\ back[w] = "tasklet")
  THEN fiber[current[w]].tasklet ELSE Null

Phase(t) ==
  CASE tasklet[t].status = "new" -> "new"
    [] tasklet[t].status = "queued" -> "ready"
    [] tasklet[t].status = "done" -> "done"
    [] OTHER -> IF \E w \in Workers : RunsOn(w) = t THEN "running" ELSE "paused"

Lifecycle == INSTANCE TaskletLifecycle WITH
               None <- Null,
               phase <- [t \in Tasklets |-> Phase(t)],
               runs <- [w \in Workers |-> RunsOn(w)]

ImplementsLifecycle == Lifecycle!Spec

(* A scheduled tasklet finishes, whatever yields and waits, unless the     *)
(* scheduler is joined first.                                              *)
ScheduledTaskletsFinish ==
  \A t \in Tasklets :
    tasklet[t].status = "queued" ~> tasklet[t].status = "done" \/ ~running

(* The pool is exhausted and every fiber of it waits for somebody else:    *)
(* the helper goes round, and never looks at whether it should stop.       *)
EveryFiberWaits == created = FiberLimit /\ \A f \in 1 .. created : fiber[f].state = "Suspended"

(* join() returns: no worker misses the end, asleep, busy, or not started, *)
(* unless the pool has been exhausted by tasklets that wait for somebody   *)
(* who does not come any more.                                             *)
JoinReturns == \A o \in Outsiders : pc[o] = "joining" ~> pc[o] = "joined" \/ EveryFiberWaits

(* The queues, the fibers and the tasklets agree with each other wherever  *)
(* the code relies on it, the assertions it makes included.                *)
FibersSound == TypeOK /\ FiberInOnePlace /\ AssertionsHold /\ CountsBacked

(* What is scheduled finishes, and join() returns.                         *)
WorkEnds == ScheduledTaskletsFinish /\ JoinReturns

-----------------------------------------------------------------------------
(* What it is run with: the weights of the code, or shorter ones.          *)

k_priority_weights == <<4, 1>>
ShortWeights == <<1, 1>>
WorkerTaskletSymmetry == Permutations(Workers) \cup Permutations(Tasklets)

=============================================================================
