----------------------------- MODULE IoDispatcher -----------------------------
(***************************************************************************)
(* The IO thread (spawn_tasklet_io_dispatcher(), platform/linux.cc) and    *)
(* the tasklets that submit requests to it (Scheduler::submit_io_request). *)
(* A submitter puts its request on a queue, counts it in "pending", and    *)
(* sets an event if the count was zero.  The dispatcher sleeps in the      *)
(* kernel until a completion arrives, one of them being that of a poll of  *)
(* the event, and moves as many pending requests as fit to the submission  *)
(* ring.                                                                   *)
(*                                                                         *)
(* The kernel side of io_uring is external.  A request on a fence owns a   *)
(* file descriptor, which is named after the request.                      *)
(***************************************************************************)
EXTENDS Naturals, Sequences, FiniteSets, FiniteSetsExt

CONSTANTS
  Requests,
  Fences,       (* the requests of kind WaitVkFence                        *)
  Submit, Quit, (* the dispatcher's own polls of its two events            *)
  File,         (* a descriptor that is open for other reasons             *)
  SqEntries,    (* entries of the submission ring (256)                    *)
  BatchSize     (* completions handled in one turn (64)                    *)

ASSUME DispatcherAssumption ==
  /\ IsFiniteSet(Requests) /\ Fences \subseteq Requests
  /\ Submit # Quit /\ {Submit, Quit} \cap Requests = {}
  /\ File \notin Requests
  /\ SqEntries \in Nat /\ SqEntries >= 2    (* both polls fit *)
  /\ BatchSize \in Nat \ {0}

VARIABLES
  submitter,    (* where the tasklet of each request is                    *)
  queue,        (* the IoQueue                                             *)
  pending,      (* IoQueue::pending                                        *)
  event,        (* whether submit_event is set                             *)
  quitting,     (* whether quit_event was set                              *)
  stage,        (* of the dispatcher                                       *)
  batch,        (* completions left in this turn                           *)
  todo, rest,   (* requests to take from the queue, and to leave there     *)
  running,
  sq,           (* entries prepared                                        *)
  armed,        (* entries the kernel works on                             *)
  notified,     (* the event was set since its poll last fired             *)
  cq,           (* completions, [entry, more]                              *)
  fulfilled,    (* how often each request was fulfilled                    *)
  fd,           (* m_fd of each fence request                              *)
  open          (* descriptors open in the process                         *)

submission == <<submitter, queue, pending>>
dispatcher == <<stage, batch, todo, rest, running>>
kernel == <<armed, notified, cq>>
files == <<fd, open>>
ioVars == <<submission, event, quitting, dispatcher, sq, kernel, fulfilled, files>>

Enter(l) == stage' = l
SubmitterGoto(r, l) == submitter' = [submitter EXCEPT ![r] = l]

(* m_fd is not initialised by the constructor: any descriptor number.      *)
IoInit ==
  /\ submitter = [r \in Requests |-> "new"]
  /\ queue = <<>>
  /\ pending = 0
  /\ event = FALSE
  /\ quitting = FALSE
  /\ stage = "submit"
  /\ batch = 0
  /\ todo = 0
  /\ rest = 0
  /\ running = TRUE
  /\ sq = <<Quit, Submit>>
  /\ armed = {}
  /\ notified = FALSE
  /\ cq = <<>>
  /\ fulfilled = [r \in Requests |-> 0]
  /\ fd \in [Fences -> Fences \cup {File}]
  /\ open = {File}

-----------------------------------------------------------------------------
(* submit_io_request() *)

Enqueue(r) ==
  /\ submitter[r] = "new"
  /\ ~quitting
  /\ queue' = Append(queue, r)
  /\ SubmitterGoto(r, "count")
  /\ UNCHANGED <<pending, event, quitting, dispatcher, sq, kernel, fulfilled, files>>

(* Only the one that finds zero signals the dispatcher. *)
Count(r) ==
  /\ submitter[r] = "count"
  /\ pending' = pending + 1
  /\ SubmitterGoto(r, IF pending = 0 THEN "signal" ELSE "submitted")
  /\ UNCHANGED <<queue, event, quitting, dispatcher, sq, kernel, fulfilled, files>>

SetEvent == event' = TRUE /\ notified' = TRUE

Signal(r) ==
  /\ submitter[r] = "signal"
  /\ SetEvent
  /\ SubmitterGoto(r, "submitted")
  /\ UNCHANGED <<queue, pending, quitting, dispatcher, sq, armed, cq, fulfilled, files>>

(* join() stops the IO thread after the workers have left. *)
SetQuitEvent ==
  /\ \A r \in Requests : submitter[r] \in {"new", "submitted"}
  /\ ~quitting
  /\ quitting' = TRUE
  /\ UNCHANGED <<submission, event, dispatcher, sq, kernel, fulfilled, files>>

-----------------------------------------------------------------------------
(* The kernel. *)

Complete(e, more) ==
  /\ cq' = Append(cq, [entry |-> e, more |-> more])
  /\ armed' = IF more THEN armed ELSE armed \ {e}

CompleteRequest(r) ==
  /\ r \in armed
  /\ Complete(r, FALSE)
  /\ UNCHANGED <<submission, event, quitting, dispatcher, sq, notified, fulfilled, files>>

CompleteQuit ==
  /\ Quit \in armed
  /\ quitting
  /\ Complete(Quit, FALSE)
  /\ UNCHANGED <<submission, event, quitting, dispatcher, sq, notified, fulfilled, files>>

(* A multishot poll fires when the event is set, unless it has been read   *)
(* since, and may end.                                                     *)
FireSubmit ==
  /\ Submit \in armed
  /\ notified
  /\ notified' = FALSE
  /\ IF event
     THEN \E more \in BOOLEAN : Complete(Submit, more)
     ELSE UNCHANGED <<armed, cq>>
  /\ UNCHANGED <<submission, event, quitting, dispatcher, sq, fulfilled, files>>

-----------------------------------------------------------------------------
(* The loop of the dispatcher. *)

(* io_uring_submit_and_wait(): a poll of an event already set fires.       *)
SubmitEntries ==
  /\ stage = "submit"
  /\ armed' = armed \cup {sq[i] : i \in DOMAIN sq}
  /\ notified' = (notified \/ (event /\ Submit \in armed' \ armed))
  /\ sq' = <<>>
  /\ Enter("wait")
  /\ UNCHANGED <<submission, event, quitting, batch, todo, rest, running, cq, fulfilled, files>>

WaitForCompletion ==
  /\ stage = "wait"
  /\ cq # <<>>
  /\ batch' = Min({Len(cq), BatchSize})
  /\ Enter("handle")
  /\ UNCHANGED <<submission, event, quitting, todo, rest, running, sq, kernel, fulfilled, files>>

(* One completion of the batch.                                            *)
Take(e) ==
  /\ stage = "handle"
  /\ batch > 0
  /\ Head(cq).entry = e
  /\ cq' = Tail(cq)
  /\ batch' = batch - 1

HandleQuit ==
  /\ Take(Quit)
  /\ running' = FALSE
  /\ UNCHANGED <<submission, event, quitting, stage, todo, rest, sq, armed, notified, fulfilled,
                 files>>

(* Mutant of HandleSubmit: a lost multishot poll is not queued again. *)
HandleSubmitOnce ==
  /\ Take(Submit)
  /\ event' = FALSE
  /\ UNCHANGED <<submission, quitting, stage, todo, rest, running, sq, armed, notified,
                 fulfilled, files>>

HandleSubmit ==
  /\ Take(Submit)
  /\ event' = FALSE
  /\ sq' = IF Head(cq).more THEN sq ELSE Append(sq, Submit)
  /\ UNCHANGED <<submission, quitting, stage, todo, rest, running, armed, notified, fulfilled,
                 files>>

(* A request of a tasklet: the descriptor of a fence is closed, the        *)
(* promise is fulfilled.                                                   *)
HandleRequest(r) ==
  /\ Take(r)
  /\ open' = IF r \in Fences THEN open \ {fd[r]} ELSE open
  /\ fulfilled' = [fulfilled EXCEPT ![r] = @ + 1]
  /\ UNCHANGED <<submission, event, quitting, stage, todo, rest, running, sq, armed, notified,
                 fd>>

TakePending ==
  /\ stage = "handle"
  /\ batch = 0
  /\ todo' = Min({pending, SqEntries - Len(sq)})
  /\ rest' = pending - todo'
  /\ pending' = 0
  /\ Enter("fill")
  /\ UNCHANGED <<submitter, queue, event, quitting, batch, running, sq, kernel, fulfilled, files>>

(* Mutant of QueueRequest: no entry for a fence that has been signalled. *)
QueueRequestSkipsSignalled ==
  /\ stage = "fill"
  /\ todo > 0
  /\ queue # <<>>
  /\ queue' = Tail(queue)
  /\ todo' = todo - 1
  /\ \/ /\ Head(queue) \in Fences
        /\ fd' = [fd EXCEPT ![Head(queue)] = Head(queue)]
        /\ open' = open \cup {Head(queue)}
        /\ sq' = Append(sq, Head(queue))
     \/ UNCHANGED <<files, sq>>
  /\ UNCHANGED <<submitter, pending, event, quitting, stage, batch, rest, running, kernel, fulfilled>>

(* queue_io_request() of the next request.  The fence gives a descriptor   *)
(* to poll, or none when it has been signalled: then m_fd keeps its value. *)
QueueRequest ==
  /\ stage = "fill"
  /\ todo > 0
  /\ queue # <<>>
  /\ queue' = Tail(queue)
  /\ sq' = Append(sq, Head(queue))
  /\ todo' = todo - 1
  /\ \/ /\ Head(queue) \in Fences
        /\ fd' = [fd EXCEPT ![Head(queue)] = Head(queue)]
        /\ open' = open \cup {Head(queue)}
     \/ UNCHANGED files
  /\ UNCHANGED <<submitter, pending, event, quitting, stage, batch, rest, running, kernel, fulfilled>>

Loop == IF running THEN "submit" ELSE "exited"

(* Requests that did not fit count as pending again,                       *)
RecountRest ==
  /\ stage = "fill"
  /\ todo = 0
  /\ pending' = pending + rest
  /\ Enter(IF rest = 0 THEN Loop ELSE "signal")
  /\ rest' = 0
  /\ UNCHANGED <<submitter, queue, event, quitting, batch, todo, running, sq, kernel, fulfilled,
                 files>>

(* and wake the dispatcher itself, whatever submitters do.                 *)
SignalRest ==
  /\ stage = "signal"
  /\ SetEvent
  /\ Enter(Loop)
  /\ UNCHANGED <<submission, quitting, batch, todo, rest, running, sq, armed, cq, fulfilled,
                 files>>

-----------------------------------------------------------------------------

Submission(r) == Enqueue(r) \/ Count(r) \/ Signal(r)

Kernel == CompleteQuit \/ FireSubmit \/ \E r \in Requests : CompleteRequest(r)

Dispatch ==
  \/ SubmitEntries \/ WaitForCompletion
  \/ HandleQuit \/ HandleSubmit \/ \E r \in Requests : HandleRequest(r)
  \/ TakePending \/ QueueRequest \/ RecountRest \/ SignalRest

IoNext ==
  \/ \E r \in Requests : Submission(r)
  \/ SetQuitEvent
  \/ Kernel
  \/ Dispatch

IoSpec == IoInit /\ [][IoNext]_ioVars

(* The IO thread and a submitter inside its call run; the kernel completes *)
(* what it was given and fires the poll.  Nobody has to submit or to quit. *)
IoFairSpec ==
  /\ IoSpec
  /\ WF_ioVars(Dispatch)
  /\ WF_ioVars(FireSubmit) /\ WF_ioVars(CompleteQuit)
  /\ \A r \in Requests :
       WF_ioVars(CompleteRequest(r)) /\ WF_ioVars(Count(r) \/ Signal(r))

-----------------------------------------------------------------------------

Entries == Requests \cup {Submit, Quit}

(* Everything is of its kind, counts are never negative, and the ring has  *)
(* room for every entry the dispatcher prepares, its own poll included:    *)
(* the result of io_uring_get_sqe() is not checked.                        *)
DispatcherTyped ==
  /\ submitter \in [Requests -> {"new", "count", "signal", "submitted"}]
  /\ queue \in Seq(Requests)
  /\ pending \in Nat /\ todo \in Nat /\ rest \in Nat /\ batch \in Nat
  /\ event \in BOOLEAN /\ quitting \in BOOLEAN /\ running \in BOOLEAN
  /\ notified \in BOOLEAN
  /\ stage \in {"submit", "wait", "handle", "fill", "signal", "exited"}
  /\ sq \in Seq(Entries) /\ Len(sq) <= SqEntries
  /\ armed \subseteq Entries
  /\ cq \in Seq([entry : Entries, more : BOOLEAN])
  /\ fulfilled \in [Requests -> Nat]
  /\ fd \in [Fences -> Fences \cup {File}]
  /\ open \subseteq Fences \cup {File}

(* pending, the dispatcher's locals and the submitters in between account  *)
(* for the queue exactly: the dequeue of the dispatcher, which spins,      *)
(* always finds a request, and none is left uncounted.                     *)
QueueAccounted ==
  pending + todo + rest + Cardinality({r \in Requests : submitter[r] = "count"}) = Len(queue)

Copies(r) ==
  Cardinality({i \in DOMAIN queue : queue[i] = r})
  + Cardinality({i \in DOMAIN sq : sq[i] = r})
  + Cardinality(armed \cap {r})
  + Cardinality({i \in DOMAIN cq : cq[i].entry = r})

(* A request exists once between its submission and its fulfilment, which  *)
(* happens once (the promise asserts it).                                  *)
FulfilledOnce ==
  \A r \in Requests : Copies(r) + fulfilled[r] = IF submitter[r] = "new" THEN 0 ELSE 1

(* The dispatcher does not sleep on requests it was told of: then the      *)
(* event is going to be set, or its poll to fire.                          *)
NoMissedSubmission ==
  stage = "wait" /\ cq = <<>> /\ pending > 0
    => \/ \E r \in Requests : submitter[r] = "signal"
       \/ event /\ notified /\ Submit \in armed

(* The descriptor made for a fence is closed when its request completes.   *)
FenceFdsClosed == \A r \in Fences : r \in open => fulfilled[r] = 0

(* A submitted request is fulfilled, unless the IO thread is told to quit  *)
(* first; then it does quit.                                               *)
RequestsFulfilled ==
  /\ \A r \in Requests : submitter[r] # "new" ~> fulfilled[r] = 1 \/ quitting
  /\ quitting ~> stage = "exited"

(* Every request is in one place, counted, and fulfilled once; the ring    *)
(* has room for whatever is put into it; and the dispatcher does not sleep *)
(* on a request it was told of, and does not forget to close a descriptor. *)
RequestsSound == DispatcherTyped /\ QueueAccounted /\ FulfilledOnce /\ NoMissedSubmission /\ FenceFdsClosed

=============================================================================
