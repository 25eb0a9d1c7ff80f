---------------------------------- MODULE Log ----------------------------------
(***************************************************************************)
(* The log (engine/sources/core/log.cc).  Every thread owns a queue, a     *)
(* ring of messages that only it fills and only the sink thread empties;   *)
(* its first message makes the queue and publishes it in a linked list     *)
(* without a lock, the tail first and then the link that leads to it.  A   *)
(* semaphore counts the messages; the sink walks the list once per permit. *)
(* A message that finds its ring full is counted as lost.                  *)
(***************************************************************************)
EXTENDS Naturals, Sequences

CONSTANTS
  LogThreads,
  RingSize,     (* the size of m_slots                                     *)
  LogLimit      (* bound: messages, per thread                            *)

NoQueue == "none"

ASSUME LogAssumption == NoQueue \notin LogThreads

VARIABLES
  m_queue_head, m_queue_tail, m_next,  (* the list of queues, named by thread *)
  ring,         (* per queue, the messages from m_tail to m_head           *)
  lost,         (* m_lost_message_count                                    *)
  permits,      (* m_semaphore                                             *)
  m_running,
  closed,       (* close_sink() has woken the sink                         *)
  caller,       (* per thread, where in logln() it is: [at, number, before] *)
  sink,         (* where the sink is: [at, queue]                          *)
  printed,      (* per thread, the numbers of the messages the sink printed *)
  reported      (* per thread, how many messages the sink reported as lost *)

logVars == <<m_queue_head, m_queue_tail, m_next, ring, lost, permits, m_running, closed, caller, sink, printed, reported>>
list == <<m_queue_head, m_queue_tail, m_next>>
output == <<printed, reported>>

LogInit ==
  /\ m_queue_head = NoQueue /\ m_queue_tail = NoQueue
  /\ m_next = [t \in LogThreads |-> NoQueue]
  /\ ring = [t \in LogThreads |-> <<>>]
  /\ lost = [t \in LogThreads |-> 0]
  /\ permits = 0
  /\ m_running = TRUE /\ closed = FALSE
  /\ caller = [t \in LogThreads |-> [at |-> "idle", number |-> 0, before |-> NoQueue]]
  /\ sink = [at |-> "check", queue |-> NoQueue]
  /\ printed = [t \in LogThreads |-> <<>>] /\ reported = [t \in LogThreads |-> 0]

Goes(t, from, to) ==
  /\ caller[t].at = from
  /\ caller' = [caller EXCEPT ![t].at = to]

(* logln(): a thread without a queue makes one. *)
LogLine(t) ==
  /\ caller[t].at = "idle" /\ caller[t].number < LogLimit[t]
  /\ caller' = [caller EXCEPT ![t].number = @ + 1, ![t].at = IF caller[t].number = 0 THEN "append" ELSE "read"]
  /\ UNCHANGED <<list, ring, lost, permits, m_running, closed, sink, output>>

(* add_queue(): the queue is made the tail by a compare-exchange, and only *)
(* then linked to by the one before, or by the head.                       *)
AppendQueue(t) ==
  /\ caller[t].at = "append"
  /\ m_queue_tail' = t
  /\ caller' = [caller EXCEPT ![t].at = "link", ![t].before = m_queue_tail]
  /\ UNCHANGED <<m_queue_head, m_next, ring, lost, permits, m_running, closed, sink, output>>

LinkQueue(t) ==
  /\ Goes(t, "link", "read")
  /\ IF caller[t].before = NoQueue
     THEN m_queue_head' = t /\ UNCHANGED m_next
     ELSE m_next' = [m_next EXCEPT ![caller[t].before] = t] /\ UNCHANGED m_queue_head
  /\ UNCHANGED <<m_queue_tail, ring, lost, permits, m_running, closed, sink, output>>

(* enqueue(): the indices are read; the sink may free a slot at once after. *)
ReadIndices(t) ==
  /\ Goes(t, "read", IF Len(ring[t]) >= RingSize THEN "lose" ELSE "store")
  /\ UNCHANGED <<list, ring, lost, permits, m_running, closed, sink, output>>

LoseMessage(t) ==
  /\ Goes(t, "lose", "post")
  /\ lost' = [lost EXCEPT ![t] = @ + 1]
  /\ UNCHANGED <<list, ring, permits, m_running, closed, sink, output>>

StoreMessage(t) ==
  /\ Goes(t, "store", "post")
  /\ ring' = [ring EXCEPT ![t] = Append(@, caller[t].number)]
  /\ UNCHANGED <<list, lost, permits, m_running, closed, sink, output>>

(* Mutant of Post: the semaphore is posted for stored messages of a fresh ring only. *)
PostWhenFirst(t) ==
  /\ Goes(t, "post", "idle")
  /\ permits' = permits + (IF Len(ring[t]) = 1 THEN 1 ELSE 0)
  /\ UNCHANGED <<list, ring, lost, m_running, closed, sink, output>>

Post(t) ==
  /\ Goes(t, "post", "idle")
  /\ permits' = permits + 1
  /\ UNCHANGED <<list, ring, lost, m_running, closed, sink, output>>

(* close_sink(): the sink is told to stop, then woken; the join is awaited. *)
StopSink ==
  /\ m_running /\ m_running' = FALSE
  /\ UNCHANGED <<list, ring, lost, permits, closed, caller, sink, output>>

WakeSink ==
  /\ ~m_running /\ ~closed /\ closed' = TRUE
  /\ permits' = permits + 1
  /\ UNCHANGED <<list, ring, lost, m_running, caller, sink, output>>

(* wait(): whether to sleep for a permit, or only to take what is left. *)
CheckRunning ==
  /\ sink.at = "check"
  /\ sink' = [sink EXCEPT !.at = IF m_running THEN "wait" ELSE "try"]
  /\ UNCHANGED <<list, ring, lost, permits, m_running, closed, caller, output>>

TakePermit ==
  /\ sink.at \in {"wait", "try"} /\ permits > 0
  /\ permits' = permits - 1
  /\ sink' = [at |-> "walk", queue |-> m_queue_head]
  /\ UNCHANGED <<list, ring, lost, m_running, closed, caller, output>>

SinkExits ==
  /\ sink.at = "try" /\ permits = 0
  /\ sink' = [sink EXCEPT !.at = "exited"]
  /\ UNCHANGED <<list, ring, lost, permits, m_running, closed, caller, output>>

(* sink_loop(), queue after queue: the lost messages are reported first ... *)
ReportLost ==
  /\ sink.at = "walk" /\ sink.queue # NoQueue
  /\ reported' = [reported EXCEPT ![sink.queue] = @ + lost[sink.queue]]
  /\ lost' = [lost EXCEPT ![sink.queue] = 0]
  /\ sink' = [sink EXCEPT !.at = "drain"]
  /\ UNCHANGED <<list, ring, permits, m_running, closed, caller, printed>>

(* ... then the messages are printed, until dequeue() finds none. *)
PrintMessage ==
  /\ sink.at = "drain" /\ ring[sink.queue] # <<>>
  /\ printed' = [printed EXCEPT ![sink.queue] = Append(@, Head(ring[sink.queue]))]
  /\ ring' = [ring EXCEPT ![sink.queue] = Tail(@)]
  /\ UNCHANGED <<list, lost, permits, m_running, closed, caller, sink, reported>>

NextQueue ==
  /\ sink.at = "drain" /\ ring[sink.queue] = <<>>
  /\ sink' = [at |-> "walk", queue |-> m_next[sink.queue]]
  /\ UNCHANGED <<list, ring, lost, permits, m_running, closed, caller, output>>

WalkEnds ==
  /\ sink.at = "walk" /\ sink.queue = NoQueue
  /\ sink' = [sink EXCEPT !.at = "check"]
  /\ UNCHANGED <<list, ring, lost, permits, m_running, closed, caller, output>>

Logging(t) ==
  AppendQueue(t) \/ LinkQueue(t) \/ ReadIndices(t) \/ LoseMessage(t) \/ StoreMessage(t) \/ Post(t)

Sink ==
  \/ CheckRunning \/ TakePermit \/ SinkExits
  \/ ReportLost \/ PrintMessage \/ NextQueue \/ WalkEnds

LogNext ==
  \/ \E t \in LogThreads : LogLine(t) \/ Logging(t)
  \/ StopSink \/ WakeSink
  \/ Sink

(* A thread finishes a call it has begun, and the sink thread runs. *)
LogFairness ==
  /\ \A t \in LogThreads : WF_logVars(Logging(t))
  /\ WF_logVars(Sink)
  /\ WF_logVars(WakeSink)

LogSpec == LogInit /\ [][LogNext]_logVars /\ LogFairness

-----------------------------------------------------------------------------
(* Properties *)

Kept(t) == printed[t] \o ring[t]
Begun(t) == IF caller[t].at \in {"idle", "post"} THEN 0 ELSE 1

Drained(t) == ring[t] = <<>> /\ lost[t] = 0

(* Every message a thread has logged is printed, is in its queue or counts *)
(* as lost, once, and what is printed is in the order it was logged; and a *)
(* sink that exits while nobody is logging leaves nothing behind, however  *)
(* the queues were published while it walked.                              *)
MessagesAccounted ==
  /\ \A t \in LogThreads :
       /\ \A i, j \in DOMAIN Kept(t) : i < j => Kept(t)[i] < Kept(t)[j]
       /\ Len(Kept(t)) + reported[t] + lost[t] + Begun(t) = caller[t].number
  /\ (sink.at = "try" /\ permits = 0 /\ \A t \in LogThreads : caller[t].at = "idle")
       => \A t \in LogThreads : Drained(t)

(* What is logged is printed or reported sooner or later, unless the sink  *)
(* was closed before.                                                      *)
LogDrained == []<>(sink.at = "exited" \/ \A t \in LogThreads : Drained(t))

=============================================================================
