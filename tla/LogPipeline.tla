---------------------------- MODULE LogPipeline ----------------------------
(***************************************************************************)
(* The log pipeline: tasks that call dbg::Logger::log, the queues between  *)
(* them and the printer, and the printer task itself (debuggerTask, which  *)
(* calls dbg::Serializer::printNext).                                      *)
(*                                                                         *)
(* A queue is the bounded FIFO that SpscQueue is shown to implement, with  *)
(* or without the mutex; push and pop are therefore single steps here, and *)
(* so is the report of a drop counter (SpscQueue has its race).  What is   *)
(* left between the steps is what a log call or a scan holds on to: the    *)
(* timestamp taken before the push, the oldest front seen so far.  Of a    *)
(* message only its timestamp matters here.                                *)
(***************************************************************************)
EXTENDS Naturals, Sequences, FiniteSets

CONSTANTS NumQueues,  \* the queues of the Serializer, in its order
          Room,       \* Room[q]: usable capacity of queue q
          Tasks,      \* the tasks that log, the printer among them
          Printer,
          Uses,       \* Uses[t]: the queues task t has a Logger for
          NoOne,      \* no front, no queue
          MaxLogs,    \* bound: log calls that pass the filter
          MaxTime     \* bound: the clock

Queues == 1 .. NumQueues

ASSUME PipelineAssumption ==
  /\ NumQueues \in Nat \ {0}
  /\ Room \in [Queues -> Nat \ {0}]
  /\ Printer \in Tasks
  /\ Uses \in [Tasks -> SUBSET Queues]
  /\ NoOne \notin Nat
  /\ MaxLogs \in Nat /\ MaxTime \in Nat

VARIABLES
  clock,                   \* esp_timer_get_time()
  queue, dropped,          \* the queues and their drop counters
  wpc, wq, wts, nts,       \* a log call: step, queue, timestamps
  ppc, next, best,         \* printer: step, next queue to scan, oldest so far
  stopRequested,
  logs, fronts             \* history; fronts as the scan began

writerVars == <<wpc, wq, wts, nts>>
printerVars == <<ppc, next, best, stopRequested, fronts>>
vars == <<clock, queue, dropped, writerVars, printerVars, logs>>

Front(q) == IF queue[q] = << >> THEN NoOne ELSE Head(queue[q])
-----------------------------------------------------------------------------
Init ==
  /\ clock = 0
  /\ queue = [q \in Queues |-> << >>] /\ dropped = [q \in Queues |-> 0]
  /\ wpc = [t \in Tasks |-> "idle"] /\ wq = [t \in Tasks |-> NoOne]
  /\ wts = [t \in Tasks |-> 0] /\ nts = [t \in Tasks |-> 0]
  /\ ppc = "test" /\ next = 1 /\ best = NoOne
  /\ stopRequested = FALSE
  /\ logs = 0 /\ fronts = [q \in Queues |-> NoOne]

\* The timer ticks when somebody reads it, or not.
ReadClock == clock' \in {clock, clock + 1} /\ clock' <= MaxTime

\* log(): past the filter, the timestamp is taken and the arguments written;
\* they may not fit.  The printer logs its stack usage before it scans.
Log(t, q) ==
  /\ wpc[t] = "idle" /\ q \in Uses[t] /\ logs < MaxLogs
  /\ t = Printer => ppc = "mark"
  /\ ReadClock
  /\ logs' = logs + 1
  /\ \E fits \in BOOLEAN : wpc' = [wpc EXCEPT ![t] = IF fits THEN "push" ELSE "notice"]
  /\ wq' = [wq EXCEPT ![t] = q]
  /\ wts' = [wts EXCEPT ![t] = clock']
  /\ UNCHANGED <<queue, dropped, nts, printerVars>>

\* if (!ok): the nested log() call takes a timestamp of its own.
LogNotice(t) ==
  /\ wpc[t] = "notice"
  /\ ReadClock
  /\ wpc' = [wpc EXCEPT ![t] = "pushNotice"]
  /\ nts' = [nts EXCEPT ![t] = clock']
  /\ UNCHANGED <<queue, dropped, wq, wts, printerVars, logs>>

\* queue_.push(msg): a full queue counts the message as dropped.
PushTo(q, m) ==
  IF Len(queue[q]) < Room[q]
  THEN queue' = [queue EXCEPT ![q] = Append(@, m)] /\ UNCHANGED dropped
  ELSE dropped' = [dropped EXCEPT ![q] = @ + 1] /\ UNCHANGED queue

PushNotice(t) ==
  /\ wpc[t] = "pushNotice"
  /\ PushTo(wq[t], nts[t])
  /\ wpc' = [wpc EXCEPT ![t] = "push"]
  /\ UNCHANGED <<clock, wq, wts, nts, printerVars, logs>>

Push(t) ==
  /\ wpc[t] = "push"
  /\ PushTo(wq[t], wts[t])
  /\ wpc' = [wpc EXCEPT ![t] = "idle"]
  /\ wq' = [wq EXCEPT ![t] = NoOne]     \* the locals of log() are gone
  /\ wts' = [wts EXCEPT ![t] = 0] /\ nts' = [nts EXCEPT ![t] = 0]
  /\ UNCHANGED <<clock, printerVars, logs>>

LogStep(t) == LogNotice(t) \/ PushNotice(t) \/ Push(t)
-----------------------------------------------------------------------------
(* debuggerTask: while (!isStopRequested()) { logStackHighWaterMark();     *)
(* sleep; while (printNext()) sleep; } shutdown();                         *)

RequestStop ==
  /\ stopRequested' = TRUE
  /\ UNCHANGED <<clock, queue, dropped, writerVars, ppc, next, best, fronts, logs>>

TestStop ==
  /\ ppc = "test"
  /\ ppc' = IF stopRequested THEN "ended" ELSE "mark"
  /\ UNCHANGED <<clock, queue, dropped, writerVars, next, best, stopRequested, fronts, logs>>

\* Mutated: the index is off by one, the first queue is not looked at.
FirstQueueSkipped == 2

\* std::size_t index = 0: the first queue of the tuple.
FirstQueue == 1

\* printNext(): getQueueWithOldestMessage begins with no queue chosen.
BeginScan ==
  /\ ppc = "pause" \/ (ppc = "mark" /\ wpc[Printer] = "idle")
  /\ ppc' = "scan" /\ next' = FirstQueue /\ best' = NoOne
  /\ fronts' = [q \in Queues |-> Front(q)]
  /\ UNCHANGED <<clock, queue, dropped, writerVars, stopRequested, logs>>

\* Mutated: the comparison keeps the youngest front.
OlderReversed(q) == best = NoOne \/ Front(q) > Front(best)

\* front_msg.timestamp < earliest_timestamp.  The earliest timestamp is still
\* the one of the front of the queue it was read from: only the printer pops.
Older(q) == best = NoOne \/ Front(q) < Front(best)

\* Mutated: the last queue is left out of the fold.
QueuesToScanLess == NumQueues - 1

\* std::apply visits every queue of the tuple.
QueuesToScan == NumQueues

\* compare_timestamps for the next queue.
ScanQueue ==
  /\ ppc = "scan" /\ next <= QueuesToScan
  /\ next' = next + 1
  /\ best' = IF queue[next] # << >> /\ Older(next) THEN next ELSE best
  /\ UNCHANGED <<clock, queue, dropped, writerVars, ppc, stopRequested, fronts, logs>>

\* All queues were empty: printNext returns false and the outer loop goes on.
NothingToPrint ==
  /\ ppc = "scan" /\ next > QueuesToScan /\ best = NoOne
  /\ ppc' = "test" /\ next' = 1
  /\ UNCHANGED <<clock, queue, dropped, writerVars, best, stopRequested, fronts, logs>>

\* The chosen queue is popped and its message printed.
PopAndPrint ==
  /\ ppc = "scan" /\ next > QueuesToScan /\ best # NoOne
  /\ ppc' = "report" /\ next' = 1 /\ best' = NoOne
  /\ queue' = [queue EXCEPT ![best] = Tail(@)]
  /\ fronts' = [q \in Queues |-> NoOne]
  /\ UNCHANGED <<clock, dropped, writerVars, stopRequested, logs>>

\* debugQueueLoads(): every drop counter is printed and reset; then the
\* printer sleeps and calls printNext() again.
ReportLoads ==
  /\ ppc = "report"
  /\ ppc' = "pause"
  /\ dropped' = [q \in Queues |-> 0]
  /\ UNCHANGED <<clock, queue, writerVars, next, best, stopRequested, fronts, logs>>

PrintStep == TestStop \/ BeginScan \/ ScanQueue \/ NothingToPrint \/ PopAndPrint \/ ReportLoads

Next == \/ \E t \in Tasks : LogStep(t) \/ \E q \in Queues : Log(t, q)
        \/ RequestStop
        \/ PrintStep

Spec == Init /\ [][Next]_vars

(* No task blocks inside log(), and the printer, whose sleeps are bounded, *)
(* gets the processor whenever the tasks above it sleep.                   *)
FairSpec == Spec /\ WF_vars(PrintStep) /\ \A t \in Tasks : WF_vars(LogStep(t))
-----------------------------------------------------------------------------
Messages == 0 .. MaxTime

TypeOK ==
  /\ clock \in 0 .. MaxTime
  /\ queue \in [Queues -> Seq(Messages)] /\ dropped \in [Queues -> Nat]
  /\ wpc \in [Tasks -> {"idle", "notice", "pushNotice", "push"}]
  /\ wq \in [Tasks -> Queues \cup {NoOne}]
  /\ wts \in [Tasks -> 0 .. MaxTime] /\ nts \in [Tasks -> 0 .. MaxTime]
  /\ ppc \in {"test", "mark", "scan", "report", "pause", "ended"}
  /\ next \in 1 .. NumQueues + 1 /\ best \in Queues \cup {NoOne}
  /\ stopRequested \in BOOLEAN /\ logs \in 0 .. MaxLogs
  /\ fronts \in [Queues -> 0 .. MaxTime \cup {NoOne}]

Scanned == ppc = "scan" /\ next > QueuesToScan

\* Serializer.hpp:159 "`false` if all queues were empty": although the queues are
\* looked at one after the other, false means that all of them were empty at
\* one moment, when the scan began.
FalseMeansEmpty == Scanned /\ best = NoOne => \A q \in Queues : fronts[q] = NoOne

\* The message chosen is still there when the scan ends, and it is not younger
\* than any message that was in front when the scan began.
OldestFrontChosen ==
  Scanned /\ best # NoOne =>
    /\ queue[best] # << >>
    /\ \A q \in Queues : fronts[q] # NoOne => Front(best) <= fronts[q]

\* Why they hold: a queue that was not empty as the scan began still has the
\* same message in front, and the oldest one found so far is no younger than
\* the fronts of the queues already visited.
ScanInv ==
  ppc = "scan" =>
    /\ \A q \in Queues : fronts[q] # NoOne => queue[q] # << >> /\ Front(q) = fronts[q]
    /\ best # NoOne => queue[best] # << >>
    /\ \A q \in Queues : q < next /\ fronts[q] # NoOne =>
         best # NoOne /\ Front(best) <= fronts[q]

\* That, the types, and a log call that is under way has a queue to push to.
IndInv ==
  /\ TypeOK
  /\ \A t \in Tasks : wpc[t] # "idle" => wq[t] \in Queues
  /\ ScanInv

\* A queue that has been pushed to is emptied, unless the printer is stopped.
EverythingIsPrinted ==
  \A q \in Queues : queue[q] # << >> ~> (queue[q] = << >> \/ stopRequested)
=============================================================================
