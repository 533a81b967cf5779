------------------------- MODULE LogPipelineProofs -------------------------
(***************************************************************************)
(* Proofs about LogPipeline for every number of queues and tasks: what a   *)
(* scan that looks at one queue after the other may conclude while other   *)
(* tasks keep pushing.                                                     *)
(***************************************************************************)
EXTENDS LogPipeline, SequenceTheorems, TLAPS

LEMMA NoOneIsNoQueue == NoOne \notin Queues /\ NoOne \notin 0 .. MaxTime
BY PipelineAssumption DEF Queues

\* The front of a queue that holds something is a time.
LEMMA FrontType ==
  ASSUME TypeOK, NEW q \in Queues
  PROVE  /\ queue[q] = << >> => Front(q) = NoOne
         /\ queue[q] # << >> => Front(q) \in 0 .. MaxTime /\ Head(queue[q]) \in Messages
<1>1. queue[q] \in Seq(Messages)
  BY DEF TypeOK
<1>2. queue[q] # << >> => Head(queue[q]) \in Messages
  BY <1>1, HeadTailProperties
<1> QED BY <1>2 DEF Front, Messages

\* A push leaves every front alone that was there, and puts only messages in.
LEMMA PushKeepsFronts ==
  ASSUME TypeOK, NEW p \in Queues, NEW m \in Messages, PushTo(p, m)
  PROVE  /\ queue' \in [Queues -> Seq(Messages)] /\ dropped' \in [Queues -> Nat]
         /\ \A q \in Queues : queue[q] # << >> => queue'[q] # << >> /\ Front(q)' = Front(q)
<1>1. queue[p] \in Seq(Messages) /\ dropped[p] \in Nat
  BY DEF TypeOK
<1>2. CASE Len(queue[p]) < Room[p]
  <2>1. queue' = [queue EXCEPT ![p] = Append(queue[p], m)] /\ dropped' = dropped
    BY <1>2 DEF PushTo
  <2>2. /\ Append(queue[p], m) \in Seq(Messages) /\ Append(queue[p], m) # << >>
        /\ queue[p] # << >> => Head(Append(queue[p], m)) = Head(queue[p])
    BY <1>1, AppendProperties, HeadTailAppend
  <2> QED BY <2>1, <2>2 DEF TypeOK, Front
<1>3. CASE ~(Len(queue[p]) < Room[p])
  <2>1. queue' = queue /\ dropped' = [dropped EXCEPT ![p] = dropped[p] + 1]
    BY <1>3 DEF PushTo
  <2>2. dropped' \in [Queues -> Nat]
    BY <1>1, <2>1 DEF TypeOK
  <2> QED BY <2>1, <2>2 DEF TypeOK, Front
<1> QED BY <1>2, <1>3

\* A step that only adds to queues keeps what the scan knows.
LEMMA ScanSurvives ==
  ASSUME TypeOK, ScanInv, UNCHANGED <<ppc, next, best, fronts>>,
         \A q \in Queues : queue[q] # << >> => queue'[q] # << >> /\ Front(q)' = Front(q)
  PROVE  ScanInv'
BY DEF ScanInv, TypeOK

LEMMA InitInd == Init => IndInv
<1> SUFFICES ASSUME Init PROVE IndInv
  OBVIOUS
<1>1. TypeOK
  <2>1. stopRequested \in BOOLEAN
    BY DEF Init
  <2> QED BY <2>1, PipelineAssumption DEF Init, TypeOK
<1> QED BY <1>1 DEF Init, IndInv, ScanInv

\* A log call, whoever makes it and wherever the printer is.
LEMMA LogKeeps ==
  ASSUME IndInv, NEW t \in Tasks,
         LogStep(t) \/ \E q \in Queues : Log(t, q)
  PROVE  IndInv'
<1> USE DEF writerVars, printerVars
<1>1. ASSUME NEW q \in Queues, Log(t, q) PROVE IndInv'
  <2>1. clock' \in 0 .. MaxTime /\ logs' \in 0 .. MaxLogs
    BY <1>1, PipelineAssumption DEF Log, ReadClock, IndInv, TypeOK
  <2>2. TypeOK'
    BY <1>1, <2>1 DEF Log, IndInv, TypeOK
  <2>3. (\A u \in Tasks : wpc[u] # "idle" => wq[u] \in Queues)'
    BY <1>1 DEF Log, IndInv, TypeOK
  <2>4. ScanInv'
    BY <1>1 DEF Log, IndInv, ScanInv, Front
  <2> QED BY <2>2, <2>3, <2>4 DEF IndInv
<1>2. CASE LogNotice(t)
  <2>1. clock' \in 0 .. MaxTime
    BY <1>2, PipelineAssumption DEF LogNotice, ReadClock, IndInv, TypeOK
  <2>2. TypeOK'
    BY <1>2, <2>1 DEF LogNotice, IndInv, TypeOK
  <2>3. (\A u \in Tasks : wpc[u] # "idle" => wq[u] \in Queues)'
    BY <1>2 DEF LogNotice, IndInv, TypeOK
  <2>4. ScanInv'
    BY <1>2 DEF LogNotice, IndInv, ScanInv, Front
  <2> QED BY <2>2, <2>3, <2>4 DEF IndInv
<1>3. CASE PushNotice(t)
  <2>1. wq[t] \in Queues /\ nts[t] \in Messages /\ PushTo(wq[t], nts[t])
    BY <1>3 DEF PushNotice, Messages, IndInv, TypeOK
  <2>2. ScanInv'
    BY <1>3, <2>1, PushKeepsFronts, ScanSurvives DEF PushNotice, IndInv
  <2> QED BY <1>3, <2>1, <2>2, PushKeepsFronts DEF PushNotice, IndInv, TypeOK
<1>4. CASE Push(t)
  <2>1. wq[t] \in Queues /\ wts[t] \in Messages /\ PushTo(wq[t], wts[t])
    BY <1>4 DEF Push, Messages, IndInv, TypeOK
  <2>2. ScanInv'
    BY <1>4, <2>1, PushKeepsFronts, ScanSurvives DEF Push, IndInv
  <2>3. /\ queue' \in [Queues -> Seq(Messages)] /\ dropped' \in [Queues -> Nat]
        /\ 0 \in 0 .. MaxTime /\ 0 \in 0 .. MaxLogs
    BY <2>1, PushKeepsFronts, PipelineAssumption DEF IndInv
  <2>4. TypeOK'
    BY <1>4, <2>3 DEF Push, IndInv, TypeOK
  <2>5. (\A u \in Tasks : wpc[u] # "idle" => wq[u] \in Queues)'
    BY <1>4 DEF Push, IndInv, TypeOK
  <2> QED BY <2>2, <2>4, <2>5 DEF IndInv
<1> QED BY <1>1, <1>2, <1>3, <1>4 DEF LogStep

\* A step of the printer.
LEMMA PrintKeeps ==
  ASSUME IndInv, PrintStep
  PROVE  IndInv'
<1> USE DEF writerVars
<1>1. CASE TestStop
  BY <1>1 DEF TestStop, IndInv, TypeOK, ScanInv
<1>2. CASE BeginScan
  <2>1. fronts' = [q \in Queues |-> Front(q)] /\ queue' = queue /\ next' = 1 /\ best' = NoOne
    BY <1>2 DEF BeginScan, FirstQueue
  <2>2. fronts' \in [Queues -> 0 .. MaxTime \cup {NoOne}]
    BY <2>1, FrontType DEF IndInv
  <2>3. TypeOK'
    BY <1>2, <2>1, <2>2, PipelineAssumption DEF BeginScan, IndInv, TypeOK
  <2>4. ScanInv'
    BY <2>1, FrontType, PipelineAssumption DEF ScanInv, IndInv, Front, Queues
  <2> QED BY <1>2, <2>3, <2>4 DEF BeginScan, IndInv
<1>3. CASE ScanQueue
  <2>1. /\ next \in Queues /\ next' = next + 1 /\ UNCHANGED <<queue, fronts, ppc>>
        /\ ppc = "scan"
    BY <1>3, PipelineAssumption DEF ScanQueue, QueuesToScan, IndInv, TypeOK, Queues
  <2>2. TypeOK'
    BY <1>3, <2>1, PipelineAssumption, SMTT(30) DEF ScanQueue, IndInv, TypeOK, Queues
  <2>3. \A q \in Queues : fronts[q] # NoOne => queue[q] # << >> /\ Front(q) = fronts[q]
    BY <2>1 DEF IndInv, ScanInv
  <2>4. \A q \in Queues : fronts[q] \in 0 .. MaxTime \cup {NoOne} /\ Front(q)' = Front(q)
    BY <2>1 DEF IndInv, TypeOK, Front
  <2>5. CASE queue[next] # << >> /\ Older(next)
    <3>1. best' = next /\ next # NoOne
      BY <1>3, <2>1, <2>5, NoOneIsNoQueue DEF ScanQueue
    <3>2. \A q \in Queues : q < next /\ fronts[q] # NoOne => Front(next) <= fronts[q]
      <4> SUFFICES ASSUME NEW q \in Queues, q < next, fronts[q] # NoOne
                   PROVE  Front(next) <= fronts[q]
        OBVIOUS
      <4>1. best \in Queues /\ queue[best] # << >> /\ Front(best) <= fronts[q]
        BY <2>1 DEF IndInv, ScanInv, TypeOK
      <4>2. Front(next) < Front(best)
        BY <2>5, <4>1, NoOneIsNoQueue DEF Older
      <4>3. Front(next) \in 0 .. MaxTime /\ Front(best) \in 0 .. MaxTime /\ fronts[q] \in 0 .. MaxTime
        BY <2>1, <2>4, <2>5, <4>1, FrontType DEF IndInv
      <4> QED BY <4>1, <4>2, <4>3
    <3>3. fronts[next] # NoOne => Front(next) = fronts[next] /\ Front(next) <= fronts[next]
      BY <2>1, <2>3, <2>4
    <3>4. \A q \in Queues : q < next' => q < next \/ q = next
      BY <2>1 DEF Queues
    <3>5. ScanInv'
      BY <2>1, <2>3, <2>4, <2>5, <3>1, <3>2, <3>3, <3>4 DEF ScanInv
    <3> QED BY <1>3, <2>2, <3>5 DEF ScanQueue, IndInv
  <2>6. CASE ~(queue[next] # << >> /\ Older(next))
    <3>1. best' = best
      BY <1>3, <2>6 DEF ScanQueue
    <3>2. fronts[next] # NoOne => best # NoOne /\ Front(best) <= fronts[next]
      <4> SUFFICES ASSUME fronts[next] # NoOne
                   PROVE  best # NoOne /\ Front(best) <= fronts[next]
        OBVIOUS
      <4>1. queue[next] # << >> /\ Front(next) = fronts[next] /\ ~Older(next)
        BY <2>1, <2>3, <2>6
      <4>2. best \in Queues /\ queue[best] # << >> /\ ~(Front(next) < Front(best))
        BY <2>1, <4>1 DEF Older, IndInv, ScanInv, TypeOK
      <4>3. Front(next) \in 0 .. MaxTime /\ Front(best) \in 0 .. MaxTime
        BY <2>1, <4>1, <4>2, FrontType DEF IndInv
      <4>4. best # NoOne
        BY <4>1 DEF Older
      <4> QED BY <4>1, <4>2, <4>3, <4>4
    <3>3. \A q \in Queues : q < next' => q < next \/ q = next
      BY <2>1 DEF Queues
    <3>4. best # NoOne => Front(best)' = Front(best)
      BY <2>4, <3>1 DEF IndInv, TypeOK
    <3>5. ScanInv'
      BY <2>1, <2>3, <2>4, <3>1, <3>2, <3>3, <3>4 DEF ScanInv, IndInv
    <3> QED BY <1>3, <2>2, <3>5 DEF ScanQueue, IndInv
  <2> QED BY <2>5, <2>6
<1>4. CASE NothingToPrint
  BY <1>4, PipelineAssumption DEF NothingToPrint, IndInv, TypeOK, ScanInv
<1>5. CASE PopAndPrint
  <2>1. best \in Queues /\ queue[best] # << >> /\ queue[best] \in Seq(Messages)
    BY <1>5 DEF PopAndPrint, IndInv, TypeOK, ScanInv
  <2>2. Tail(queue[best]) \in Seq(Messages) /\ Head(queue[best]) \in Messages
    BY <2>1, HeadTailProperties
  <2>3. TypeOK'
    BY <1>5, <2>1, <2>2, PipelineAssumption DEF PopAndPrint, IndInv, TypeOK
  <2> QED BY <1>5, <2>3 DEF PopAndPrint, IndInv, ScanInv
<1>6. CASE ReportLoads
  BY <1>6 DEF ReportLoads, IndInv, TypeOK, ScanInv
<1> QED BY <1>1, <1>2, <1>3, <1>4, <1>5, <1>6 DEF PrintStep

LEMMA NextKeeps == IndInv /\ [Next]_vars => IndInv'
<1> SUFFICES ASSUME IndInv, [Next]_vars PROVE IndInv'
  OBVIOUS
<1>1. CASE RequestStop
  BY <1>1 DEF RequestStop, writerVars, IndInv, TypeOK, ScanInv, Front
<1>2. CASE UNCHANGED vars
  BY <1>2 DEF vars, writerVars, printerVars, IndInv, TypeOK, ScanInv, Front
<1> QED BY <1>1, <1>2, LogKeeps, PrintKeeps DEF Next

\* What the printer knows of the queues it has looked at (Serializer.tpp:196) stays true
\* while tasks log.
THEOREM Inductive == Spec => []IndInv
BY InitInd, NextKeeps, PTL DEF Spec

\* Every variable of the pipeline keeps its type.
THEOREM TypeCorrect == Spec => []TypeOK
<1>1. IndInv => TypeOK
  BY DEF IndInv
<1> QED BY <1>1, Inductive, PTL

\* printNext() returns false only if all queues were empty at one moment.
THEOREM FalseIsTrustworthy == Spec => []FalseMeansEmpty
<1>1. IndInv => FalseMeansEmpty
  BY PipelineAssumption
  DEF IndInv, ScanInv, FalseMeansEmpty, Scanned, QueuesToScan, TypeOK, Queues
<1> QED BY <1>1, Inductive, PTL

\* The message it prints is no younger than any front the scan began with.
THEOREM OldestIsChosen == Spec => []OldestFrontChosen
<1>1. IndInv => OldestFrontChosen
  BY PipelineAssumption
  DEF IndInv, ScanInv, OldestFrontChosen, Scanned, QueuesToScan, TypeOK, Queues
<1> QED BY <1>1, Inductive, PTL
-----------------------------------------------------------------------------
(* Each queue of the pipeline is the FIFO that SpscQueue implements, with  *)
(* two histories that BoundedFifo has and the pipeline does not: what was  *)
(* printed from a queue and how many pushes it refused.                    *)

VARIABLES delivered, rejected

Record ==
  /\ delivered' = IF PopAndPrint
                  THEN [delivered EXCEPT ![best] = Append(delivered[best], Head(queue[best]))]
                  ELSE delivered
  /\ rejected' = [q \in Queues |-> IF dropped'[q] > dropped[q] THEN rejected[q] + 1 ELSE rejected[q]]

recorded == <<vars, delivered, rejected>>

RecordedInit ==
  /\ Init
  /\ delivered = [q \in Queues |-> << >>] /\ rejected = [q \in Queues |-> 0]

RecordedSpec == RecordedInit /\ [][Next /\ Record]_recorded

RecordType == delivered \in [Queues -> Seq(Messages)] /\ rejected \in [Queues -> Nat]

F(i) == INSTANCE BoundedFifo
          WITH N <- Room[i], Msgs <- Messages,
               q <- queue[i], delivered <- delivered[i], rejected <- rejected[i]

WithinRoom == \A q \in Queues : Len(queue[q]) <= Room[q]

FifoInv == IndInv /\ WithinRoom /\ RecordType

\* A push, seen from every queue: appended where there was room, refused where not.
LEMMA PushIsFifo ==
  ASSUME FifoInv, NEW p \in Queues, NEW m \in Messages, PushTo(p, m), Record, ~PopAndPrint,
         NEW i \in Queues
  PROVE  [F(i)!Next]_(F(i)!fifoVars) /\ Len(queue[i])' <= Room[i]
<1>1. /\ queue[i] \in Seq(Messages) /\ Len(queue[i]) <= Room[i] /\ Room[i] \in Nat
      /\ dropped[i] \in Nat /\ delivered' = delivered
      /\ queue \in [Queues -> Seq(Messages)] /\ dropped \in [Queues -> Nat]
  BY PipelineAssumption DEF FifoInv, IndInv, TypeOK, WithinRoom, Record
<1>2. rejected'[i] = IF dropped'[i] > dropped[i] THEN rejected[i] + 1 ELSE rejected[i]
  BY DEF Record
<1>3. CASE i # p
  <2>1. queue'[i] = queue[i] /\ dropped'[i] = dropped[i]
    BY <1>1, <1>3 DEF PushTo
  <2> QED BY <1>1, <1>2, <2>1 DEF F!fifoVars
<1>4. CASE i = p /\ Len(queue[p]) < Room[p]
  <2>1. queue'[i] = Append(queue[i], m) /\ dropped'[i] = dropped[i]
    BY <1>1, <1>4 DEF PushTo
  <2>2. Len(Append(queue[i], m)) = Len(queue[i]) + 1
    BY <1>1, AppendProperties
  <2>3. F(i)!Push(m)
    BY <1>1, <1>2, <1>4, <2>1 DEF F!Push
  <2> QED BY <1>1, <1>4, <2>1, <2>2, <2>3 DEF F!Next
<1>5. CASE i = p /\ ~(Len(queue[p]) < Room[p])
  <2>1. queue'[i] = queue[i] /\ dropped'[i] = dropped[i] + 1
    BY <1>1, <1>5 DEF PushTo
  <2>2. Len(queue[i]) = Room[i]
    BY <1>1, <1>5, LenProperties
  <2>3. F(i)!Reject
    BY <1>1, <1>2, <2>1, <2>2 DEF F!Reject
  <2> QED BY <1>1, <2>1, <2>3 DEF F!Next
<1> QED BY <1>3, <1>4, <1>5

LEMMA StepIsFifo ==
  ASSUME FifoInv, [Next /\ Record]_recorded, NEW i \in Queues
  PROVE  [F(i)!Next]_(F(i)!fifoVars) /\ Len(queue[i])' <= Room[i]
<1> USE DEF writerVars, printerVars
<1>1. /\ queue[i] \in Seq(Messages) /\ Len(queue[i]) <= Room[i] /\ dropped[i] \in Nat
      /\ queue \in [Queues -> Seq(Messages)]
  BY DEF FifoInv, IndInv, TypeOK, WithinRoom
<1>2. ASSUME UNCHANGED <<queue, delivered>>, rejected'[i] = rejected[i]
      PROVE  [F(i)!Next]_(F(i)!fifoVars) /\ Len(queue[i])' <= Room[i]
  BY <1>1, <1>2 DEF F!fifoVars
<1>3. CASE UNCHANGED recorded
  BY <1>2, <1>3 DEF recorded, vars
<1>4. ASSUME Record, ~PopAndPrint, queue' = queue, dropped' = dropped \/ dropped' = [q \in Queues |-> 0]
      PROVE  UNCHANGED <<queue, delivered>> /\ rejected'[i] = rejected[i]
  BY <1>1, <1>4 DEF Record
<1>5. ASSUME NEW t \in Tasks, Record, LogStep(t) \/ \E q \in Queues : Log(t, q)
      PROVE  [F(i)!Next]_(F(i)!fifoVars) /\ Len(queue[i])' <= Room[i]
  <2>1. ~PopAndPrint
    BY <1>5 DEF LogStep, LogNotice, PushNotice, Push, Log, PopAndPrint
  <2>2. CASE LogNotice(t) \/ \E q \in Queues : Log(t, q)
    <3>1. UNCHANGED <<queue, dropped>>
      BY <2>2 DEF LogNotice, Log
    <3> QED BY <1>2, <1>4, <1>5, <2>1, <3>1
  <2>3. CASE PushNotice(t)
    <3>1. wq[t] \in Queues /\ nts[t] \in Messages /\ PushTo(wq[t], nts[t])
      BY <2>3 DEF PushNotice, Messages, FifoInv, IndInv, TypeOK
    <3> QED BY <1>5, <2>1, <3>1, PushIsFifo
  <2>4. CASE Push(t)
    <3>1. wq[t] \in Queues /\ wts[t] \in Messages /\ PushTo(wq[t], wts[t])
      BY <2>4 DEF Push, Messages, FifoInv, IndInv, TypeOK
    <3> QED BY <1>5, <2>1, <3>1, PushIsFifo
  <2> QED BY <1>5, <2>2, <2>3, <2>4 DEF LogStep
<1>6. CASE PopAndPrint /\ Record
  <2>1. /\ best \in Queues /\ queue[best] # << >> /\ queue[best] \in Seq(Messages)
        /\ queue' = [queue EXCEPT ![best] = Tail(queue[best])] /\ dropped' = dropped
    BY <1>6 DEF PopAndPrint, FifoInv, IndInv, TypeOK, ScanInv
  <2>2. Len(Tail(queue[best])) = Len(queue[best]) - 1 /\ Len(queue[best]) \in Nat
    BY <2>1, HeadTailProperties, LenProperties
  <2>3. rejected'[i] = rejected[i]
    BY <1>1, <1>6, <2>1 DEF Record
  <2>4. CASE i # best
    <3>1. queue'[i] = queue[i] /\ delivered'[i] = delivered[i]
      BY <1>6, <2>1, <2>4 DEF Record, FifoInv, RecordType
    <3> QED BY <1>1, <2>3, <3>1 DEF F!fifoVars
  <2>5. CASE i = best
    <3>1. queue'[i] = Tail(queue[i]) /\ delivered'[i] = Append(delivered[i], Head(queue[i]))
      <4>1. delivered' = [delivered EXCEPT ![best] = Append(delivered[best], Head(queue[best]))]
        BY <1>6 DEF Record
      <4>2. delivered \in [Queues -> Seq(Messages)]
        BY DEF FifoInv, RecordType
      <4>3. delivered'[best] = Append(delivered[best], Head(queue[best]))
        BY <2>1, <4>1, <4>2, Zenon
      <4>4. queue'[best] = Tail(queue[best])
        BY <1>1, <2>1, Zenon
      <4> QED BY <2>5, <4>3, <4>4
    <3>2. F(i)!Pop
      BY <2>1, <2>3, <2>5, <3>1 DEF F!Pop
    <3>3. Room[i] \in Nat
      BY PipelineAssumption
    <3> QED BY <1>1, <2>2, <2>5, <3>1, <3>2, <3>3 DEF F!Next
  <2> QED BY <2>4, <2>5
<1>7. CASE ~PopAndPrint /\ Record /\ (PrintStep \/ RequestStop)
  <2>1. queue' = queue /\ (dropped' = dropped \/ dropped' = [q \in Queues |-> 0])
    BY <1>7 DEF PrintStep, TestStop, BeginScan, ScanQueue, NothingToPrint, ReportLoads, RequestStop
  <2> QED BY <1>2, <1>4, <1>7, <2>1
<1> QED BY <1>3, <1>5, <1>6, <1>7 DEF Next

LEMMA FifoInductive == RecordedSpec => []FifoInv
<1>1. RecordedInit => FifoInv
  BY InitInd, PipelineAssumption DEF RecordedInit, FifoInv, WithinRoom, RecordType, Init
<1>2. FifoInv /\ [Next /\ Record]_recorded => FifoInv'
  <2> SUFFICES ASSUME FifoInv, [Next /\ Record]_recorded PROVE FifoInv'
    OBVIOUS
  <2>1. IndInv'
    BY NextKeeps DEF FifoInv, recorded
  <2>2. WithinRoom'
    BY StepIsFifo DEF WithinRoom
  <2>3. RecordType'
    <3>1. CASE PopAndPrint /\ Record
      <4>1. best \in Queues /\ queue[best] # << >> /\ queue[best] \in Seq(Messages)
        BY <3>1 DEF PopAndPrint, FifoInv, IndInv, TypeOK, ScanInv
      <4>2. Append(delivered[best], Head(queue[best])) \in Seq(Messages)
        BY <4>1, HeadTailProperties, AppendProperties DEF FifoInv, RecordType
      <4> QED BY <3>1, <4>1, <4>2 DEF FifoInv, RecordType, Record
    <3>2. CASE ~PopAndPrint /\ Record
      BY <3>2 DEF FifoInv, RecordType, Record
    <3> QED BY <3>1, <3>2 DEF FifoInv, RecordType, recorded
  <2> QED BY <2>1, <2>2, <2>3 DEF FifoInv
<1> QED BY <1>1, <1>2, PTL DEF RecordedSpec

\* Each queue of the pipeline behaves as BoundedFifo says, which SpscQueue implements:
\* log() (Logger.tpp:83) pushes or is refused when the queue is full, and the printer
\* takes the oldest message.
THEOREM QueuesAreFifos ==
  ASSUME NEW i \in Queues
  PROVE  RecordedSpec => F(i)!Spec
<1>1. RecordedInit => F(i)!Init
  BY DEF RecordedInit, Init, F!Init
<1>2. FifoInv /\ [Next /\ Record]_recorded => [F(i)!Next]_(F(i)!fifoVars)
  BY StepIsFifo
<1> QED BY <1>1, <1>2, FifoInductive, PTL DEF RecordedSpec, F!Spec
=============================================================================
