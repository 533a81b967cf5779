-------------------------- MODULE SpscQueueProofs --------------------------
(***************************************************************************)
(* Proofs about SpscQueue for every capacity that is a power of two, every *)
(* set of messages and any number of producers.  The ring arithmetic comes *)
(* first, then the inductive invariant, one step per action, then what     *)
(* follows from it.                                                        *)
(***************************************************************************)
EXTENDS SpscQueue, SequenceTheorems, TLAPS

\* increment() is the successor on the ring, and stays inside buffer_.
LEMMA IncrementWraps ==
  ASSUME NEW i \in Slots
  PROVE  /\ Increment(i) = IF i + 1 = Capacity THEN 0 ELSE i + 1
         /\ Increment(i) \in Slots
<1>1. CASE i + 1 = Capacity
  BY <1>1, CapacityAssumption DEF Slots, Increment
<1>2. CASE i + 1 # Capacity
  BY <1>2, CapacityAssumption DEF Slots, Increment
<1> QED BY <1>1, <1>2

\* size() of two indices of the ring is at most the usable capacity.
LEMMA SizeInRange ==
  ASSUME NEW h \in Slots, NEW t \in Slots
  PROVE  SizeOf(h, t) \in 0 .. Capacity - 1 /\ (SizeOf(h, t) = 0 <=> h = t)
BY CapacityAssumption DEF Slots, SizeOf

\* Storing head_ adds one to size() and storing tail_ takes one away.
LEMMA SizeSteps ==
  ASSUME NEW h \in Slots, NEW t \in Slots
  PROVE  /\ Increment(h) # t => SizeOf(Increment(h), t) = SizeOf(h, t) + 1
         /\ h # t => SizeOf(h, Increment(t)) = SizeOf(h, t) - 1
         /\ Increment(h) = t => SizeOf(h, t) = Capacity - 1
BY IncrementWraps, CapacityAssumption DEF Slots, SizeOf

\* The mutex, or there being one producer, keeps everybody else out of push().
LEMMA OneInside == IndInv => OneProducerInside
BY ProducersAssumption, ValuesAssumption DEF IndInv, TypeOK, ProducerInv, OneProducerInside
-----------------------------------------------------------------------------
LEMMA InitInd == Init => IndInv
<1> SUFFICES ASSUME Init PROVE IndInv
  OBVIOUS
<1>1. 0 \in Slots /\ SizeOf(0, 0) = 0
  BY CapacityAssumption DEF Slots, SizeOf
<1>2. TypeOK
  BY <1>1, CapacityAssumption DEF Init, TypeOK
<1>3. \A i \in Slots : ~Live(i)
  BY CapacityAssumption DEF Init, Live, Slots
<1> QED
  BY <1>1, <1>2, <1>3 DEF Init, IndInv, ProducerInv, ConsumerInv, LoadNotOverstated, DropNotSilent

\* Every step of push() and of the logger around it keeps the invariant.
LEMMA ProducerKeeps ==
  ASSUME IndInv, NEW p \in Producers,
         (\E m \in Msgs : Enter(p, m)) \/ PushStep(p)
  PROVE  IndInv'
<1> USE DEF PStep, queueVars, producerVars, consumerVars, historyVars
<1>0. TypeOK /\ (\A i \in Slots : Increment(i) \in Slots)
  BY IncrementWraps DEF IndInv
<1>1. ASSUME NEW m \in Msgs, Enter(p, m) PROVE IndInv'
  <2>1. TypeOK'
    BY <1>1, <1>0 DEF Enter, TypeOK
  <2>2. ProducerInv'
    <3>1. \A r \in Producers : GlobalLock => ppc[r] = "idle"
      BY <1>1, <1>0, ValuesAssumption DEF Enter, MayPush, IndInv, ProducerInv
    <3>2. \A r \in Producers : r # p => ppc[r] = ppc'[r] /\ pval[r] = pval'[r]
      BY <1>1, <1>0 DEF Enter, TypeOK
    <3>3. ppc'[p] = "load" /\ pval'[p] = m /\ (GlobalLock => owner' = p)
      BY <1>1, <1>0 DEF Enter, TypeOK
    <3>4. ~GlobalLock => owner' = owner
      BY <1>1 DEF Enter
    <3> QED
      BY <1>1, <3>1, <3>2, <3>3, <3>4 DEF Enter, IndInv, ProducerInv
  <2>3. ConsumerInv' /\ LoadNotOverstated' /\ (\A i \in Slots : Live(i) => buffer[i] \in Msgs)'
    BY <1>1 DEF Enter, IndInv, ConsumerInv, LoadNotOverstated, Live
  <2>4. DropNotSilent'
    BY <1>1, <1>0 DEF Enter, IndInv, TypeOK, DropNotSilent
  <2> QED BY <2>1, <2>2, <2>3, <2>4 DEF IndInv
<1>2. CASE LoadHead(p)
  BY <1>2, <1>0 DEF LoadHead, IndInv, TypeOK, ProducerInv, ConsumerInv, Live,
     LoadNotOverstated, DropNotSilent
<1>3. CASE FindFull(p)
  BY <1>3, <1>0 DEF FindFull, NextIsTail, IndInv, TypeOK, ProducerInv, ConsumerInv, Live,
     LoadNotOverstated, DropNotSilent
<1>4. CASE FindRoom(p)
  BY <1>4, <1>0 DEF FindRoom, NextIsTail, IndInv, TypeOK, ProducerInv, ConsumerInv, Live,
     LoadNotOverstated, DropNotSilent
<1>5. CASE LoadCount(p)
  BY <1>5, <1>0 DEF LoadCount, IndInv, TypeOK, ProducerInv, ConsumerInv, Live,
     LoadNotOverstated, DropNotSilent
<1>6. CASE StoreCount(p)
  BY <1>6, <1>0 DEF StoreCount, IndInv, TypeOK, ProducerInv, ConsumerInv, Live,
     LoadNotOverstated, DropNotSilent
<1>7. CASE Return(p)
  BY <1>7, <1>0 DEF Return, IndInv, TypeOK, ProducerInv, ConsumerInv, Live,
     LoadNotOverstated, DropNotSilent
<1>8. CASE BeginWrite(p)
  <2>1. phead[p] = head /\ head \in Slots /\ ~Live(head) /\ Increment(head) # tail
    BY <1>8, <1>0, CapacityAssumption DEF BeginWrite, IndInv, TypeOK, ProducerInv, Live, Slots
  <2>2. buffer' = [buffer EXCEPT ![head] = Torn]
    BY <1>8, <2>1 DEF BeginWrite
  <2>3. TypeOK'
    BY <1>8, <1>0 DEF BeginWrite, TypeOK
  <2>4. ProducerInv'
    BY <1>8, <1>0, <2>1, <2>2, OneInside DEF BeginWrite, IndInv, TypeOK, ProducerInv, OneProducerInside
  <2>5. ConsumerInv'
    BY <1>8, <1>0, <2>2 DEF BeginWrite, IndInv, TypeOK, ConsumerInv
  <2>6. (\A i \in Slots : Live(i) => buffer[i] \in Msgs)'
    BY <1>8, <1>0, <2>1, <2>2 DEF BeginWrite, IndInv, TypeOK, Live
  <2>7. LoadNotOverstated' /\ DropNotSilent'
    BY <1>8, <1>0 DEF BeginWrite, IndInv, TypeOK, LoadNotOverstated, DropNotSilent
  <2> QED BY <2>3, <2>4, <2>5, <2>6, <2>7 DEF IndInv
<1>9. CASE EndWrite(p)
  <2>1. phead[p] = head /\ head \in Slots /\ ~Live(head) /\ Increment(head) # tail
    BY <1>9, <1>0, CapacityAssumption DEF EndWrite, IndInv, TypeOK, ProducerInv, Live, Slots
  <2>2. buffer' = [buffer EXCEPT ![head] = pval[p]]
    BY <1>9, <2>1 DEF EndWrite
  <2>3. TypeOK'
    BY <1>9, <1>0 DEF EndWrite, TypeOK
  <2>4. ProducerInv'
    BY <1>9, <1>0, <2>1, <2>2, OneInside DEF EndWrite, IndInv, TypeOK, ProducerInv, OneProducerInside
  <2>5. ConsumerInv'
    BY <1>9, <1>0, <2>2 DEF EndWrite, IndInv, TypeOK, ConsumerInv
  <2>6. (\A i \in Slots : Live(i) => buffer[i] \in Msgs)'
    BY <1>9, <1>0, <2>1, <2>2 DEF EndWrite, IndInv, TypeOK, Live
  <2>7. LoadNotOverstated' /\ DropNotSilent'
    BY <1>9, <1>0 DEF EndWrite, IndInv, TypeOK, LoadNotOverstated, DropNotSilent
  <2> QED BY <2>3, <2>4, <2>5, <2>6, <2>7 DEF IndInv
<1>10. CASE StoreHead(p)
  <2>1. /\ phead[p] = head /\ head' = Increment(head) /\ head \in Slots /\ tail \in Slots
        /\ head' # tail /\ buffer[head] \in Msgs
    BY <1>10, <1>0 DEF StoreHead, IndInv, TypeOK, ProducerInv
  <2>2. TypeOK'
    BY <1>10, <1>0 DEF StoreHead, TypeOK
  <2>3. ProducerInv'
    BY <1>10, <1>0, OneInside DEF StoreHead, IndInv, TypeOK, ProducerInv, OneProducerInside
  <2>4. ConsumerInv'
    BY <1>10, <2>1 DEF StoreHead, IndInv, ConsumerInv
  <2>5. (\A i \in Slots : Live(i) => buffer[i] \in Msgs)'
    <3>1. \A i \in Slots : Live(i)' => Live(i) \/ i = head
      BY <1>10, <2>1, IncrementWraps, CapacityAssumption DEF StoreHead, Live, Slots
    <3> QED BY <1>10, <2>1, <3>1 DEF StoreHead, IndInv
  <2>6. LoadNotOverstated'
    BY <1>10, <1>0, <2>1, SizeSteps, SizeInRange DEF StoreHead, IndInv, TypeOK, LoadNotOverstated
  <2>7. DropNotSilent'
    BY <1>10, <1>0 DEF StoreHead, IndInv, TypeOK, DropNotSilent
  <2> QED BY <2>2, <2>3, <2>4, <2>5, <2>6, <2>7 DEF IndInv
<1> QED
  BY <1>1, <1>2, <1>3, <1>4, <1>5, <1>6, <1>7, <1>8, <1>9, <1>10 DEF PushStep

\* Every step of printNext keeps the invariant.
LEMMA ConsumerKeeps ==
  ASSUME IndInv, SeeMessage \/ PeekFront \/ PrintElsewhere \/ PopStep \/ ReportStep
  PROVE  IndInv'
<1> USE DEF CStep, queueVars, producerVars, consumerVars, historyVars
<1>0. TypeOK /\ (\A i \in Slots : Increment(i) \in Slots)
  BY IncrementWraps DEF IndInv
<1>1. CASE SeeMessage
  BY <1>1, <1>0 DEF SeeMessage, Empty, IndInv, TypeOK, ProducerInv, ConsumerInv, Live,
     LoadNotOverstated, DropNotSilent
<1>2. CASE PeekFront
  BY <1>2, <1>0 DEF PeekFront, IndInv, TypeOK, ProducerInv, ConsumerInv, Live,
     LoadNotOverstated, DropNotSilent
<1>3. CASE PrintElsewhere
  BY <1>3, <1>0 DEF PrintElsewhere, Empty, IndInv, TypeOK, ProducerInv, ConsumerInv, Live,
     LoadNotOverstated, DropNotSilent
<1>4. CASE CheckEmpty
  BY <1>4, <1>0 DEF CheckEmpty, Empty, IndInv, TypeOK, ProducerInv, ConsumerInv, Live,
     LoadNotOverstated, DropNotSilent
<1>5. CASE BeginRead
  BY <1>5, <1>0 DEF BeginRead, IndInv, TypeOK, ProducerInv, ConsumerInv, Live,
     LoadNotOverstated, DropNotSilent
<1>6. CASE EndRead
  BY <1>6, <1>0 DEF EndRead, IndInv, TypeOK, ProducerInv, ConsumerInv, Live,
     LoadNotOverstated, DropNotSilent
<1>7. CASE ReadDropped
  BY <1>7, <1>0 DEF ReadDropped, DropsSeen, IndInv, TypeOK, ProducerInv, ConsumerInv, Live,
     LoadNotOverstated, DropNotSilent
<1>8. CASE ResetDropped
  BY <1>8, <1>0 DEF ResetDropped, IndInv, TypeOK, ProducerInv, ConsumerInv, Live,
     LoadNotOverstated, DropNotSilent
<1>9. CASE StoreTail
  <2>1. /\ tail' = Increment(tail) /\ head \in Slots /\ tail \in Slots /\ head # tail
        /\ Live(tail) /\ out \in Msgs
    BY <1>9, <1>0, CapacityAssumption DEF StoreTail, IndInv, TypeOK, ConsumerInv, Live, Slots
  <2>2. delivered' \in Seq(Msgs)
    BY <1>9, <1>0, <2>1 DEF StoreTail, TypeOK
  <2>3. TypeOK'
    BY <1>9, <1>0, <2>1, <2>2 DEF StoreTail, TypeOK
  <2>4. ProducerInv'
    <3>1. \A i \in Slots : Increment(i) = Increment(tail) => i = tail
      BY <2>1, IncrementWraps, CapacityAssumption DEF Slots
    <3> QED BY <1>9, <2>1, <3>1 DEF StoreTail, IndInv, ProducerInv
  <2>5. ConsumerInv'
    BY <1>9 DEF StoreTail, IndInv, ConsumerInv
  <2>6. (\A i \in Slots : Live(i) => buffer[i] \in Msgs)'
    <3>1. tail' = Increment(tail) /\ head' = head /\ tail # head
      BY <1>9, <2>1 DEF StoreTail
    <3>2. tail' = IF tail + 1 = Capacity THEN 0 ELSE tail + 1
      BY <2>1, <3>1, IncrementWraps
    <3>3. \A i \in Slots : Live(i)' => Live(i)
      BY <2>1, <3>1, <3>2, CapacityAssumption DEF Live, Slots
    <3> QED BY <1>9, <3>3 DEF StoreTail, IndInv
  <2>7. LoadNotOverstated' /\ DropNotSilent'
    BY <1>9, <1>0 DEF StoreTail, IndInv, TypeOK, LoadNotOverstated, DropNotSilent
  <2> QED BY <2>3, <2>4, <2>5, <2>6, <2>7 DEF IndInv
<1>10. CASE ReadLoad
  <2>1. csize' = SizeOf(head, tail) /\ SizeOf(head, tail) \in 0 .. Capacity - 1
    BY <1>10, <1>0, SizeInRange DEF ReadLoad, TypeOK
  <2>2. TypeOK'
    BY <1>10, <1>0, <2>1 DEF ReadLoad, TypeOK
  <2>3. LoadNotOverstated'
    BY <1>10, <2>1 DEF ReadLoad, LoadNotOverstated
  <2>4. /\ ProducerInv' /\ ConsumerInv' /\ DropNotSilent'
        /\ (\A i \in Slots : Live(i) => buffer[i] \in Msgs)'
    BY <1>10 DEF ReadLoad, IndInv, ProducerInv, ConsumerInv, DropNotSilent, Live
  <2> QED BY <2>2, <2>3, <2>4 DEF IndInv
<1> QED
  BY <1>1, <1>2, <1>3, <1>4, <1>5, <1>6, <1>7, <1>8, <1>9, <1>10 DEF PopStep, ReportStep

LEMMA StutterKeeps == IndInv /\ UNCHANGED vars => IndInv'
BY DEF vars, queueVars, producerVars, consumerVars, historyVars, IndInv, TypeOK,
   ProducerInv, ConsumerInv, Live, LoadNotOverstated, DropNotSilent

LEMMA NextKeeps == IndInv /\ [Next]_vars => IndInv'
BY ProducerKeeps, ConsumerKeeps, StutterKeeps DEF Next
-----------------------------------------------------------------------------
\* The inductive invariant holds in every state the queue and its clients reach.
THEOREM Inductive == Spec => []IndInv
BY InitInd, NextKeeps, PTL DEF Spec

\* Every index stays in the ring and everything delivered is a whole message.
THEOREM TypeCorrect == Spec => []TypeOK
<1>1. IndInv => TypeOK
  BY DEF IndInv
<1> QED BY <1>1, Inductive, PTL

\* The producer never fills the slot the consumer is copying from.
THEOREM SlotsDisjoint == Spec => []NoOverlap
<1>1. IndInv => NoOverlap
  BY DEF IndInv, ProducerInv, ConsumerInv, NoOverlap
<1> QED BY <1>1, Inductive, PTL

\* The message printNext pops is the one whose timestamp it compared.
THEOREM PopsWhatItCompared == Spec => []PeekedIsPopped
<1>1. IndInv => PeekedIsPopped
  BY DEF IndInv, ConsumerInv, PeekedIsPopped
<1> QED BY <1>1, Inductive, PTL

\* At most one task is inside push().
THEOREM PushExclusive == Spec => []OneProducerInside
BY OneInside, Inductive, PTL

\* A printed load is never above the real one.
THEOREM LoadSound == Spec => []LoadNotOverstated
<1>1. IndInv => LoadNotOverstated
  BY DEF IndInv
<1> QED BY <1>1, Inductive, PTL

\* Drops never go unnoticed.
THEOREM DropsNoticed == Spec => []DropNotSilent
<1>1. IndInv => DropNotSilent
  BY DEF IndInv
<1> QED BY <1>1, Inductive, PTL
-----------------------------------------------------------------------------
\* The slots Contents reads are those between tail_ and head_, in ring order.
LEMMA SlotsOfContents ==
  ASSUME TypeOK, NEW i \in 1 .. SizeOf(head, tail)
  PROVE  SlotOf(i) \in Slots /\ Live(SlotOf(i))
BY CapacityAssumption DEF TypeOK, Slots, SizeOf, SlotOf, Live

\* Contents is a sequence of messages as long as size() says.
LEMMA ContentsSeq ==
  IndInv => Contents \in Seq(Msgs) /\ Len(Contents) = SizeOf(head, tail)
<1> SUFFICES ASSUME IndInv PROVE Contents \in Seq(Msgs) /\ Len(Contents) = SizeOf(head, tail)
  OBVIOUS
<1>1. SizeOf(head, tail) \in Nat
  BY SizeInRange, CapacityAssumption DEF IndInv, TypeOK
<1>2. \A i \in 1 .. SizeOf(head, tail) : buffer[SlotOf(i)] \in Msgs
  BY SlotsOfContents DEF IndInv
<1>3. Contents \in [1 .. SizeOf(head, tail) -> Msgs]
  BY <1>2 DEF Contents
<1> QED BY <1>1, <1>3

\* The queue starts empty.
LEMMA FifoInit == Init => F!Init
BY CapacityAssumption DEF Init, F!Init, Contents, SizeOf

\* Filling a slot that is not yet published changes nothing for the consumer.
LEMMA FillIsInvisible ==
  ASSUME IndInv, UNCHANGED <<head, tail>>,
         NEW v, buffer' = [buffer EXCEPT ![head] = v]
  PROVE  Contents' = Contents
<1>1. \A i \in 1 .. SizeOf(head, tail) : SlotOf(i) # head /\ SlotOf(i) \in Slots
  BY SlotsOfContents, CapacityAssumption DEF IndInv, TypeOK, Live, Slots
<1>2. \A i \in 1 .. SizeOf(head, tail) : buffer'[SlotOf(i)] = buffer[SlotOf(i)]
  BY <1>1 DEF IndInv, TypeOK
<1> QED BY <1>2 DEF Contents, SlotOf

\* Storing head_ is the moment of the push.
LEMMA StoreHeadIsPush ==
  ASSUME IndInv, NEW p \in Producers, StoreHead(p)
  PROVE  \E m \in Msgs : F!Push(m)
<1>1. /\ TypeOK /\ head \in Slots /\ tail \in Slots /\ Increment(head) # tail
      /\ head' = Increment(head) /\ tail' = tail /\ buffer' = buffer
      /\ buffer[head] \in Msgs /\ UNCHANGED <<delivered, rejected>>
  BY DEF StoreHead, PStep, IndInv, TypeOK, ProducerInv, historyVars
<1>2. Len(Contents) = SizeOf(head, tail) /\ Contents \in Seq(Msgs)
  BY ContentsSeq
<1>3. /\ SizeOf(head', tail') = SizeOf(head, tail) + 1
      /\ SizeOf(head, tail) \in 0 .. Capacity - 1 /\ SizeOf(head', tail') \in 0 .. Capacity - 1
  BY <1>1, SizeSteps, SizeInRange, IncrementWraps
<1>4. SlotOf(SizeOf(head, tail) + 1) = head
  BY <1>1, CapacityAssumption DEF SlotOf, SizeOf, Slots
<1>5. Contents' = [i \in 1 .. SizeOf(head, tail) + 1 |-> buffer[SlotOf(i)]]
  BY <1>1, <1>3 DEF Contents, SlotOf
<1>6. Contents' = Append(Contents, buffer[head])
  BY <1>2, <1>3, <1>4, <1>5 DEF Contents
<1>7. Len(Contents) < Capacity - 1
  BY <1>2, <1>3, CapacityAssumption
<1> QED BY <1>1, <1>6, <1>7 DEF F!Push

\* Storing tail_ is the moment of the pop.
LEMMA StoreTailIsPop ==
  ASSUME IndInv, StoreTail
  PROVE  F!Pop
<1>1. /\ TypeOK /\ head \in Slots /\ tail \in Slots /\ head # tail
      /\ tail' = Increment(tail) /\ head' = head /\ buffer' = buffer
      /\ delivered' = Append(delivered, buffer[tail]) /\ rejected' = rejected
  BY DEF StoreTail, CStep, IndInv, TypeOK, ConsumerInv
<1>2. Len(Contents) = SizeOf(head, tail) /\ Contents \in Seq(Msgs)
  BY ContentsSeq
<1>3. /\ SizeOf(head', tail') = SizeOf(head, tail) - 1
      /\ SizeOf(head, tail) \in 1 .. Capacity - 1
  BY <1>1, SizeSteps, SizeInRange, CapacityAssumption
<1>4. \A i \in 1 .. SizeOf(head, tail) - 1 : SlotOf(i)' = SlotOf(i + 1)
  <2> TAKE i \in 1 .. SizeOf(head, tail) - 1
  <2>1. tail' = (IF tail + 1 = Capacity THEN 0 ELSE tail + 1) /\ i <= Capacity - 2
    BY <1>1, <1>3, IncrementWraps, CapacityAssumption
  <2> HIDE DEF SizeOf
  <2> QED BY <1>1, <1>3, <2>1, CapacityAssumption DEF SlotOf, Slots
<1>5. Contents' = [i \in 1 .. SizeOf(head, tail) - 1 |-> buffer[SlotOf(i + 1)]]
  <2>1. Contents' = [i \in 1 .. SizeOf(head', tail') |-> buffer'[SlotOf(i)']]
    BY DEF Contents
  <2> QED BY <1>1, <1>3, <1>4, <2>1
<1>6. \A i \in 1 .. SizeOf(head, tail) - 1 : Contents[i + 1] = buffer[SlotOf(i + 1)]
  BY <1>3 DEF Contents
<1>7. Contents' = Tail(Contents)
  <2>1. /\ Tail(Contents) \in Seq(Msgs) /\ Len(Tail(Contents)) = SizeOf(head, tail) - 1
        /\ \A i \in 1 .. SizeOf(head, tail) - 1 : Tail(Contents)[i] = Contents[i + 1]
    BY <1>2, <1>3, HeadTailProperties
  <2>2. Tail(Contents) = [i \in 1 .. SizeOf(head, tail) - 1 |-> Tail(Contents)[i]]
    BY <2>1, LenProperties
  <2> QED BY <1>5, <1>6, <2>1, <2>2
<1>8. SlotOf(1) = tail /\ Contents[1] = buffer[tail]
  BY <1>1, <1>3, CapacityAssumption DEF Contents, SlotOf, Slots
<1>9. Contents # << >> /\ Head(Contents) = buffer[tail]
  BY <1>2, <1>3, <1>8
<1> QED BY <1>1, <1>7, <1>9 DEF F!Pop

\* A drop happens only while Capacity - 1 messages are queued.
LEMMA FindFullIsReject ==
  ASSUME IndInv, NEW p \in Producers, FindFull(p)
  PROVE  F!Reject
<1>1. /\ TypeOK /\ head \in Slots /\ tail \in Slots /\ Increment(head) = tail
      /\ UNCHANGED <<head, tail, buffer, delivered>> /\ rejected' = rejected + 1
  BY DEF FindFull, PStep, NextIsTail, IndInv, TypeOK, ProducerInv, queueVars
<1>2. Len(Contents) = Capacity - 1
  BY <1>1, ContentsSeq, SizeSteps
<1>3. Contents' = Contents
  BY <1>1 DEF Contents, SlotOf
<1> QED BY <1>1, <1>2, <1>3 DEF F!Reject

\* Every step of the detailed queue is a step of the FIFO or leaves it alone.
LEMMA FifoStep == IndInv /\ [Next]_vars => [F!Next]_F!fifoVars
<1> SUFFICES ASSUME IndInv, [Next]_vars PROVE [F!Next]_F!fifoVars
  OBVIOUS
<1>1. ASSUME UNCHANGED <<buffer, head, tail, delivered, rejected>>
      PROVE  UNCHANGED F!fifoVars
  BY <1>1 DEF F!fifoVars, Contents, SlotOf
<1>2. ASSUME NEW p \in Producers, NEW m \in Msgs, Enter(p, m) PROVE UNCHANGED F!fifoVars
  BY <1>1, <1>2 DEF Enter
<1>3. ASSUME NEW p \in Producers, PushStep(p) PROVE [F!Next]_F!fifoVars
  <2>1. CASE LoadHead(p) \/ FindRoom(p) \/ LoadCount(p) \/ StoreCount(p) \/ Return(p)
    BY <2>1, <1>1 DEF LoadHead, FindRoom, LoadCount, StoreCount, Return, queueVars, historyVars
  <2>2. CASE FindFull(p)
    BY <2>2, FindFullIsReject DEF F!Next
  <2>3. CASE BeginWrite(p) \/ EndWrite(p)
    <3>1. UNCHANGED <<head, tail, delivered, rejected>> /\ phead[p] = head
      BY <2>3 DEF BeginWrite, EndWrite, PStep, IndInv, ProducerInv, historyVars
    <3>2. Contents' = Contents
      BY <2>3, <3>1, FillIsInvisible DEF BeginWrite, EndWrite
    <3> QED BY <3>1, <3>2 DEF F!fifoVars
  <2>4. CASE StoreHead(p)
    BY <2>4, StoreHeadIsPush DEF F!Next
  <2> QED BY <1>3, <2>1, <2>2, <2>3, <2>4 DEF PushStep
<1>4. CASE SeeMessage \/ PeekFront \/ PrintElsewhere \/ CheckEmpty \/ BeginRead \/ EndRead
  BY <1>4, <1>1 DEF SeeMessage, PeekFront, PrintElsewhere, CheckEmpty, BeginRead, EndRead,
     queueVars, historyVars
<1>5. CASE StoreTail
  BY <1>5, StoreTailIsPop DEF F!Next
<1>6. CASE ReportStep
  BY <1>6, <1>1 DEF ReportStep, ReadLoad, ReadDropped, ResetDropped, queueVars, historyVars
<1>7. CASE UNCHANGED vars
  BY <1>7, <1>1 DEF vars, queueVars, historyVars
<1> QED BY <1>2, <1>3, <1>4, <1>5, <1>6, <1>7 DEF Next, PopStep

\* The lock-free ring is the bounded FIFO its clients are promised.
THEOREM Refinement == Spec => Fifo
<1>1. Spec => F!Spec
  BY FifoInit, FifoStep, Inductive, PTL DEF Spec, F!Spec
<1> QED BY <1>1 DEF Fifo
=============================================================================
