----------------------------- MODULE SpscQueue -----------------------------
(***************************************************************************)
(* typ::SpscQueue (lib/Types/include/Types/SpscQueue.tpp), one atomic      *)
(* access per step, together with the two callers it has in the firmware:  *)
(*                                                                         *)
(*  - the producers, which reach push() through dbg::Logger::log.  A queue *)
(*    whose Logger has global_lock = true (glob::sharedQueue) has several  *)
(*    producers that hold glob::sharedQueueMutex around push(); every      *)
(*    other queue has one producer and no lock;                            *)
(*  - the consumer, dbg::Serializer::printNext, which looks at the front   *)
(*    message, pops it, prints it, and then reads the load and the drop    *)
(*    counter of the queue (debugQueueLoads).                              *)
(*                                                                         *)
(* A message is larger than a machine word, so copying it into or out of a *)
(* slot takes two steps; a slot whose copy is under way holds Torn.        *)
(* num_dropped_messages_ is a plain size_t that both sides write: its      *)
(* increment is a load and a store.                                        *)
(***************************************************************************)
EXTENDS Naturals, Sequences

CONSTANTS Capacity,    \* slots of buffer_, one of which is never used
          Msgs,        \* the messages
          Producers,   \* the tasks that log into this queue
          GlobalLock,  \* Logger's template parameter global_lock
          Torn,        \* content of a slot that is being written
          NoOne,       \* the mutex is free
          MaxCalls     \* bound: how many log calls are made

\* The documented precondition on Capacity (SpscQueue.hpp:28).
ASSUME CapacityAssumption ==
  /\ Capacity \in Nat
  /\ Capacity > 1
  /\ \E k \in 1..30 : Capacity = 2^k

\* Only a queue whose Logger takes the lock has more than one producer.
ASSUME ProducersAssumption ==
  /\ Producers # {}
  /\ GlobalLock \in BOOLEAN
  /\ ~GlobalLock => \A p, r \in Producers : p = r

ASSUME ValuesAssumption ==
  /\ Torn \notin Msgs
  /\ NoOne \notin Producers
  /\ MaxCalls \in Nat

VARIABLES
  buffer, head, tail, num_dropped,  \* the queue object
  owner,                            \* who holds sharedQueueMutex
  ppc, phead, pval, pcount,         \* producers: step, local head, value, counter
  cpc, ctail, front, out,           \* consumer: step, local tail, peeked, popped
  csize, cdropped,                  \* consumer: size() and dropped it has read
  calls, delivered, rejected, reported  \* history

queueVars == <<buffer, head, tail, num_dropped, owner>>
producerVars == <<ppc, phead, pval, pcount>>
consumerVars == <<cpc, ctail, front, out, csize, cdropped>>
historyVars == <<calls, delivered, rejected, reported>>
vars == <<queueVars, producerVars, consumerVars, historyVars>>

Slots == 0 .. Capacity - 1

\* Mutated: the index does not wrap around.
IncrementNoWrap(index) == index + 1

\* (index + 1) & (Capacity - 1): for a power of two the mask is a modulus
\* (module RingIndex compares the two).
Increment(index) == (index + 1) % Capacity

\* SpscQueue::size, from the two indices it loads.
SizeOf(h, t) == IF h >= t THEN h - t ELSE Capacity - t + h
-----------------------------------------------------------------------------
Init ==
  /\ buffer = [i \in Slots |-> Torn]
  /\ head = 0 /\ tail = 0
  /\ num_dropped = 0
  /\ owner = NoOne
  /\ ppc = [p \in Producers |-> "idle"]
  /\ phead = [p \in Producers |-> 0]
  /\ pval = [p \in Producers |-> Torn]
  /\ pcount = [p \in Producers |-> 0]
  /\ cpc = "scan" /\ ctail = 0 /\ front = Torn /\ out = Torn
  /\ csize = 0 /\ cdropped = 0
  /\ calls = 0 /\ delivered = << >> /\ rejected = 0 /\ reported = 0
-----------------------------------------------------------------------------
(* The producer: Logger::log around push(). *)

PStep(p, from, to) == ppc[p] = from /\ ppc' = [ppc EXCEPT ![p] = to]

\* Mutated: global_lock is ignored.
MayPushUnlocked == TRUE

\* lock_guard waits for the mutex, if constexpr (global_lock).
MayPush == GlobalLock => owner = NoOne

\* log(): take the mutex when the logger has one, then call push(m).
Enter(p, m) ==
  /\ calls < MaxCalls
  /\ MayPush
  /\ PStep(p, "idle", "load")
  /\ owner' = IF GlobalLock THEN p ELSE owner
  /\ pval' = [pval EXCEPT ![p] = m]
  /\ calls' = calls + 1
  /\ UNCHANGED <<buffer, head, tail, num_dropped, phead, pcount, consumerVars,
                 delivered, rejected, reported>>

LoadHead(p) ==
  /\ PStep(p, "load", "check")
  /\ phead' = [phead EXCEPT ![p] = head]
  /\ UNCHANGED <<queueVars, pval, pcount, consumerVars, historyVars>>

\* Mutated: the full test forgets that next wraps around.
NextIsTailNoWrap(p) == phead[p] + 1 = tail

\* if (next == tail_.load()).
NextIsTail(p) == Increment(phead[p]) = tail

\* Mutated: a full queue makes push() try again instead of dropping.
FindFullRetries(p) ==
  /\ NextIsTail(p)
  /\ PStep(p, "check", "load")
  /\ UNCHANGED <<queueVars, phead, pval, pcount, consumerVars, historyVars>>

\* next == tail_: the message is lost and the drop counter incremented.
FindFull(p) ==
  /\ NextIsTail(p)
  /\ PStep(p, "check", "countLoad")
  /\ rejected' = rejected + 1
  /\ UNCHANGED <<queueVars, phead, pval, pcount, consumerVars, calls, delivered, reported>>

FindRoom(p) ==
  /\ ~NextIsTail(p)
  /\ PStep(p, "check", "write")
  /\ UNCHANGED <<queueVars, phead, pval, pcount, consumerVars, historyVars>>

LoadCount(p) ==
  /\ PStep(p, "countLoad", "countStore")
  /\ pcount' = [pcount EXCEPT ![p] = num_dropped]
  /\ UNCHANGED <<queueVars, phead, pval, consumerVars, historyVars>>

StoreCount(p) ==
  /\ PStep(p, "countStore", "return")
  /\ num_dropped' = pcount[p] + 1
  /\ UNCHANGED <<buffer, head, tail, owner, phead, pval, pcount, consumerVars, historyVars>>

\* buffer_[head] = value, in two steps.
BeginWrite(p) ==
  /\ PStep(p, "write", "writing")
  /\ buffer' = [buffer EXCEPT ![phead[p]] = Torn]
  /\ UNCHANGED <<head, tail, num_dropped, owner, phead, pval, pcount, consumerVars, historyVars>>

EndWrite(p) ==
  /\ PStep(p, "writing", "publish")
  /\ buffer' = [buffer EXCEPT ![phead[p]] = pval[p]]
  /\ UNCHANGED <<head, tail, num_dropped, owner, phead, pval, pcount, consumerVars, historyVars>>

StoreHead(p) ==
  /\ PStep(p, "publish", "return")
  /\ head' = Increment(phead[p])
  /\ UNCHANGED <<buffer, tail, num_dropped, owner, phead, pval, pcount, consumerVars, historyVars>>

\* push() has returned; the lock_guard releases the mutex.
Return(p) ==
  /\ PStep(p, "return", "idle")
  /\ owner' = IF GlobalLock THEN NoOne ELSE owner
  /\ UNCHANGED <<buffer, head, tail, num_dropped, phead, pval, pcount, consumerVars, historyVars>>

PushStep(p) ==
  \/ LoadHead(p) \/ FindFull(p) \/ FindRoom(p)
  \/ LoadCount(p) \/ StoreCount(p)
  \/ BeginWrite(p) \/ EndWrite(p) \/ StoreHead(p)
  \/ Return(p)
-----------------------------------------------------------------------------
(* The consumer: Serializer::printNext.  tail_ is written by the consumer  *)
(* only, so its own loads of tail_ are folded into the access of the other *)
(* side's data they go with.                                               *)

CStep(from, to) == cpc = from /\ cpc' = to

\* Mutated: empty() is taken for false.
EmptyNever == FALSE

\* Mutated: empty() holds when one message is left.
EmptyAtOne == head = tail \/ head = Increment(tail)

\* SpscQueue::empty.
Empty == head = tail

\* getQueueWithOldestMessage: !empty(), so this queue takes part.
SeeMessage ==
  /\ ~Empty
  /\ CStep("scan", "peek")
  /\ UNCHANGED <<queueVars, producerVars, ctail, front, out, csize, cdropped, historyVars>>

\* peakFront(): the timestamp the queues are compared by is read.
PeekFront ==
  /\ cpc = "peek"
  /\ cpc' \in {"pop", "loads"}    \* this queue is the oldest, or another one is
  /\ front' = buffer[tail]
  /\ UNCHANGED <<queueVars, producerVars, ctail, out, csize, cdropped, historyVars>>

\* Nothing here, but another queue had a message: only the loads are read.
PrintElsewhere ==
  /\ Empty
  /\ CStep("scan", "loads")
  /\ UNCHANGED <<queueVars, producerVars, ctail, front, out, csize, cdropped, historyVars>>

\* pop(): tail == head_ would end it with nothing popped.
CheckEmpty ==
  /\ CStep("pop", IF Empty THEN "loads" ELSE "read")
  /\ ctail' = tail
  /\ UNCHANGED <<queueVars, producerVars, front, out, csize, cdropped, historyVars>>

BeginRead ==
  /\ CStep("read", "reading")
  /\ out' = buffer[ctail]
  /\ UNCHANGED <<queueVars, producerVars, ctail, front, csize, cdropped, historyVars>>

\* The copy is whole only if the slot did not change under it.
EndRead ==
  /\ CStep("reading", "advance")
  /\ out' = IF buffer[ctail] = out THEN out ELSE Torn
  /\ UNCHANGED <<queueVars, producerVars, ctail, front, csize, cdropped, historyVars>>

\* tail_.store; pop returns true and the message is printed.
StoreTail ==
  /\ CStep("advance", "loads")
  /\ tail' = Increment(ctail)
  /\ delivered' = Append(delivered, out)
  /\ UNCHANGED <<buffer, head, num_dropped, owner, producerVars, ctail, front, out,
                 csize, cdropped, calls, rejected, reported>>

\* debugQueueLoads: size().
ReadLoad ==
  /\ CStep("loads", "drops")
  /\ csize' = SizeOf(head, tail)
  /\ UNCHANGED <<queueVars, producerVars, ctail, front, out, cdropped, historyVars>>

\* Mutated: the counter is reset even when nothing was dropped.
DropsSeenAlways == TRUE

\* if (dropped > 0).
DropsSeen == num_dropped > 0

\* debugQueueLoads: getNumDroppedMessages(), printed if it is not zero.
ReadDropped ==
  /\ cpc = "drops"
  /\ cpc' = IF DropsSeen THEN "reset" ELSE "scan"
  /\ cdropped' = num_dropped
  /\ reported' = reported + num_dropped
  /\ UNCHANGED <<queueVars, producerVars, ctail, front, out, csize, calls, delivered, rejected>>

\* debugQueueLoads: resetNumDroppedMessages().
ResetDropped ==
  /\ CStep("reset", "scan")
  /\ num_dropped' = 0
  /\ UNCHANGED <<buffer, head, tail, owner, producerVars, ctail, front, out, csize,
                 cdropped, historyVars>>

PopStep == CheckEmpty \/ BeginRead \/ EndRead \/ StoreTail
ReportStep == ReadLoad \/ ReadDropped \/ ResetDropped
-----------------------------------------------------------------------------
Next ==
  \/ \E p \in Producers : \/ \E m \in Msgs : Enter(p, m)
                          \/ PushStep(p)
  \/ SeeMessage \/ PeekFront \/ PrintElsewhere
  \/ PopStep
  \/ ReportStep

Spec == Init /\ [][Next]_vars

(***************************************************************************)
(* The scheduler runs every producer that is inside push() (it never       *)
(* blocks there) and the printer task, which has priority 1 but sleeps     *)
(* only for a bounded time.  The printer takes this queue whenever its     *)
(* front message is the oldest one: timestamps grow, so the other queues   *)
(* hold finitely many older messages and the choice falls on this queue    *)
(* again and again (strong fairness on that choice).                       *)
(***************************************************************************)
ProducerFairness == \A p \in Producers : WF_vars(PushStep(p))

ConsumerFairness ==
  /\ SF_vars(SeeMessage)
  /\ SF_vars(PeekFront /\ cpc' = "pop")
  /\ WF_vars(PeekFront) /\ WF_vars(PopStep) /\ WF_vars(ReportStep)

\* The printer task may stop for ever at any point.
ProducerFairSpec == Spec /\ ProducerFairness
-----------------------------------------------------------------------------
TypeOK ==
  /\ buffer \in [Slots -> Msgs \cup {Torn}]
  /\ head \in Slots /\ tail \in Slots
  /\ num_dropped \in Nat
  /\ owner \in Producers \cup {NoOne}
  /\ ppc \in [Producers -> {"idle", "load", "check", "countLoad", "countStore",
                            "write", "writing", "publish", "return"}]
  /\ phead \in [Producers -> Slots]
  /\ pval \in [Producers -> Msgs \cup {Torn}]
  /\ pcount \in [Producers -> Nat]
  /\ cpc \in {"scan", "peek", "pop", "read", "reading", "advance", "loads",
              "drops", "reset"}
  /\ ctail \in Slots
  /\ front \in Msgs \cup {Torn} /\ out \in Msgs \cup {Torn}
  /\ csize \in 0 .. Capacity - 1
  /\ cdropped \in Nat
  /\ calls \in Nat /\ delivered \in Seq(Msgs) /\ rejected \in Nat /\ reported \in Nat

\* The reserved slot does its job: a producer that is filling a slot and a
\* consumer that is copying one out never touch the same slot (a data race on
\* buffer_ would be undefined behaviour).
NoOverlap ==
  \A p \in Producers :
    ppc[p] \in {"write", "writing"} /\ cpc \in {"read", "reading"} => phead[p] # ctail

\* getQueueWithOldestMessage compares the timestamp of peakFront() and printNext
\* pops later, while producers keep pushing: the message that is popped and
\* printed is still the one that was compared.
PeekedIsPopped == cpc = "advance" => out = front

\* While a slot is being filled nobody else is inside push(): the single
\* producer of the "single producer" queue is enforced by the mutex.
OneProducerInside ==
  \A p, r \in Producers : ppc[p] # "idle" /\ ppc[r] # "idle" => p = r

\* The load debugQueueLoads prints is never more than what is really queued
\* when it is printed, whatever the producers do after size() read the indices.
LoadNotOverstated == cpc = "drops" => csize <= SizeOf(head, tail)

\* Although the drop counter is written by both sides without a lock, a queue
\* that has lost messages never looks as if it had lost none: the counter or an
\* earlier report says so, once the producers are out of `++`.
DropNotSilent ==
  rejected > 0 /\ (\A p \in Producers : ppc[p] \notin {"countLoad", "countStore"})
    => num_dropped + reported > 0

\* Why all of the above hold, as one inductive invariant.  Who is inside push()
\* holds the mutex, has the current head_, and once past the full test finds a
\* free slot; what the consumer has seen stays in its slot; every slot between
\* tail_ and head_ holds a whole message.
Live(i) == IF tail <= head THEN tail <= i /\ i < head ELSE tail <= i \/ i < head

ProducerInv ==
  \A p \in Producers :
    /\ ppc[p] # "idle" => pval[p] \in Msgs /\ (GlobalLock => owner = p)
    /\ ppc[p] \in {"check", "countLoad", "countStore", "write", "writing", "publish"}
         => phead[p] = head
    /\ ppc[p] \in {"write", "writing", "publish"} => Increment(head) # tail
    /\ ppc[p] = "publish" => buffer[head] = pval[p]

ConsumerInv ==
  /\ cpc \in {"peek", "pop", "read", "reading", "advance"} => head # tail
  /\ cpc \in {"read", "reading", "advance"} => ctail = tail
  /\ cpc \in {"pop", "read", "reading", "advance"} => front = buffer[tail]
  /\ cpc \in {"reading", "advance"} => out = buffer[tail]
  /\ cpc = "reset" => reported > 0

IndInv ==
  /\ TypeOK
  /\ ProducerInv
  /\ ConsumerInv
  /\ \A i \in Slots : Live(i) => buffer[i] \in Msgs
  /\ LoadNotOverstated
  /\ DropNotSilent

\* The queued messages, oldest first.
SlotOf(i) == IF tail + i - 1 < Capacity THEN tail + i - 1 ELSE tail + i - 1 - Capacity
Contents == [i \in 1 .. SizeOf(head, tail) |-> buffer[SlotOf(i)]]

\* The queue with its two clients is the bounded FIFO: no message is lost,
\* duplicated, torn or reordered between push and pop, and a push is refused
\* only when Capacity - 1 messages are queued.
F == INSTANCE BoundedFifo WITH N <- Capacity - 1, q <- Contents
Fifo == F!Spec

\* push() never waits for the consumer: a call that has begun ends.
PushReturns == \A p \in Producers : ppc[p] # "idle" ~> ppc[p] = "idle"

\* What has been published is printed in the end, if the printer goes on.
PublishedIsDelivered ==
  ConsumerFairness =>
    \A n \in 1 .. MaxCalls :
      Len(delivered) + SizeOf(head, tail) >= n ~> Len(delivered) >= n
=============================================================================
