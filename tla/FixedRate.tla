----------------------------- MODULE FixedRate -----------------------------
(***************************************************************************)
(* task::Task::sleepFixedRate and startCycleTime (Task.cpp:107-130), as    *)
(* ledBlinkTask uses them: a task that works, sleeps until its cycle is    *)
(* over, and chooses another period for every round.  Tick counts wrap     *)
(* around like TickType_t; `now` and `begun` are the time itself.          *)
(*                                                                         *)
(* The task may be preempted for some ticks between any two steps, and so  *)
(* between the two reads of the tick count and the call of                 *)
(* vTaskDelayUntil, which is external and atomic.  It has the highest      *)
(* priority on the only core (TaskPriority.hpp:44), and setup() of the     *)
(* Arduino loop task creates it (main.cpp:27): createTask is preempted in  *)
(* xTaskCreatePinnedToCore, and its last line, startCycleTime, is carried  *)
(* out whenever the task that already runs is blocked.                     *)
(***************************************************************************)
EXTENDS Naturals

CONSTANTS
  TickRange,     \* the tick count is kept modulo this, 2^32 on the device
  Periods,       \* the periods the task asks for, in ticks
  Margin,        \* pdMS_TO_TICKS(1): 1, or 0 if a tick is longer than that
  MaxTime,       \* bound: ticks
  MaxRound       \* bound: ticks from the reading a round is counted from to its end

\* As FreeRTOS demands of vTaskDelayUntil, a reading is less old than the tick count
\* can tell.
ASSUME RateAssumption ==
  /\ TickRange \in Nat \ {0} /\ MaxTime \in Nat /\ MaxRound \in Nat
  /\ Margin \in {0, 1}
  /\ Periods \subseteq Nat \ {0}
  /\ \A p \in Periods : p + MaxRound < TickRange

VARIABLES
  now,
  pc,
  creator, readAt,    \* createTask in the task's creator, and when it has read the
                      \* tick count it is about to store
  cycle_start_tick,
  period, until,      \* arguments of the sleep
  stopRequested,
  begun               \* history: what the round is counted from: when it was due to
                      \* begin, or when createTask read the tick count

vars == <<now, pc, creator, readAt, cycle_start_tick, period, until, stopRequested,
          begun>>

\* Mutated: the difference does not wrap.
MinusNoWrap(a, b) == a + TickRange - b

\* TickType_t arithmetic.
Tick(t) == t % TickRange
Minus(a, b) == (a + TickRange - b) % TickRange
-----------------------------------------------------------------------------
Init ==
  /\ now = 0
  /\ pc = "prologue"
  /\ creator = "createTask" /\ readAt = 0
  /\ cycle_start_tick = 0
  /\ period = 0 /\ until = 0
  /\ stopRequested = FALSE
  /\ begun = 0

\* The tick interrupt.
TimePasses ==
  /\ now < MaxTime /\ now < begun + MaxRound
  /\ creator = "store" => now < readAt + MaxRound
  /\ now' = now + 1
  /\ UNCHANGED <<pc, creator, readAt, cycle_start_tick, period, until, stopRequested,
                 begun>>

\* startCycleTime at the head of the task function.
StartCycleTime ==
  /\ pc = "prologue"
  /\ pc' = "work"
  /\ cycle_start_tick' = Tick(now)
  /\ begun' = now
  /\ UNCHANGED <<now, creator, readAt, period, until, stopRequested>>

\* The creator has the core only while the task waits: in a round for the WiFi driver
\* (setWifiOn) or the button (delay(50)), in its sleep, and after its end.  While it
\* waits for the mutex of a log queue, the mutex's owner has the core.
Blocked == pc \in {"work", "ended"} \/ (pc = "asleep" /\ now < until)

\* startCycleTime at the end of createTask: xTaskGetTickCount() is read ...
CreatorReads ==
  /\ creator = "createTask" /\ Blocked
  /\ creator' = "store" /\ readAt' = now
  /\ UNCHANGED <<now, pc, cycle_start_tick, period, until, stopRequested, begun>>

\* ... and stored, over what the task has there by then.
CreatorStores ==
  /\ creator = "store" /\ Blocked
  /\ creator' = "done" /\ readAt' = 0
  /\ cycle_start_tick' = Tick(readAt)
  /\ begun' = readAt
  /\ UNCHANGED <<now, pc, period, until, stopRequested>>

\* Mutated: the subtraction does not wrap.
ElapsedTimeNoWrap ==
  IF Tick(now) >= cycle_start_tick THEN Tick(now) - cycle_start_tick ELSE 0

\* current_time - cycle_start_tick.
ElapsedTime == Minus(Tick(now), cycle_start_tick)

\* elapsedTime > period - pdMS_TO_TICKS(1).
Exceeds(p) == ElapsedTime > p - Margin

\* sleepFixedRate(p) after a stop: the loop test that follows ends the task.
SleepSkipped ==
  /\ pc = "work" /\ stopRequested
  /\ pc' = "ended"
  /\ UNCHANGED <<now, creator, readAt, cycle_start_tick, period, until, stopRequested,
                 begun>>

\* sleepFixedRate(p): the warning "loop time exceeded target cycle time!" or none.
Measure(p) ==
  /\ pc = "work" /\ ~stopRequested
  /\ period' = p
  /\ pc' = IF Exceeds(p) THEN "late" ELSE "delay"
  /\ UNCHANGED <<now, creator, readAt, cycle_start_tick, until, stopRequested,
                 begun>>

\* Mutated: the period is not taken off, so the sleep that follows is a full one.
RebaseToNow ==
  /\ pc = "late"
  /\ pc' = "delay"
  /\ cycle_start_tick' = Tick(now)
  /\ begun' = now - period
  /\ UNCHANGED <<now, creator, readAt, period, until, stopRequested>>

\* cycle_start_tick = xTaskGetTickCount() - period: the late round is taken to end
\* now, and the next one begins.
Rebase ==
  /\ pc = "late"
  /\ pc' = "delay"
  /\ cycle_start_tick' = Minus(Tick(now), period)
  /\ begun' = now - period
  /\ UNCHANGED <<now, creator, readAt, period, until, stopRequested>>

\* vTaskDelayUntil: whether the time to wake is still to come.
Wake == Tick(cycle_start_tick + period)

ToCome ==
  IF Tick(now) < cycle_start_tick
  THEN Wake < cycle_start_tick /\ Wake > Tick(now)
  ELSE Wake < cycle_start_tick \/ Wake > Tick(now)

DelayUntil ==
  /\ pc = "delay"
  /\ pc' = IF ToCome THEN "asleep" ELSE "work"
  /\ until' = IF ToCome THEN now + Minus(Wake, Tick(now)) ELSE until
  /\ cycle_start_tick' = Wake
  /\ begun' = IF ToCome THEN until' ELSE begun + period
  /\ UNCHANGED <<now, creator, readAt, period, stopRequested>>

WakeUp ==
  /\ pc = "asleep" /\ now >= until
  /\ pc' = "work"
  /\ UNCHANGED <<now, creator, readAt, cycle_start_tick, period, until, stopRequested,
                 begun>>

\* stop().
Stop ==
  /\ ~stopRequested
  /\ stopRequested' = TRUE
  /\ UNCHANGED <<now, pc, creator, readAt, cycle_start_tick, period, until, begun>>

Next ==
  \/ TimePasses \/ StartCycleTime \/ CreatorReads \/ CreatorStores
  \/ SleepSkipped \/ \E p \in Periods : Measure(p)
  \/ Rebase \/ DelayUntil \/ WakeUp \/ Stop

Spec == Init /\ [][Next]_vars
-----------------------------------------------------------------------------
TypeOK ==
  /\ now \in 0 .. MaxTime /\ begun \in Nat /\ until \in Nat /\ readAt \in Nat
  /\ pc \in {"prologue", "work", "late", "delay", "asleep", "ended"}
  /\ creator \in {"createTask", "store", "done"}
  /\ cycle_start_tick \in 0 .. TickRange - 1
  /\ period \in Periods \cup {0}
  /\ stopRequested \in BOOLEAN

\* A sleep ends exactly one period after the time its round is counted from, and none
\* is left out before that time, whatever the task was delayed by, wherever the tick
\* count wraps and wherever createTask's startCycleTime comes in between: that moves
\* the round it meets to createTask's reading, and no other.
OnSchedule ==
  [][pc = "delay" /\ pc' # "delay" =>
       IF pc' = "asleep" THEN until' = begun + period ELSE begun + period <= now]_vars

\* The warning is logged exactly when the round, counted from there, is over its
\* period.
WarnedIfLate ==
  [][pc = "work" /\ pc' \in {"late", "delay"} =>
       (pc' = "late" <=> now - begun > period' - Margin)]_vars

\* Task.hpp:124-126 startCycleTime "should be done in the task functions at its start
\* as well", or "the first loop will have a wrong timeing": with it a round is called
\* too long, and its sleep left out, only if it has been longer than its period since
\* the task woke up for it.
LateOnlyIfLong ==
  [][pc = "work" /\ pc' = "late" => now - until > period' - Margin]_vars

\* Why the first two hold: cycle_start_tick is the time the round is counted from,
\* whoever has written it, and `now` is never further from it than the tick count can
\* tell.
ScheduleInv ==
  /\ pc = "prologue" => creator = "createTask"
  /\ creator = "store" => readAt <= now /\ now <= readAt + MaxRound
  /\ pc \in {"work", "late", "delay", "asleep"} => cycle_start_tick = Tick(begun)
  /\ pc \in {"work", "late", "delay"} => begun <= now
  /\ pc \in {"work", "late", "asleep"} => now <= begun + MaxRound
  /\ pc \in {"late", "delay", "asleep"} => period \in Periods
  /\ pc = "late" => begun + period <= now
  /\ pc = "delay" => now <= begun + MaxRound \/ now <= begun + period
  /\ pc = "asleep" => begun <= until
=============================================================================
