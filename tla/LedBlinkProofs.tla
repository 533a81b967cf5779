--------------------------- MODULE LedBlinkProofs ---------------------------
(***************************************************************************)
(* The LED task keeps its schedule on a tick count that wraps, and lights  *)
(* the LED as its tables say, for every tick range, period and pattern.    *)
(*                                                                         *)
(* The invariant says that cycle_start_tick is the time the round is       *)
(* counted from, as the tick count has it, whether the task has written it *)
(* or createTask, and that the task is never further from that time than   *)
(* the tick count can tell; of the LED, that ledState is one period ahead  *)
(* of the index.                                                           *)
(***************************************************************************)
EXTENDS LedBlink, Integers, TLAPS

-----------------------------------------------------------------------------
(* Tick counts. *)

\* Quotient and remainder are unique.
LEMMA ModUnique ==
  ASSUME NEW R \in Nat, R > 0, NEW q \in Nat, NEW r \in 0 .. R - 1
  PROVE  (R * q + r) % R = r
BY Z3

\* Tick counts are below the tick range.
LEMMA TickInRange ==
  ASSUME NEW t \in Nat
  PROVE  Tick(t) \in 0 .. TickRange - 1
BY RateAssumption, Z3 DEF Tick

\* What the tick counts of two moments tell of the time between them.
LEMMA ModDiff ==
  ASSUME NEW R \in Nat, R > 0, NEW a \in Nat, NEW b \in Nat, a <= b, b - a < R
  PROVE  /\ a % R \in 0 .. R - 1
         /\ b % R \in 0 .. R - 1
         /\ b % R = (a % R) + (b - a) \/ b % R = (a % R) + (b - a) - R
<1> DEFINE p == a \div R
           q == b \div R
<1>1. p \in Nat /\ q \in Nat /\ a % R \in 0 .. R - 1 /\ b % R \in 0 .. R - 1
  BY Z3
<1>2. a = p * R + (a % R) /\ b = q * R + (b % R)
  BY Z3
<1> HIDE DEF p, q
<1>3. q = p \/ q = p + 1
  BY <1>1, <1>2, Z3
<1> QED
  BY <1>1, <1>2, <1>3, Z3

\* TickType_t subtraction gives the time between two moments, wrapped or not.
LEMMA MinusIsTime ==
  ASSUME NEW a \in Nat, NEW b \in Nat, a <= b, b - a < TickRange, TickRange \in Nat
  PROVE  Minus(Tick(b), Tick(a)) = b - a
<1>1. TickRange > 0
  OBVIOUS
<1>2. /\ a % TickRange \in 0 .. TickRange - 1 /\ b % TickRange \in 0 .. TickRange - 1
      /\ \/ b % TickRange = (a % TickRange) + (b - a)
         \/ b % TickRange = (a % TickRange) + (b - a) - TickRange
  BY <1>1, ModDiff
<1>3. b - a \in 0 .. TickRange - 1
  OBVIOUS
<1>4. CASE b % TickRange = (a % TickRange) + (b - a)
  <2>1. ((b % TickRange) + TickRange) - (a % TickRange) = (TickRange * 1) + (b - a)
    BY <1>2, <1>4
  <2> QED BY <1>1, <1>3, <2>1, ModUnique DEF Minus, Tick
<1>5. CASE b % TickRange = (a % TickRange) + (b - a) - TickRange
  <2>1. ((b % TickRange) + TickRange) - (a % TickRange) = (TickRange * 0) + (b - a)
    BY <1>2, <1>5
  <2> QED BY <1>1, <1>3, <2>1, ModUnique DEF Minus, Tick
<1> QED BY <1>2, <1>4, <1>5

\* Taking a period off a tick count gives the tick count that much earlier.
LEMMA MinusOfPeriod ==
  ASSUME NEW b \in Nat, NEW p \in Nat, p <= b, p < TickRange, TickRange \in Nat
  PROVE  Minus(Tick(b), p) = Tick(b - p)
<1> DEFINE a == b - p
<1>1. TickRange > 0 /\ a \in Nat /\ a <= b /\ b - a = p
  OBVIOUS
<1>2. /\ a % TickRange \in 0 .. TickRange - 1 /\ b % TickRange \in 0 .. TickRange - 1
      /\ \/ b % TickRange = (a % TickRange) + (b - a)
         \/ b % TickRange = (a % TickRange) + (b - a) - TickRange
  BY <1>1, ModDiff
<1> HIDE DEF a
<1>4. CASE b % TickRange = (a % TickRange) + (b - a)
  <2>1. ((b % TickRange) + TickRange) - p = (TickRange * 1) + (a % TickRange)
    BY <1>1, <1>2, <1>4
  <2> QED BY <1>1, <1>2, <2>1, ModUnique DEF Minus, Tick, a
<1>5. CASE b % TickRange = (a % TickRange) + (b - a) - TickRange
  <2>1. ((b % TickRange) + TickRange) - p = (TickRange * 0) + (a % TickRange)
    BY <1>1, <1>2, <1>5
  <2> QED BY <1>1, <1>2, <2>1, ModUnique DEF Minus, Tick, a
<1> QED BY <1>2, <1>4, <1>5

\* Adding a period to a tick count gives the tick count that much later.
LEMMA TickAgain ==
  ASSUME NEW a \in Nat, NEW p \in Nat, p < TickRange, TickRange \in Nat
  PROVE  Tick(Tick(a) + p) = Tick(a + p)
<1> DEFINE b == a + p
<1>1. TickRange > 0 /\ b \in Nat /\ a <= b /\ b - a = p
  OBVIOUS
<1>2. /\ a % TickRange \in 0 .. TickRange - 1 /\ b % TickRange \in 0 .. TickRange - 1
      /\ \/ b % TickRange = (a % TickRange) + (b - a)
         \/ b % TickRange = (a % TickRange) + (b - a) - TickRange
  BY <1>1, ModDiff
<1> HIDE DEF b
<1>4. CASE b % TickRange = (a % TickRange) + (b - a)
  <2>1. (a % TickRange) + p = (TickRange * 0) + (b % TickRange)
    BY <1>1, <1>2, <1>4
  <2> QED BY <1>1, <1>2, <2>1, ModUnique DEF Tick, b
<1>5. CASE b % TickRange = (a % TickRange) + (b - a) - TickRange
  <2>1. (a % TickRange) + p = (TickRange * 1) + (b % TickRange)
    BY <1>1, <1>2, <1>5
  <2> QED BY <1>1, <1>2, <2>1, ModUnique DEF Tick, b
<1> QED BY <1>2, <1>4, <1>5

\* vTaskDelayUntil finds the time to wake still to come exactly if it is.
LEMMA ToComeIsLater ==
  ASSUME IndInv, pc = "delay"
  PROVE  /\ Wake = Tick(begun + period)
         /\ ToCome <=> begun + period > now
         /\ begun + period > now => Minus(Wake, Tick(now)) = (begun + period) - now
<1> DEFINE R == TickRange
           w == begun + period
<1>1. /\ R \in Nat /\ R > 0 /\ now \in Nat /\ begun \in Nat /\ period \in Nat /\ period > 0
      /\ period < R /\ begun <= now /\ now - begun < R /\ cycle_start_tick = begun % R
  BY RateAssumption DEF IndInv, LedTypeOK, TypeOK, ScheduleInv, Tick
<1>2. Wake = Tick(w)
  BY <1>1, TickAgain DEF Wake, Tick
<1>3. /\ begun % R \in 0 .. R - 1 /\ now % R \in 0 .. R - 1
      /\ \/ now % R = (begun % R) + (now - begun)
         \/ now % R = (begun % R) + (now - begun) - R
  BY <1>1, ModDiff
<1>4. /\ w % R \in 0 .. R - 1
      /\ \/ w % R = (begun % R) + period
         \/ w % R = (begun % R) + period - R
  <2>1. w \in Nat /\ begun <= w /\ w - begun = period
    BY <1>1
  <2> HIDE DEF w
  <2> QED BY <1>1, <2>1, ModDiff
<1>5. ToCome <=> w > now
  <2> HIDE DEF R
  <2>1. Wake = w % R /\ Tick(now) = now % R
    BY <1>2 DEF Tick, R
  <2> QED BY <1>1, <1>3, <1>4, <2>1 DEF ToCome
<1>6. ASSUME w > now PROVE Minus(Tick(w), Tick(now)) = w - now
  <2>1. w \in Nat /\ now <= w /\ w - now < R
    BY <1>1, <1>6
  <2> HIDE DEF w
  <2> QED BY <1>1, <2>1, MinusIsTime
<1> QED BY <1>2, <1>5, <1>6
-----------------------------------------------------------------------------
(* The invariant. *)

\* The tables have periods.
LEMMA PeriodsOfPatterns ==
  /\ NUM_PERIODS \in Nat /\ NUM_PERIODS > 0 /\ "HEART_BEAT" \in Patterns
  /\ \A pattern \in Patterns : \A n \in 0 .. NUM_PERIODS - 1 : PeriodOf[pattern][n] \in Periods
<1>1. NUM_PERIODS \in Nat /\ NUM_PERIODS > 0 /\ "HEART_BEAT" \in Patterns
  BY PatternAssumption
<1>2. ASSUME NEW pattern \in Patterns, NEW n \in 0 .. NUM_PERIODS - 1
      PROVE  PeriodOf[pattern][n] \in Periods
  <2>1. OffOn[pattern] \in Periods \X Periods
    BY PatternAssumption, Zenon
  <2>2. OffOn[pattern][1] \in Periods /\ OffOn[pattern][2] \in Periods
    BY <2>1
  <2>3. PeriodOf[pattern][n] \in {OffOn[pattern][1], OffOn[pattern][2]}
    BY DEF PeriodOf
  <2> QED BY <2>2, <2>3, Zenon
<1> QED BY <1>1, <1>2

\* The parity of the index after next is that of the index: NUM_PERIODS is even.
LEMMA IndexParity ==
  ASSUME LedTypeOK
  PROVE  /\ NextIndex \in 0 .. NUM_PERIODS - 1
         /\ \A n \in 0 .. NUM_PERIODS - 1 :
              (IF n + 1 >= NUM_PERIODS THEN 0 ELSE n + 1) % 2 = 0 <=> n % 2 # 0
BY PatternAssumption DEF LedTypeOK, NextIndex

LEMMA InitInd == LedInit => IndInv
<1> SUFFICES ASSUME LedInit PROVE IndInv
  OBVIOUS
<1>0. TypeOK
  <2>1. TickRange \in Nat /\ TickRange > 0 /\ MaxTime \in Nat
    BY RateAssumption
  <2>2. stopRequested \in BOOLEAN /\ creator \in {"createTask", "store", "done"} /\ pc = "prologue"
    BY Zenon DEF LedInit, Init
  <2>3. /\ now \in 0 .. MaxTime /\ begun \in Nat /\ until \in Nat /\ readAt \in Nat /\ period \in Periods \cup {0}
        /\ cycle_start_tick \in 0 .. TickRange - 1
    BY <2>1 DEF LedInit, Init
  <2> QED BY <2>2, <2>3 DEF TypeOK
<1>1. LedTypeOK
  BY <1>0, PeriodsOfPatterns DEF LedInit, LedTypeOK
<1>2. ScheduleInv
  BY RateAssumption DEF LedInit, Init, ScheduleInv
<1>3. NextIndex = 0
  BY PatternAssumption DEF LedInit, NextIndex
<1> QED
  BY <1>1, <1>2, <1>3 DEF LedInit, Init, IndInv, LedInv, LitAsTabled

\* The rounds of the task keep the invariant.
LEMMA RoundKeeps ==
  ASSUME IndInv, RoundStep
  PROVE  IndInv'
<1> USE DEF IndInv
<1>1. CASE WriteLed
  <2>1. NextIndex' = NextIndex
    BY <1>1 DEF WriteLed, NextIndex
  <2>2. LedTypeOK'
    BY <1>1 DEF WriteLed, LedTypeOK, TypeOK, vars
  <2>3. ScheduleInv'
    BY <1>1 DEF WriteLed, ScheduleInv, vars
  <2>4. LedInv' /\ LitAsTabled'
    BY <1>1, <2>1 DEF WriteLed, LedInv, LitAsTabled, LedTypeOK, vars
  <2> QED BY <2>2, <2>3, <2>4
<1>2. ASSUME NEW pattern \in Patterns, HandleWiFi(pattern) PROVE IndInv'
  <2>1. NextIndex' = NextIndex
    BY <1>2 DEF HandleWiFi, NextIndex
  <2>2. LedTypeOK'
    BY <1>2 DEF HandleWiFi, LedTypeOK, TypeOK, vars
  <2>3. ScheduleInv'
    BY <1>2 DEF HandleWiFi, ScheduleInv, vars
  <2>4. LedInv' /\ LitAsTabled'
    BY <1>2, <2>1 DEF HandleWiFi, LedInv, LitAsTabled, vars
  <2> QED BY <2>2, <2>3, <2>4
<1>3. CASE Sleep
  <2> DEFINE p == PeriodOf[current_led_pattern][NextIndex]
  <2>1. NextIndex \in 0 .. NUM_PERIODS - 1 /\ current_led_pattern \in Patterns
    BY IndexParity DEF LedTypeOK
  <2>2. p \in Periods
    BY <2>1, PeriodsOfPatterns, Zenon
  <2>3. p \in Periods /\ p \in Nat /\ p > 0
    <3> HIDE DEF p
    <3> QED BY <2>2, RateAssumption
  <2>4. NextIndex' % 2 = 0 <=> NextIndex % 2 # 0
    BY <1>3, IndexParity DEF Sleep, NextIndex
  <2> HIDE DEF p
  <2>5. LedTypeOK'
    BY <1>3, <2>1, <2>3, PeriodsOfPatterns DEF Sleep, Measure, LedTypeOK, TypeOK, p
  <2>6. ElapsedTime = now - begun
    BY <1>3, MinusIsTime, RateAssumption, <2>3 DEF Sleep, Measure, ElapsedTime, ScheduleInv, LedTypeOK, TypeOK
  <2>7. Exceeds(p) => begun + p <= now
    BY <1>3, <2>3, <2>6, RateAssumption DEF Exceeds, Sleep, Measure, ScheduleInv, LedTypeOK, TypeOK
  <2>8. ScheduleInv'
    BY <1>3, <2>3, <2>7 DEF Sleep, Measure, ScheduleInv, p
  <2>9. LedInv' /\ LitAsTabled'
    BY <1>3, <2>4 DEF Sleep, Measure, LedInv, LitAsTabled, LedTypeOK
  <2> QED BY <2>5, <2>8, <2>9
<1>4. CASE SleepNot
  <2>1. NextIndex \in 0 .. NUM_PERIODS - 1
    BY IndexParity
  <2>2. NextIndex' % 2 = 0 <=> NextIndex % 2 # 0
    BY <1>4, IndexParity DEF SleepNot, NextIndex
  <2>3. LedTypeOK'
    BY <1>4, <2>1, PeriodsOfPatterns DEF SleepNot, SleepSkipped, LedTypeOK, TypeOK
  <2>4. ScheduleInv'
    BY <1>4 DEF SleepNot, SleepSkipped, ScheduleInv
  <2>5. LedInv' /\ LitAsTabled'
    BY <1>4, <2>2 DEF SleepNot, SleepSkipped, LedInv, LitAsTabled, LedTypeOK
  <2> QED BY <2>3, <2>4, <2>5
<1>5. CASE EndLoop
  <2>1. NextIndex' = NextIndex
    BY <1>5 DEF EndLoop, NextIndex
  <2>2. LedTypeOK'
    BY <1>5 DEF EndLoop, SleepSkipped, LedTypeOK, TypeOK
  <2>3. ScheduleInv'
    BY <1>5 DEF EndLoop, SleepSkipped, ScheduleInv
  <2>4. LedInv' /\ LitAsTabled'
    BY <1>5, <2>1 DEF EndLoop, SleepSkipped, LedInv, LitAsTabled, LedTypeOK
  <2> QED BY <2>2, <2>3, <2>4
<1> QED BY <1>1, <1>2, <1>3, <1>4, <1>5 DEF RoundStep

\* The clock, the sleep and createTask keep it.
LEMMA ClockKeeps ==
  ASSUME IndInv, ClockStep
  PROVE  IndInv'
<1> USE DEF IndInv
<1>0. NextIndex' = NextIndex /\ UNCHANGED ledVars
  BY DEF ClockStep, ledVars, NextIndex
<1>1. CASE TimePasses
  <2>1. LedTypeOK'
    BY <1>0, <1>1, RateAssumption DEF TimePasses, LedTypeOK, TypeOK, ledVars
  <2>2. ScheduleInv'
    BY <1>1, RateAssumption DEF TimePasses, ScheduleInv, LedTypeOK, TypeOK
  <2>3. LedInv' /\ LitAsTabled'
    BY <1>0, <1>1 DEF TimePasses, LedInv, LitAsTabled, ledVars
  <2> QED BY <2>1, <2>2, <2>3
<1>2. CASE StartCycleTime
  <2>1. Tick(now) \in 0 .. TickRange - 1
    BY TickInRange DEF LedTypeOK, TypeOK
  <2>2. LedTypeOK'
    BY <1>0, <1>2, <2>1 DEF StartCycleTime, LedTypeOK, TypeOK, ledVars
  <2>3. ScheduleInv'
    BY <1>2, RateAssumption DEF StartCycleTime, ScheduleInv, LedTypeOK, TypeOK
  <2>4. LedInv' /\ LitAsTabled'
    BY <1>0, <1>2 DEF StartCycleTime, LedInv, LitAsTabled, ledVars
  <2> QED BY <2>2, <2>3, <2>4
<1>3. CASE CreatorReads
  <2>1. LedTypeOK'
    BY <1>0, <1>3 DEF CreatorReads, LedTypeOK, TypeOK, ledVars
  <2>2. ScheduleInv'
    BY <1>3, RateAssumption DEF CreatorReads, Blocked, ScheduleInv, LedTypeOK, TypeOK
  <2>3. LedInv' /\ LitAsTabled'
    BY <1>0, <1>3 DEF CreatorReads, LedInv, LitAsTabled, ledVars
  <2> QED BY <2>1, <2>2, <2>3
<1>4. CASE CreatorStores
  <2>1. Tick(readAt) \in 0 .. TickRange - 1
    BY TickInRange DEF LedTypeOK, TypeOK
  <2>2. LedTypeOK'
    BY <1>0, <1>4, <2>1 DEF CreatorStores, LedTypeOK, TypeOK, ledVars
  <2>3. ScheduleInv'
    BY <1>4 DEF CreatorStores, Blocked, ScheduleInv, LedTypeOK, TypeOK
  <2>4. LedInv' /\ LitAsTabled'
    BY <1>0, <1>4 DEF CreatorStores, LedInv, LitAsTabled, ledVars
  <2> QED BY <2>2, <2>3, <2>4
<1>5. CASE Rebase
  <2>1. /\ begun \in Nat /\ now \in Nat /\ period \in Nat /\ period \in Periods
        /\ begun + period <= now /\ period < TickRange
    BY <1>5, RateAssumption DEF Rebase, ScheduleInv, LedTypeOK, TypeOK
  <2>2. TickRange \in Nat /\ period <= now /\ now - period \in Nat
    BY <2>1, RateAssumption
  <2>3. Minus(Tick(now), period) = Tick(now - period) /\ Tick(now - period) \in 0 .. TickRange - 1
    BY <2>1, <2>2, MinusOfPeriod, TickInRange
  <2>4. LedTypeOK'
    BY <1>0, <1>5, <2>2, <2>3 DEF Rebase, LedTypeOK, TypeOK, ledVars
  <2>5. ScheduleInv'
    BY <1>5, <2>1, <2>3, RateAssumption DEF Rebase, ScheduleInv
  <2>6. LedInv' /\ LitAsTabled'
    BY <1>0, <1>5 DEF Rebase, LedInv, LitAsTabled, ledVars
  <2> QED BY <2>4, <2>5, <2>6
<1>6. CASE DelayUntil
  <2>1. /\ pc = "delay" /\ begun \in Nat /\ now \in Nat /\ period \in Nat /\ period \in Periods
        /\ begun <= now
    BY <1>6, RateAssumption DEF DelayUntil, ScheduleInv, LedTypeOK, TypeOK
  <2>2. /\ Wake = Tick(begun + period)
        /\ ToCome <=> begun + period > now
        /\ begun + period > now => Minus(Wake, Tick(now)) = (begun + period) - now
    BY <2>1, ToComeIsLater
  <2>3. begun + period \in Nat
    BY <2>1
  <2>4. Tick(begun + period) \in 0 .. TickRange - 1
    BY <2>3, TickInRange
  <2>5. until' \in Nat /\ begun' = begun + period /\ (ToCome => until' = begun')
    BY <1>6, <2>1, <2>2 DEF DelayUntil, LedTypeOK, TypeOK
  <2>6. LedTypeOK'
    BY <1>0, <1>6, <2>2, <2>3, <2>4, <2>5 DEF DelayUntil, LedTypeOK, TypeOK, ledVars
  <2>7. ScheduleInv'
    BY <1>6, <2>1, <2>2, <2>5, RateAssumption DEF DelayUntil, ScheduleInv
  <2>8. LedInv' /\ LitAsTabled'
    BY <1>0, <1>6 DEF DelayUntil, LedInv, LitAsTabled, ledVars
  <2> QED BY <2>6, <2>7, <2>8
<1>7. CASE WakeUp
  <2>1. LedTypeOK'
    BY <1>0, <1>7 DEF WakeUp, LedTypeOK, TypeOK, ledVars
  <2>2. ScheduleInv'
    BY <1>7 DEF WakeUp, ScheduleInv, LedTypeOK, TypeOK
  <2>3. LedInv' /\ LitAsTabled'
    BY <1>0, <1>7 DEF WakeUp, LedInv, LitAsTabled, ledVars
  <2> QED BY <2>1, <2>2, <2>3
<1>8. CASE Stop
  BY <1>0, <1>8 DEF Stop, LedTypeOK, TypeOK, ScheduleInv, LedInv, LitAsTabled, ledVars
<1> QED BY <1>1, <1>2, <1>3, <1>5, <1>6, <1>7, <1>8, <1>4 DEF ClockStep

LEMMA NextKeeps == IndInv /\ [LedNext]_blinkVars => IndInv'
<1> SUFFICES ASSUME IndInv, [LedNext]_blinkVars PROVE IndInv'
  OBVIOUS
<1>1. CASE UNCHANGED blinkVars
  BY <1>1 DEF blinkVars, vars, ledVars, IndInv, LedTypeOK, TypeOK, ScheduleInv, LedInv, LitAsTabled, NextIndex
<1> QED BY <1>1, RoundKeeps, ClockKeeps DEF LedNext

\* The invariant holds in every reachable state.
THEOREM Inductive == LedSpec => []IndInv
BY InitInd, NextKeeps, PTL DEF LedSpec

\* The LED is off in the periods that say so and on in the others.
THEOREM Lit == LedSpec => []LitAsTabled
<1>1. IndInv => LitAsTabled
  BY DEF IndInv
<1> QED BY <1>1, Inductive, PTL

\* A sleep ends a period after the time its round is counted from.
LEMMA StepSleeps ==
  IndInv /\ [LedNext]_blinkVars
    => [pc = "delay" /\ pc' # "delay" =>
          IF pc' = "asleep" THEN until' = begun + period ELSE begun + period <= now]_vars
<1> SUFFICES ASSUME IndInv, LedNext, pc = "delay", pc' # "delay"
             PROVE  IF pc' = "asleep" THEN until' = begun + period ELSE begun + period <= now
  BY DEF blinkVars, vars
<1>1. DelayUntil
  BY DEF LedNext, RoundStep, ClockStep, WriteLed, HandleWiFi, Sleep, Measure, SleepNot, EndLoop,
         SleepSkipped, TimePasses, StartCycleTime, CreatorReads, CreatorStores, Rebase, WakeUp,
         Stop, vars
<1>2. /\ Wake = Tick(begun + period)
      /\ ToCome <=> begun + period > now
      /\ begun + period > now => Minus(Wake, Tick(now)) = (begun + period) - now
  BY ToComeIsLater
<1>3. now \in Nat /\ begun \in Nat /\ period \in Nat
  BY RateAssumption DEF IndInv, LedTypeOK, TypeOK
<1> QED BY <1>1, <1>2, <1>3 DEF DelayUntil

\* Every sleep ends exactly a period after the time its round is counted from, and none
\* is left out before that time.
THEOREM Punctual == LedSpec => OnSchedule
BY StepSleeps, Inductive, PTL DEF LedSpec, OnSchedule

\* A step warns exactly if the round is over its period.
LEMMA StepWarns ==
  IndInv /\ [LedNext]_blinkVars
    => [pc = "work" /\ pc' \in {"late", "delay"} =>
          (pc' = "late" <=> now - begun > period' - Margin)]_vars
<1> SUFFICES ASSUME IndInv, LedNext, pc = "work", pc' \in {"late", "delay"}
             PROVE  pc' = "late" <=> now - begun > period' - Margin
  BY DEF blinkVars, vars
<1>1. Sleep
  BY DEF LedNext, RoundStep, ClockStep, WriteLed, HandleWiFi, SleepNot, EndLoop, SleepSkipped,
         TimePasses, StartCycleTime, CreatorReads, CreatorStores, Rebase, DelayUntil, WakeUp, Stop, vars
<1>2. /\ TickRange \in Nat /\ now \in Nat /\ begun \in Nat /\ begun <= now /\ now - begun < TickRange
      /\ cycle_start_tick = Tick(begun)
  <2>1. PeriodOf["HEART_BEAT"][0] \in Periods
    BY PeriodsOfPatterns
  <2>2. TickRange \in Nat /\ MaxRound \in Nat /\ MaxRound < TickRange
    <3> DEFINE p == PeriodOf["HEART_BEAT"][0]
    <3> HIDE DEF p
    <3>1. p \in Periods
      BY <2>1 DEF p
    <3> QED BY <3>1, RateAssumption
  <2> QED BY <2>2 DEF IndInv, ScheduleInv, LedTypeOK, TypeOK
<1>3. ElapsedTime = now - begun
  BY <1>2, MinusIsTime DEF ElapsedTime
<1> QED BY <1>1, <1>3 DEF Sleep, Measure, Exceeds

\* The warning is logged exactly when the round is over its period.
THEOREM Warned == LedSpec => WarnedIfLate
BY StepWarns, Inductive, PTL DEF LedSpec, WarnedIfLate
=============================================================================
