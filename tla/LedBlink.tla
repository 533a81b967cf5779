------------------------------ MODULE LedBlink ------------------------------
(***************************************************************************)
(* The rounds of ledBlinkTask on the clock of FixedRate: a round writes    *)
(* the LED's pin, looks at the WiFi task, which may choose another         *)
(* pattern (WifiManager says which one), and sleeps for the next period of *)
(* the pattern.  Two members advance round by round and persist: the level *)
(* to write next, and the index into the tables of periods, which say at   *)
(* each place whether the LED is off or on meanwhile.                      *)
(***************************************************************************)
EXTENDS FixedRate

CONSTANTS
  NUM_PERIODS,
  Patterns,     \* enum class LED_PATTERN
  OffOn         \* OffOn[pattern]: how long the LED is off and on, in ticks

ASSUME PatternAssumption ==
  /\ NUM_PERIODS \in Nat \ {0} /\ NUM_PERIODS % 2 = 0
  /\ "HEART_BEAT" \in Patterns
  /\ OffOn \in [Patterns -> Periods \X Periods]

\* HEART_BEAT_PATTERN and the four other tables: off, on, off, on, ...
PeriodOf ==
  [pattern \in Patterns |-> [i \in 0 .. NUM_PERIODS - 1 |->
     OffOn[pattern][IF i % 2 = 0 THEN 1 ELSE 2]]]

VARIABLES
  step,                  \* where the round is: "write", "wifi" or "sleep"
  pin,                   \* what ledPin is driven with, LOW being on; or "input"
  ledState, current_period_index, current_led_pattern

ledVars == <<step, pin, ledState, current_period_index, current_led_pattern>>
blinkVars == <<vars, ledVars>>

LedInit ==
  /\ Init
  /\ step = "write" /\ pin = "output"
  /\ ledState = "HIGH"
  /\ current_period_index = NUM_PERIODS
  /\ current_led_pattern = "HEART_BEAT"
-----------------------------------------------------------------------------
\* digitalWrite(ledPin, ledState), and ledState is toggled.
WriteLed ==
  /\ pc = "work" /\ step = "write" /\ ~stopRequested
  /\ pin' = ledState
  /\ ledState' = IF ledState = "LOW" THEN "HIGH" ELSE "LOW"
  /\ step' = "wifi"
  /\ UNCHANGED <<vars, current_period_index, current_led_pattern>>

\* handleWiFiTask: the pattern of the status, or the old one.  Then the stack is looked
\* at and the reset button, both of which only log.
HandleWiFi(pattern) ==
  /\ pc = "work" /\ step = "wifi"
  /\ current_led_pattern' = pattern
  /\ step' = "sleep"
  /\ UNCHANGED <<vars, pin, ledState, current_period_index>>

\* Mutated: the pattern begins at its second period.
NextIndexFromOne ==
  IF current_period_index + 1 >= NUM_PERIODS THEN 1 ELSE current_period_index + 1

\* getPeriodSleep: ++current_period_index, back to 0 at NUM_PERIODS.
NextIndex ==
  IF current_period_index + 1 >= NUM_PERIODS THEN 0 ELSE current_period_index + 1

\* sleepFixedRate(getPeriodSleep()).
Sleep ==
  /\ step = "sleep"
  /\ current_period_index' = NextIndex
  /\ Measure(PeriodOf[current_led_pattern][NextIndex])
  /\ step' = "write"
  /\ UNCHANGED <<pin, ledState, current_led_pattern>>

\* The same after a stop, which ends the task: shutdown() makes the pin an input.
SleepNot ==
  /\ step = "sleep"
  /\ current_period_index' = NextIndex
  /\ SleepSkipped
  /\ step' = "write" /\ pin' = "input"
  /\ UNCHANGED <<ledState, current_led_pattern>>

\* The loop test finds the stop.
EndLoop ==
  /\ step = "write"
  /\ SleepSkipped
  /\ pin' = "input"
  /\ UNCHANGED <<step, ledState, current_period_index, current_led_pattern>>

RoundStep ==
  \/ WriteLed \/ Sleep \/ SleepNot \/ EndLoop
  \/ \E pattern \in Patterns : HandleWiFi(pattern)

\* What FixedRate has beside the call of the sleep.
ClockStep ==
  /\ \/ TimePasses \/ StartCycleTime \/ CreatorReads \/ CreatorStores
     \/ Rebase \/ DelayUntil \/ WakeUp \/ Stop
  /\ UNCHANGED ledVars

LedNext == RoundStep \/ ClockStep

LedSpec == LedInit /\ [][LedNext]_blinkVars
-----------------------------------------------------------------------------
LedTypeOK ==
  /\ TypeOK
  /\ step \in {"write", "wifi", "sleep"}
  /\ pin \in {"output", "input", "LOW", "HIGH"} /\ ledState \in {"LOW", "HIGH"}
  /\ current_period_index \in 0 .. NUM_PERIODS
  /\ current_led_pattern \in Patterns

\* BlinkOnboardLED.hpp:72-110, the tables: their first period "off", the next one
\* "on", and so on.  Whatever pattern the task sleeps for, since whenever, and however
\* late it is, the LED is off in the periods that say so and on in the others.
LitAsTabled ==
  pc \in {"late", "delay", "asleep"} =>
    pin = IF current_period_index % 2 = 0 THEN "HIGH" ELSE "LOW"

\* Why it holds: the level to write next is that of the next index.
LedInv ==
  /\ pc \in {"prologue", "late", "delay", "asleep"} => step = "write"
  /\ step = "write" => (ledState = "HIGH" <=> NextIndex % 2 = 0)
  /\ step # "write" => /\ ledState = "LOW" <=> NextIndex % 2 = 0
                       /\ pin = IF NextIndex % 2 = 0 THEN "HIGH" ELSE "LOW"

IndInv == LedTypeOK /\ ScheduleInv /\ LedInv /\ LitAsTabled
=============================================================================
