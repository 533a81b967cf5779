--------------------------- MODULE TaskLifecycle ---------------------------
(***************************************************************************)
(* task::Task (lib/Task/src/Task.cpp): one wrapper object and the FreeRTOS *)
(* tasks it creates one after the other, its runs.  One task calls start() *)
(* (the LED task for WiFi, the WiFi task for provisioning, setup() for the *)
(* others); any task may call stop() at any time.                          *)
(*                                                                         *)
(* FreeRTOS is external: it allocates a control block when a task is       *)
(* created, marks it deleted in vTaskDelete, which does not return to a    *)
(* task that deletes itself, and frees it later in the idle task.  Asking  *)
(* for the state of a freed block reads freed memory: any answer.          *)
(***************************************************************************)
EXTENDS Naturals

CONSTANTS MaxRuns,   \* bound: how many RTOS tasks the object may create
          BreaksOut  \* the task function can leave its loop without stop()

ASSUME RunsAssumption == MaxRuns \in Nat \ {0} /\ BreaksOut \in BOOLEAN

VARIABLES
  handle,         \* the run handle points to; 0 is nullptr
  stopRequested,
  starter,        \* where the task that calls start() is
  runs,           \* how many runs were created
  tcb,            \* control block of every run
  pc,             \* where every run is in its task function
  asked,          \* stop() was called during this run
  late            \* how many loop rounds the run finished after that

callVars == <<handle, stopRequested, starter, runs>>
runVars == <<tcb, pc, asked, late>>
vars == <<callVars, runVars>>

Runs == 1 .. MaxRuns
Alive(i) == tcb[i] = "alive"

\* isRunning(): what eTaskGetState may answer for handle.
IsRunning ==
  IF handle = 0 THEN {FALSE}
  ELSE IF tcb[handle] = "freed" THEN BOOLEAN
  ELSE {Alive(handle)}
-----------------------------------------------------------------------------
Init ==
  /\ handle = 0 /\ stopRequested = FALSE
  /\ starter = "idle" /\ runs = 0
  /\ tcb = [i \in Runs |-> "none"]
  /\ pc = [i \in Runs |-> "none"]
  /\ asked = [i \in Runs |-> FALSE]
  /\ late = [i \in Runs |-> 0]

\* start() finds the task running: nothing happens and it returns true.
StartFindsRunning ==
  /\ starter = "idle" /\ TRUE \in IsRunning
  /\ starter' = "returns"
  /\ UNCHANGED <<handle, stopRequested, runs, runVars>>

\* Mutated: start() does not ask isRunning().
MayStartAlways == TRUE

\* start() goes on to setup().
MayStart == FALSE \in IsRunning

StartFindsStopped ==
  /\ starter = "idle" /\ MayStart
  /\ starter' = "setup"
  /\ UNCHANGED <<handle, stopRequested, runs, runVars>>

\* Mutated: xTaskCreatePinnedToCore is not given the handle to fill in.
HandleOfNone(i) == handle

\* xTaskCreatePinnedToCore stores the handle before the new task can run.
HandleOf(i) == i

\* createTask: the new task may run before createTask returns.
CreateSucceeds ==
  /\ starter = "setup" /\ runs < MaxRuns
  /\ starter' = "returns"
  /\ runs' = runs + 1
  /\ handle' = HandleOf(runs')
  /\ tcb' = [tcb EXCEPT ![runs'] = "alive"]
  /\ pc' = [pc EXCEPT ![runs'] = "entry"]
  /\ UNCHANGED <<stopRequested, asked, late>>

\* createTask: no memory for another task; handle keeps its value.
CreateFails ==
  /\ starter = "setup"
  /\ starter' = "returns"
  /\ UNCHANGED <<handle, stopRequested, runs, runVars>>

StartReturns ==
  /\ starter = "returns"
  /\ starter' = "idle"
  /\ UNCHANGED <<handle, stopRequested, runs, runVars>>

\* stop(): the flag is all it changes; isRunning() only chooses what it logs.
Stop ==
  /\ stopRequested' = TRUE
  /\ asked' = [i \in Runs |-> asked[i] \/ Alive(i)]
  /\ UNCHANGED <<handle, starter, runs, tcb, pc, late>>
-----------------------------------------------------------------------------
(* A run: prologue, while (!isStopRequested()) { ... }, shutdown().        *)

Goto(i, from, to) == Alive(i) /\ pc[i] = from /\ pc' = [pc EXCEPT ![i] = to]

Prologue(i) ==
  /\ Goto(i, "entry", "test")
  /\ UNCHANGED <<callVars, tcb, asked, late>>

\* Mutated: the loop condition is lost.
LoopTestForever(i) ==
  /\ Goto(i, "test", "body")
  /\ UNCHANGED <<callVars, tcb, asked, late>>

LoopTest(i) ==
  /\ Goto(i, "test", IF stopRequested THEN "shutdown" ELSE "body")
  /\ UNCHANGED <<callVars, tcb, asked, late>>

Body(i) ==
  /\ Goto(i, "body", "test")
  /\ late' = [late EXCEPT ![i] = IF asked[i] /\ @ < 2 THEN @ + 1 ELSE @]
  /\ UNCHANGED <<callVars, tcb, asked>>

\* provisioningTask: break, because WiFi is connected.
Break(i) ==
  /\ BreaksOut
  /\ Goto(i, "body", "shutdown")
  /\ UNCHANGED <<callVars, tcb, asked, late>>

\* shutdown() ends in deleteHandle(): vTaskDelete(handle).  The task it names
\* is gone at once; if that is the caller, nothing after the call is executed,
\* so handle keeps its value.  Without a handle the task function returns.
Shutdown(i) ==
  /\ Alive(i) /\ pc[i] = "shutdown"
  /\ tcb' = [j \in Runs |-> IF j = handle /\ Alive(j) THEN "deleted" ELSE tcb[j]]
  /\ pc' = [j \in Runs |-> CASE j = handle -> "gone"
                             [] j = i /\ j # handle -> "returned"
                             [] OTHER -> pc[j]]
  /\ UNCHANGED <<callVars, asked, late>>

\* The idle task frees the control block.
Reclaim(i) ==
  /\ tcb[i] = "deleted"
  /\ tcb' = [tcb EXCEPT ![i] = "freed"]
  /\ UNCHANGED <<callVars, pc, asked, late>>

RunStep(i) == Prologue(i) \/ LoopTest(i) \/ Body(i) \/ Break(i) \/ Shutdown(i)
StartStep == StartFindsRunning \/ StartFindsStopped \/ CreateSucceeds \/ CreateFails
             \/ StartReturns

Next == \/ StartStep \/ Stop
        \/ \E i \in Runs : RunStep(i) \/ Reclaim(i)

Spec == Init /\ [][Next]_vars

(* The RTOS runs every task that is ready: each wrapped task sleeps or      *)
(* blocks only for a bounded time in one round, and so does the idle task.  *)
FairSpec == Spec /\ \A i \in Runs : WF_vars(RunStep(i)) /\ WF_vars(Reclaim(i))
-----------------------------------------------------------------------------
TypeOK ==
  /\ handle \in 0 .. MaxRuns /\ stopRequested \in BOOLEAN
  /\ starter \in {"idle", "setup", "returns"}
  /\ runs \in 0 .. MaxRuns
  /\ tcb \in [Runs -> {"none", "alive", "deleted", "freed"}]
  /\ pc \in [Runs -> {"none", "entry", "test", "body", "shutdown", "gone", "returned"}]
  /\ asked \in [Runs -> BOOLEAN]
  /\ late \in [Runs -> 0 .. 2]

\* However start(), stop(), the end of a run and the idle task interleave, two
\* runs never share the members of the wrapper, and handle names the live one
\* (shutdown() would otherwise delete another task).
OneRunOwnsObject == \A i \in Runs : Alive(i) => handle = i

\* No run falls off the end of its task function, which FreeRTOS forbids.
NeverReturns == \A i \in Runs : pc[i] # "returned"

\* A run is ended by its own shutdown() and by nobody else.
EndsItself ==
  [][\A i \in Runs : Alive(i) /\ ~Alive(i)' => pc[i] = "shutdown"]_vars

\* After stop() a run finishes the round it is in and begins no other.
OneRoundAfterStop == \A i \in Runs : late[i] <= 1

\* stop() ends the run in the end, wherever the run is.
StopEnds == \A i \in Runs : (stopRequested /\ Alive(i)) ~> ~Alive(i)

\* What makes the above inductive: runs are numbered in order of creation, a
\* run that has finished a round after stop() is out of the loop's body for good,
\* and while start() is between isRunning() and createTask no run is alive.
IndInv ==
  /\ TypeOK
  /\ OneRunOwnsObject
  /\ NeverReturns
  /\ handle <= runs
  /\ \A i \in Runs : (i > runs <=> tcb[i] = "none") /\ (i > runs => late[i] = 0)
  /\ \A i \in Runs : asked[i] => stopRequested
  /\ \A i \in Runs : late[i] # 0 =>
       stopRequested /\ late[i] = 1 /\ pc[i] \notin {"entry", "body"}
  /\ starter = "setup" => \A i \in Runs : ~Alive(i)
=============================================================================
