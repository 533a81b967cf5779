------------------------ MODULE TaskLifecycleProofs ------------------------
(***************************************************************************)
(* Proofs about TaskLifecycle for every number of runs.                    *)
(***************************************************************************)
EXTENDS TaskLifecycle, TLAPS

\* While a run is alive, isRunning() says so and start() goes no further.
LEMMA AliveIsRunning ==
  ASSUME IndInv, NEW i \in Runs, Alive(i)
  PROVE  IsRunning = {TRUE}
<1>1. handle = i /\ i # 0
  BY DEF IndInv, OneRunOwnsObject, Runs
<1>2. tcb[handle] = "alive"
  BY <1>1 DEF Alive
<1> QED BY <1>1, <1>2 DEF IsRunning, Alive

LEMMA InitInd == Init => IndInv
<1> SUFFICES ASSUME Init PROVE IndInv
  OBVIOUS
<1>1. TypeOK
  <2>1. asked \in [Runs -> BOOLEAN] /\ stopRequested \in BOOLEAN
    BY Zenon DEF Init
  <2>2. 0 \in 0 .. MaxRuns /\ 0 \in 0 .. 2
    BY RunsAssumption
  <2> QED BY <2>1, <2>2, Zenon DEF Init, TypeOK
<1>2. \A i \in Runs : i > runs /\ tcb[i] = "none" /\ ~asked[i] /\ late[i] = 0 /\ pc[i] = "none"
  BY RunsAssumption DEF Init, Runs
<1> QED BY <1>1, <1>2 DEF Init, IndInv, OneRunOwnsObject, NeverReturns, Alive

\* No interleaving of start() with the other steps breaks the invariant.
LEMMA StartKeeps == IndInv /\ StartStep => IndInv'
<1> SUFFICES ASSUME IndInv, StartStep PROVE IndInv'
  OBVIOUS
<1> USE DEF IndInv, TypeOK, OneRunOwnsObject, NeverReturns, Alive, Runs, callVars, runVars
<1>1. CASE StartFindsRunning \/ StartReturns \/ CreateFails
  BY <1>1 DEF StartFindsRunning, StartReturns, CreateFails
<1>2. CASE StartFindsStopped
  <2>1. \A i \in Runs : ~Alive(i)
    BY <1>2, AliveIsRunning DEF StartFindsStopped, MayStart
  <2> QED BY <1>2, <2>1 DEF StartFindsStopped
<1>3. CASE CreateSucceeds
  <2>1. runs + 1 \in Runs /\ runs' = runs + 1 /\ handle' = runs + 1 /\ \A i \in Runs : ~Alive(i)
    BY <1>3, RunsAssumption DEF CreateSucceeds, HandleOf
  <2>2. /\ tcb' = [tcb EXCEPT ![runs + 1] = "alive"]
        /\ pc' = [pc EXCEPT ![runs + 1] = "entry"]
    BY <1>3 DEF CreateSucceeds
  <2> QED BY <1>3, <2>1, <2>2, RunsAssumption DEF CreateSucceeds
<1> QED BY <1>1, <1>2, <1>3 DEF StartStep

LEMMA StopKeeps == IndInv /\ Stop => IndInv'
BY DEF Stop, IndInv, TypeOK, OneRunOwnsObject, NeverReturns, Alive, Runs

\* A run that reaches shutdown() deletes itself, since handle names it.
LEMMA ShutdownIsOwn ==
  ASSUME IndInv, NEW i \in Runs, Shutdown(i)
  PROVE  /\ tcb' = [tcb EXCEPT ![i] = "deleted"]
         /\ pc' = [pc EXCEPT ![i] = "gone"]
BY DEF Shutdown, IndInv, TypeOK, OneRunOwnsObject, Alive, Runs

\* A step of a run, or of the idle task on its control block, keeps the invariant.
LEMMA RunKeeps ==
  ASSUME IndInv, NEW i \in Runs, RunStep(i) \/ Reclaim(i)
  PROVE  IndInv'
<1> USE DEF IndInv, TypeOK, OneRunOwnsObject, NeverReturns, Alive, callVars
<1>1. CASE Prologue(i) \/ LoopTest(i) \/ Break(i)
  BY <1>1 DEF Prologue, LoopTest, Break, Goto
<1>2. CASE Body(i)
  BY <1>2 DEF Body, Goto
<1>3. CASE Shutdown(i)
  BY <1>3, ShutdownIsOwn DEF Shutdown
<1>4. CASE Reclaim(i)
  BY <1>4 DEF Reclaim
<1> QED BY <1>1, <1>2, <1>3, <1>4 DEF RunStep

LEMMA NextKeeps == IndInv /\ [Next]_vars => IndInv'
<1>1. IndInv /\ UNCHANGED vars => IndInv'
  BY DEF vars, callVars, runVars, IndInv, TypeOK, OneRunOwnsObject, NeverReturns, Alive
<1> QED BY <1>1, StartKeeps, StopKeeps, RunKeeps DEF Next

THEOREM Inductive == Spec => []IndInv
BY InitInd, NextKeeps, PTL DEF Spec

\* Two runs never share the wrapper, and handle names the live one.
THEOREM OwnsObject == Spec => []OneRunOwnsObject
<1>1. IndInv => OneRunOwnsObject
  BY DEF IndInv
<1> QED BY <1>1, Inductive, PTL

\* No task function ever returns to FreeRTOS.
THEOREM NoReturn == Spec => []NeverReturns
<1>1. IndInv => NeverReturns
  BY DEF IndInv
<1> QED BY <1>1, Inductive, PTL

\* After stop() a run finishes at most the round it is in.
THEOREM StopIsPrompt == Spec => []OneRoundAfterStop
<1>1. IndInv => OneRoundAfterStop
  BY DEF IndInv, TypeOK, OneRoundAfterStop
<1> QED BY <1>1, Inductive, PTL

\* Only its own shutdown() ends a run.
THEOREM EndsItselfOnly == Spec => EndsItself
<1> DEFINE A == \A i \in Runs : Alive(i) /\ ~Alive(i)' => pc[i] = "shutdown"
<1>1. IndInv /\ [Next]_vars => [A]_vars
  <2> SUFFICES ASSUME IndInv, Next PROVE A
    OBVIOUS
  <2>1. CASE StartStep
    BY <2>1 DEF IndInv, TypeOK, StartStep, StartFindsRunning, StartFindsStopped, CreateSucceeds,
       CreateFails, StartReturns, runVars, Alive, Runs
  <2>2. CASE Stop
    BY <2>2 DEF Stop, Alive
  <2>3. ASSUME NEW j \in Runs, Prologue(j) \/ LoopTest(j) \/ Body(j) \/ Break(j) PROVE A
    BY <2>3 DEF Prologue, LoopTest, Body, Break, Alive
  <2>4. ASSUME NEW j \in Runs, Shutdown(j) PROVE A
    BY <2>4, ShutdownIsOwn DEF Shutdown, IndInv, TypeOK, Alive
  <2>5. ASSUME NEW j \in Runs, Reclaim(j) PROVE A
    BY <2>5 DEF Reclaim, IndInv, TypeOK, Alive
  <2> QED BY <2>1, <2>2, <2>3, <2>4, <2>5 DEF Next, RunStep
<1> QED BY <1>1, Inductive, PTL DEF Spec, EndsItself
=============================================================================
