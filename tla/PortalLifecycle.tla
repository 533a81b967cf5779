-------------------------- MODULE PortalLifecycle --------------------------
(***************************************************************************)
(* WifiManager with the Task object through which the WiFi task starts,    *)
(* asks and stops the portal: its handle and the control blocks of the     *)
(* FreeRTOS tasks it has created.  isRunning() answers here what it reads  *)
(* from them.  The composition implements both specifications:             *)
(*                                                                         *)
(*  - WifiManager, which describes the answers by where the portal is;     *)
(*  - TaskLifecycle, which lets start() and stop() be called, and the      *)
(*    task function leave its loop, at any time.                           *)
(***************************************************************************)
EXTENDS WifiManager

CONSTANT MaxRuns   \* bound: how many tasks are created for the portal

ASSUME PortalRunsAssumption == MaxRuns \in Nat \ {0}

VARIABLES
  handle, runs, tcb,   \* the Task object, as in TaskLifecycle
  asked, rounds        \* history, as in TaskLifecycle (rounds is its `late`)

object == <<handle, runs, tcb, asked, rounds>>

\* Where a run is in the loop of TaskLifecycle when provisioningTask is at p.
PlaceOf(p) ==
  CASE p \in {"entry", "begin"} -> "entry"
    [] p \in {"none", "test", "gone"} -> p
    [] p = "close" -> "shutdown"
    [] OTHER -> "body"

\* The runs before the last are over, those after it are still to come.
RunPc == [i \in 1 .. MaxRuns |-> IF i = runs THEN PlaceOf(ppc)
                                 ELSE IF i < runs THEN "gone" ELSE "none"]

\* Where start() is when the WiFi task is at wpc.
Starter ==
  CASE wpc = "create" -> "setup"
    [] wpc \in {"none", "check"} -> "idle"
    [] OTHER -> "returns"

L == INSTANCE TaskLifecycle
       WITH starter <- Starter, pc <- RunPc, late <- rounds, BreaksOut <- TRUE
-----------------------------------------------------------------------------
LifeInit ==
  /\ Init
  /\ handle = 0 /\ runs = 0
  /\ tcb = [i \in L!Runs |-> "none"]
  /\ asked = [i \in L!Runs |-> FALSE]
  /\ rounds = [i \in L!Runs |-> 0]

\* createTask fills the handle in; the control block of the run before is lost.
CreateRun ==
  /\ CreatePortal
  /\ runs < MaxRuns
  /\ runs' = runs + 1
  /\ handle' = L!HandleOf(runs')
  /\ tcb' = [tcb EXCEPT ![runs'] = "alive"]
  /\ UNCHANGED <<asked, rounds>>

\* stop(), by the WiFi task or by handleSave.
StopRun ==
  /\ StopPortal \/ PortalStopsItself
  /\ asked' = [i \in L!Runs |-> asked[i] \/ L!Alive(i)]
  /\ UNCHANGED <<handle, runs, tcb, rounds>>

\* sleepFixedDelay, the end of a round.
EndRound ==
  /\ NoPost \/ PostServed
  /\ rounds' = [rounds EXCEPT ![runs] = IF asked[runs] /\ @ < 2 THEN @ + 1 ELSE @]
  /\ UNCHANGED <<handle, runs, tcb, asked>>

\* Mutated: the task function ends without shutdown().
EndRunForgets ==
  /\ PortalCloses
  /\ UNCHANGED object

\* deleteHandle(): vTaskDelete(handle) does not return, handle keeps its value.
EndRun ==
  /\ PortalCloses
  /\ tcb' = [i \in L!Runs |-> IF i = handle THEN "deleted" ELSE tcb[i]]
  /\ UNCHANGED <<handle, runs, asked, rounds>>

\* The idle task frees a control block.
FreeRun(i) ==
  /\ tcb[i] = "deleted"
  /\ tcb' = [tcb EXCEPT ![i] = "freed"]
  /\ UNCHANGED <<vars, handle, runs, asked, rounds>>

\* The steps that leave the object alone, and those that only ask it.
Elsewhere ==
  /\ \/ StationStep \/ LedStep \/ TimePasses \/ WifiAlone \/ PortalAlone
     \/ AskPortalIf(L!IsRunning)
     \/ \E c \in Networks : Save(c)
  /\ UNCHANGED object

LifeNext ==
  \/ Elsewhere \/ CreateRun \/ StopRun \/ EndRound \/ EndRun
  \/ \E i \in L!Runs : FreeRun(i)

LifeSpec == LifeInit /\ [][LifeNext]_<<vars, object>>
-----------------------------------------------------------------------------
\* Every step is one of WifiManager (as `Spec` states it) and one of TaskLifecycle,
\* or none: start() and stop() on the portal are called as the wrapper expects, one
\* caller of start() and the test before the creation still good when it is made.
Lifecycle == L!Spec

\* What makes both true: the object describes the portal.  Its handle is the last
\* run's, which is alive exactly while provisioningTask is between its first and
\* its last line, and nothing runs while the WiFi task is about to create a run.
ObjectInv ==
  /\ runs \in 0 .. MaxRuns /\ handle = runs
  /\ tcb \in [L!Runs -> {"none", "alive", "deleted", "freed"}]
  /\ asked \in [L!Runs -> BOOLEAN] /\ rounds \in [L!Runs -> 0 .. 2]
  /\ runs = 0 <=> ppc = "none"
  /\ \A i \in L!Runs :
       /\ i > runs <=> tcb[i] = "none"
       /\ L!Alive(i) <=> i = runs /\ ppc # "gone"
  /\ wpc = "create" => ppc \in {"none", "gone"}

LifeInv == IndInv /\ ObjectInv

\* Whichever task has called stop(), a portal that was up then begins no other round:
\* handleSave may answer the post it is at, and no more.
PortalObeysStop == L!OneRoundAfterStop
=============================================================================
