------------------------- MODULE WifiManagerProofs -------------------------
(***************************************************************************)
(* Proofs about WifiManager for every set of networks, whatever is stored  *)
(* at boot, and every limit on the attempts; then about PortalLifecycle,   *)
(* which extends it, and its two refinements.                              *)
(***************************************************************************)
EXTENDS PortalLifecycle, TLAPS

\* The variables that are read as truth values.
Booleans ==
  /\ staOn \in BOOLEAN /\ wifi_on \in BOOLEAN /\ late \in BOOLEAN
  /\ stopRequested \in BOOLEAN /\ connectedOnce \in BOOLEAN

LEMMA BooleansOK == IndInv => Booleans
BY Zenon DEF IndInv, TypeOK, Booleans

LEMMA InitInd == Init => IndInv
<1> SUFFICES ASSUME Init PROVE IndInv
  OBVIOUS
<1>1. Booleans
  BY Zenon DEF Init, Booleans
<1>2. TypeOK
  <2>1. 0 \in 0 .. MaxAttempts - 1 /\ 0 \in 0 .. MaxPosts /\ 0 \in 0 .. MaxAttempts + 1
    BY WifiAssumption
  <2>2. creds \in Networks \cup {NoCreds}
    BY WifiAssumption DEF Init
  <2> QED BY <1>1, <2>1, <2>2, Zenon DEF Init, TypeOK, Statuses, LedPatterns, Booleans
<1>3. CounterInv /\ ErasedAfterPolls /\ CloseInv
  BY Zenon DEF Init, CounterInv, ErasedAfterPolls, CloseInv, Online
<1> QED BY <1>2, <1>3 DEF IndInv

\* The station goes on line only as Joins records it.
LEMMA StationKeeps == IndInv /\ StationStep => IndInv'
<1> SUFFICES ASSUME IndInv, StationStep PROVE IndInv'
  OBVIOUS
<1> USE WifiAssumption DEF IndInv, TypeOK, Statuses, CounterInv, ErasedAfterPolls,
        CloseInv, Online, LedPatterns, ledVars, wifiVars, history
<1>1. CASE StationSwitches
  BY <1>1 DEF StationSwitches
<1>2. CASE Joins
  <2>1. Booleans'
    BY <1>2, BooleansOK, Zenon DEF Joins, Booleans
  <2>2. status' \in {"idle", "connected"} /\ (Online \/ status' = "connected" => connectedOnce')
    BY <1>2, Zenon DEF Joins
  <2> QED BY <1>2, <2>1, <2>2 DEF Joins, Booleans
<1>3. CASE AttemptFails
  BY <1>3 DEF AttemptFails
<1>4. CASE Drops
  BY <1>4 DEF Drops
<1>5. CASE ScanEnds
  BY <1>5 DEF ScanEnds
<1> QED BY <1>1, <1>2, <1>3, <1>4, <1>5 DEF StationStep

LEMMA LedKeeps == IndInv /\ LedStep => IndInv'
<1> SUFFICES ASSUME IndInv, LedStep PROVE IndInv'
  OBVIOUS
<1> USE DEF IndInv, TypeOK, Statuses, CounterInv, ErasedAfterPolls, CloseInv, Online,
        station, ledVars, wifiVars, history, SetWifiOn
<1>1. CASE LedPrologue
  <2>1. Booleans'
    BY <1>1, BooleansOK, Zenon DEF LedPrologue, Booleans
  <2> QED BY <1>1, <2>1 DEF LedPrologue, Booleans
<1>2. CASE StartWifiTask
  BY <1>2 DEF StartWifiTask
<1>3. CASE ShowStatus
  <2>1. Booleans'
    BY <1>3, BooleansOK, Zenon DEF ShowStatus, Booleans
  <2>2. PatternNow \in LedPatterns
    BY DEF PatternNow, LedPatterns
  <2> QED BY <1>3, <2>1, <2>2 DEF ShowStatus, Booleans
<1> QED BY <1>1, <1>2, <1>3 DEF LedStep

\* The counter and the polls grow together.
LEMMA PollKeeps == IndInv /\ Poll => IndInv'
BY WifiAssumption DEF Poll, IndInv, TypeOK, Statuses, CounterInv, ErasedAfterPolls,
   CloseInv, Online, station, ledVars

\* An exhausted counter means that the polls before were failures too.
LEMMA FailureKeeps == IndInv /\ HandleConnectFailed => IndInv'
<1> SUFFICES ASSUME IndInv, HandleConnectFailed PROVE IndInv'
  OBVIOUS
<1>1. wpc = "handle" /\ last = "connectFailed" /\ polls > 0
  BY DEF HandleConnectFailed, Handle, IndInv, CounterInv
<1>2. polls > AttemptsNow /\ AttemptsNow \in Nat
  BY <1>1 DEF IndInv, TypeOK, CounterInv, AttemptsNow
<1> USE WifiAssumption, <1>1, <1>2 DEF IndInv, TypeOK, CounterInv, ErasedAfterPolls,
        CloseInv, Online, ledVars, history, Handle
<1>3. CASE Exhausted
  <2>1. polls = MaxAttempts + 1
    BY <1>3 DEF Exhausted
  <2>2. Booleans'
    BY <1>3, BooleansOK, Zenon DEF HandleConnectFailed, Booleans
  <2> QED BY <1>3, <2>1, <2>2 DEF HandleConnectFailed, Booleans
<1>4. CASE ~Exhausted
  <2>1. AttemptsNow \in 0 .. MaxAttempts - 1
    BY <1>4 DEF Exhausted
  <2> QED BY <1>4, <2>1 DEF HandleConnectFailed, station
<1> QED BY <1>3, <1>4

\* The other handlers leave the counter alone.
LEMMA HandlersKeep ==
  IndInv /\ (\/ HandleStopped \/ HandleIdle \/ HandleNoSsid \/ HandleScanCompleted
             \/ HandleDisconnected \/ HandleLost)
    => IndInv'
<1> SUFFICES ASSUME IndInv,
                    \/ HandleStopped \/ HandleIdle \/ HandleNoSsid
                    \/ HandleScanCompleted \/ HandleDisconnected \/ HandleLost
             PROVE  IndInv'
  OBVIOUS
<1> USE DEF IndInv, TypeOK, CounterInv, ErasedAfterPolls, CloseInv, Online, station,
        ledVars, history, Handle
<1>1. CASE HandleStopped
  BY <1>1 DEF HandleStopped
<1>2. CASE HandleIdle
  BY <1>2 DEF HandleIdle
<1>3. CASE HandleNoSsid \/ HandleScanCompleted
  BY <1>3 DEF HandleNoSsid, HandleScanCompleted
<1>4. CASE HandleDisconnected
  <2>1. Booleans'
    BY <1>4, BooleansOK, Zenon DEF HandleDisconnected, Booleans
  <2>2. /\ wpc = "handle" /\ last = "disconnected" /\ wpc' \in {"poll", "check"}
        /\ tried' \in {tried, NoCreds}
        /\ prev' = last
        /\ UNCHANGED <<staOn, status, creds, ledVars, last, attempts, ppc,
                       stopRequested, history>>
    BY <1>4 DEF HandleDisconnected
  <2> QED BY <2>1, <2>2 DEF Booleans
<1>5. CASE HandleLost
  <2>1. Booleans'
    BY <1>5, BooleansOK, Zenon DEF HandleLost, Booleans
  <2>2. /\ wpc = "handle" /\ last = "lost" /\ wpc' \in {"poll", "check"}
        /\ prev' = last
        /\ UNCHANGED <<station, creds, ledVars, last, attempts, ppc,
                       stopRequested, history>>
    BY <1>5 DEF HandleLost
  <2> QED BY <2>1, <2>2 DEF Booleans
<1> QED BY <1>1, <1>2, <1>3, <1>4, <1>5

\* Asking for the portal, starting and stopping it, and erasing the credentials.
LEMMA PortalControlKeeps ==
  IndInv /\ (AskPortal \/ StopPortal \/ ClearCredentials \/ CreatePortal \/ CreateFails
             \/ TimePasses)
    => IndInv'
<1> SUFFICES ASSUME IndInv,
                    \/ AskPortal \/ StopPortal \/ ClearCredentials \/ CreatePortal
                    \/ CreateFails \/ TimePasses
             PROVE  IndInv'
  OBVIOUS
<1> USE DEF IndInv, TypeOK, CounterInv, ErasedAfterPolls, CloseInv, Online, station,
        ledVars, history, BackToPoll, Handle
<1>1. CASE StopPortal
  BY <1>1 DEF StopPortal
<1>2. CASE ClearCredentials
  BY <1>2 DEF ClearCredentials
<1>3. CASE HandleConnectedIf(ProvIsRunning)
  <2>1. /\ wpc' \in {"stop", "poll"} /\ wpc = "handle" /\ last = "connected"
        /\ staOn' = (staOn /\ wifi_on)
        /\ prev' = last
        /\ UNCHANGED <<status, tried, creds, ledVars, last, late, attempts, ppc,
                       stopRequested, history>>
    BY <1>3 DEF HandleConnectedIf
  <2>2. Booleans'
    BY <2>1, BooleansOK, Zenon DEF Booleans
  <2> QED BY <2>1, <2>2 DEF Booleans
<1>4. CASE FindPortalRunningIf(ProvIsRunning) \/ FindPortalStoppedIf(ProvIsRunning)
  <2>1. /\ wpc = "check" /\ wpc' \in {"poll", "create"} /\ late' \in BOOLEAN
        /\ UNCHANGED <<station, creds, ledVars, last, prev, attempts, ppc, stopRequested,
                       history>>
    BY <1>4, BooleansOK, Zenon DEF FindPortalRunningIf, FindPortalStoppedIf, Booleans
  <2> QED BY <2>1
<1>5. CASE CreatePortal
  BY <1>5 DEF CreatePortal
<1>6. CASE CreateFails
  BY <1>6 DEF CreateFails
<1>7. CASE TimePasses
  BY <1>7 DEF TimePasses
<1> QED BY <1>1, <1>2, <1>3, <1>4, <1>5, <1>6, <1>7 DEF AskPortal, AskPortalIf

\* The portal closes itself only on line or after a stop.
LEMMA PortalKeeps ==
  IndInv /\ (PortalStep \/ \E c \in Networks : Save(c)) => IndInv'
<1> SUFFICES ASSUME IndInv, PortalStep \/ \E c \in Networks : Save(c) PROVE IndInv'
  OBVIOUS
<1> USE WifiAssumption DEF IndInv, TypeOK, CounterInv, ErasedAfterPolls, CloseInv, Online, station,
        ledVars, wifiVars, history, PStep
<1>1. CASE PortalPrologue \/ PortalBegin
  <2>1. Booleans'
    BY <1>1, BooleansOK, Zenon DEF PortalPrologue, PortalBegin, Booleans
  <2> QED BY <1>1, <2>1 DEF PortalPrologue, PortalBegin, Booleans
<1>2. CASE PortalTest
  BY <1>2 DEF PortalTest
<1>3. CASE PortalRound \/ NoPost \/ PostServed
  BY <1>3 DEF PortalRound, NoPost, PostServed
<1>4. CASE TryCredentials
  BY <1>4 DEF TryCredentials
<1>5. CASE AnswerPost
  BY <1>5 DEF AnswerPost
<1>6. CASE PortalStopsItself
  BY <1>6 DEF PortalStopsItself
<1>7. CASE PortalCloses
  BY <1>7 DEF PortalCloses
<1>8. CASE \E c \in Networks : Save(c)
  BY <1>8 DEF Save
<1> QED BY <1>1, <1>2, <1>3, <1>4, <1>5, <1>6, <1>7, <1>8 DEF PortalStep, PortalAlone

LEMMA StutterKeeps == IndInv /\ UNCHANGED vars => IndInv'
BY DEF IndInv, TypeOK, CounterInv, ErasedAfterPolls, CloseInv, Online, vars, station,
   ledVars, wifiVars, history

LEMMA NextKeeps == IndInv /\ [Next]_vars => IndInv'
<1> SUFFICES ASSUME IndInv, [Next]_vars PROVE IndInv'
  OBVIOUS
<1>1. CASE StationStep \/ LedStep
  BY <1>1, StationKeeps, LedKeeps
<1>2. CASE WifiStep \/ TimePasses
  BY <1>2, PollKeeps, FailureKeeps, HandlersKeep, PortalControlKeeps DEF WifiStep, WifiAlone
<1>3. CASE PortalStep \/ \E c \in Networks : Save(c)
  BY <1>3, PortalKeeps
<1>4. CASE UNCHANGED vars
  BY <1>4, StutterKeeps
<1> QED BY <1>1, <1>2, <1>3, <1>4 DEF Next

\* The invariant of the model holds in every state the three tasks, the station
\* and the user reach.
THEOREM Inductive == Spec => []IndInv
BY InitInd, NextKeeps, PTL DEF Spec

\* dealWithWiFiConnectFailed gives the credentials up only after as many polls in
\* a row as MAX_WIFI_RECONNECT_ATTEMPTS, plus the first, have read a failure.
THEOREM NotErasedEarly == Spec => []ErasedAfterPolls
<1>1. IndInv => ErasedAfterPolls
  BY DEF IndInv
<1> QED BY <1>1, Inductive, PTL

\* The portal of a device that was never on line is not closed by the WiFi task,
\* by handleSave, or by itself.
THEOREM PortalStaysOpen == Spec => []PortalOpenUntilConnected
<1>1. IndInv => PortalOpenUntilConnected
  BY DEF IndInv, CloseInv, PortalOpenUntilConnected
<1> QED BY <1>1, Inductive, PTL
-----------------------------------------------------------------------------
(* The credentials here are the pairs that CredentialStore's strings       *)
(* implement: both modules implement PairStore, this one with every call   *)
(* done at once.                                                           *)

\* As PairStore sees a pair: without a password it is none.
View(c) == IF Has(c) THEN c ELSE NoCreds

P == INSTANCE PairStore WITH
       Credentials <- Networks \ Open, wanted <- View(creds), creds <- View(creds),
       kept <- View(creds), tried <- View(tried), sound <- TRUE

\* What the station is told, and what the credentials become.
LEMMA StepOnPairs ==
  ASSUME TypeOK, [Next]_vars
  PROVE  \/ UNCHANGED <<creds, tried>>
         \/ creds' \in Networks \cup {NoCreds} /\ tried' = tried
         \/ creds' = creds /\ tried' \in {creds, NoCreds}
<1> USE DEF station, ledVars, wifiVars, history
<1>1. CASE StationStep \/ LedStep \/ TimePasses \/ UNCHANGED vars
  BY <1>1, Zenon DEF StationStep, StationSwitches, Joins, AttemptFails, Drops, ScanEnds, LedStep, LedPrologue,
     StartWifiTask, ShowStatus, TimePasses, vars
<1>2. CASE WifiStep
  <2>1. CASE HandleDisconnected \/ HandleConnectFailed
    BY <2>1 DEF HandleDisconnected, HandleConnectFailed
  <2>2. CASE ClearCredentials
    BY <2>2 DEF ClearCredentials
  <2> QED BY <1>2, <2>1, <2>2, Zenon
      DEF WifiStep, WifiAlone, Poll, HandleStopped, HandleIdle, HandleNoSsid, HandleScanCompleted, HandleLost,
          CreateFails, AskPortal, AskPortalIf, HandleConnectedIf, FindPortalRunningIf,
          FindPortalStoppedIf, StopPortal, CreatePortal
<1>3. CASE PortalStep
  <2>1. CASE PortalPrologue \/ PortalBegin \/ TryCredentials
    BY <2>1 DEF PortalPrologue, PortalBegin, TryCredentials
  <2> QED BY <1>3, <2>1, Zenon
      DEF PortalStep, PortalAlone, PortalTest, PortalRound, AnswerPost, NoPost, PostServed,
          PortalStopsItself, PortalCloses
<1>4. CASE \E c \in Networks : Save(c)
  BY <1>4 DEF Save
<1> QED BY <1>1, <1>2, <1>3, <1>4 DEF Next

\* save() and clear() replace the pair, WiFi.begin is told the pair that is stored.
THEOREM UsesWholePairs == Spec => P!Spec
<1>1. Init => P!Init
  BY WifiAssumption DEF Init, View, Has, P!Init, P!Done, P!All
<1>2. IndInv /\ [Next]_vars => [P!Next]_(P!pairVars)
  <2> SUFFICES ASSUME IndInv, [Next]_vars PROVE [P!Next]_(P!pairVars)
    OBVIOUS
  <2>1. CASE UNCHANGED <<creds, tried>>
    BY <2>1 DEF View, Has, P!pairVars
  <2>2. CASE creds' \in Networks \cup {NoCreds} /\ tried' = tried
    <3>1. View(creds') \in P!All /\ View(tried)' = View(tried) /\ View(creds)' = View(creds')
      BY <2>2 DEF View, Has, P!All
    <3>2. P!Ask(View(creds'))
      BY <3>1 DEF P!Ask, P!Done
    <3> QED BY <3>1, <3>2 DEF P!Next
  <2>3. CASE creds' = creds /\ tried' \in {creds, NoCreds}
    <3>1. View(creds)' = View(creds) /\ View(tried)' \in {View(creds), NoCreds}
      BY <2>3, WifiAssumption DEF View, Has
    <3>2. P!Try \/ P!Forget
      BY <3>1 DEF P!Try, P!Forget, P!Done
    <3> QED BY <3>2 DEF P!Next
  <2> QED BY <2>1, <2>2, <2>3, StepOnPairs DEF IndInv
<1> QED BY <1>1, <1>2, Inductive, PTL DEF Spec, P!Spec

\* Credentials last until a user posts others, or the limit of failed polls is reached
\* (WIFI.cpp:110): no other handler, round or restart of the portal changes them.
CredentialsLast ==
  [][creds' # creds => (\E c \in Networks : Save(c)) \/ polls = MaxAttempts + 1]_vars

THEOREM CredentialsOutlast == Spec => CredentialsLast
<1>1. IndInv /\ [Next]_vars =>
        [creds' # creds => (\E c \in Networks : Save(c)) \/ polls = MaxAttempts + 1]_vars
  <2> SUFFICES ASSUME IndInv, Next, creds' # creds, ~\E c \in Networks : Save(c)
               PROVE  polls = MaxAttempts + 1
    BY DEF vars
  <2>1. ClearCredentials
    BY Zenon DEF Next, StationStep, StationSwitches, Joins, AttemptFails, Drops, ScanEnds, LedStep,
       LedPrologue, StartWifiTask, ShowStatus, TimePasses, WifiStep, WifiAlone, Poll,
       HandleStopped, HandleIdle, HandleNoSsid, HandleScanCompleted, HandleLost, HandleDisconnected,
       HandleConnectFailed, CreateFails, AskPortal, AskPortalIf, HandleConnectedIf,
       FindPortalRunningIf, FindPortalStoppedIf, StopPortal, CreatePortal, PortalStep,
       PortalAlone, PortalPrologue, PortalBegin, TryCredentials, PortalTest, PortalRound,
       AnswerPost, NoPost, PostServed, PortalStopsItself, PortalCloses
  <2> QED BY <2>1 DEF ClearCredentials, IndInv, ErasedAfterPolls
<1> QED BY <1>1, Inductive, PTL DEF Spec, CredentialsLast

-----------------------------------------------------------------------------
(* The portal's Task object.  TaskLifecycle is instantiated as L.          *)

\* What isRunning() reads from the object is what WifiManager says it answers:
\* true while provisioningTask runs, and anything only when it is over.
LEMMA AnswersAgree == LifeInv => L!IsRunning \subseteq ProvIsRunning
<1> SUFFICES ASSUME LifeInv PROVE L!IsRunning \subseteq ProvIsRunning
  OBVIOUS
<1> USE DEF LifeInv, ObjectInv, L!IsRunning, ProvIsRunning, L!Runs, L!Alive
<1>1. CASE ppc = "none"
  BY <1>1
<1>2. CASE ppc = "gone"
  BY <1>2, Zenon
<1>3. CASE ppc \notin {"none", "gone"}
  <2>1. runs \in L!Runs /\ handle = runs /\ runs # 0
    BY <1>3, PortalRunsAssumption
  <2>2. tcb[handle] = "alive"
    BY <1>3, <2>1
  <2> QED BY <1>3, <2>1, <2>2
<1> QED BY <1>1, <1>2, <1>3

LEMMA MoreAnswers ==
  ASSUME NEW A, NEW B, A \subseteq B, AskPortalIf(A)
  PROVE  AskPortalIf(B)
BY Zenon DEF AskPortalIf, HandleConnectedIf, FindPortalRunningIf, FindPortalStoppedIf

\* Each step of the composition is one of WifiManager, or the idle task's.
LEMMA StepIsManagers == LifeInv /\ [LifeNext]_<<vars, object>> => [Next]_vars
<1> SUFFICES ASSUME LifeInv, [LifeNext]_<<vars, object>> PROVE [Next]_vars
  OBVIOUS
<1>1. CASE Elsewhere
  <2>1. AskPortalIf(L!IsRunning) => AskPortal
    BY AnswersAgree, MoreAnswers DEF AskPortal
  <2> QED BY <1>1, <2>1, Zenon DEF Elsewhere, Next, WifiStep, PortalStep
<1>2. CASE CreateRun \/ StopRun \/ EndRound \/ EndRun
  BY <1>2, Zenon DEF CreateRun, StopRun, EndRound, EndRun, Next, WifiStep, PortalStep
<1>3. CASE \E i \in L!Runs : FreeRun(i)
  BY <1>3, Zenon DEF FreeRun
<1>4. CASE UNCHANGED <<vars, object>>
  BY <1>4
<1> QED BY <1>1, <1>2, <1>3, <1>4 DEF LifeNext

LEMMA LifeInitInd == LifeInit => LifeInv
<1> SUFFICES ASSUME LifeInit PROVE LifeInv
  OBVIOUS
<1>1. asked \in [L!Runs -> BOOLEAN]
  BY Zenon DEF LifeInit
<1>2. ObjectInv
  BY <1>1, PortalRunsAssumption DEF LifeInit, Init, ObjectInv, L!Runs, L!Alive
<1> QED BY <1>2, InitInd DEF LifeInit, LifeInv

\* While the WiFi task is about to create a run, the portal cannot come up by itself;
\* the other steps outside the object keep the portal between its first and last line.
LEMMA ElsewhereKeeps == LifeInv /\ Elsewhere => ObjectInv'
<1> SUFFICES ASSUME LifeInv, Elsewhere PROVE ObjectInv'
  OBVIOUS
<1>1. /\ ppc' = "none" <=> ppc = "none"
      /\ ppc' = "gone" <=> ppc = "gone"
      /\ wpc' = "create" => ppc' \in {"none", "gone"}
  <2> USE DEF wifiVars, PStep, Handle
  <2>0. wpc = "create" => ppc \in {"none", "gone"}
    BY DEF LifeInv, ObjectInv
  <2>1. CASE StationStep \/ LedStep \/ TimePasses
    <3>1. CASE StationStep
      BY <2>0, <3>1, Zenon DEF StationStep, StationSwitches, Joins, AttemptFails, Drops,
       ScanEnds
    <3>2. CASE LedStep \/ TimePasses
      BY <2>0, <3>2 DEF LedStep, LedPrologue, StartWifiTask, ShowStatus, TimePasses
    <3> QED BY <2>1, <3>1, <3>2
  <2>2. CASE WifiAlone
    <3>1. ppc' = ppc /\ wpc' \in {"handle", "poll", "check", "clear"}
      BY <2>2 DEF WifiAlone, Poll, HandleStopped, HandleIdle, HandleNoSsid, HandleScanCompleted,
         HandleDisconnected, HandleLost, HandleConnectFailed, ClearCredentials,
         CreateFails, BackToPoll
    <3> QED BY <3>1
  <2>3. CASE PortalAlone \/ \E c \in Networks : Save(c)
    BY <2>0, <2>3 DEF PortalAlone, PortalPrologue, PortalBegin, PortalTest, PortalRound,
       TryCredentials, AnswerPost, Save
  <2>4. CASE AskPortalIf(L!IsRunning)
    BY <2>4, AnswersAgree DEF AskPortalIf, HandleConnectedIf, FindPortalRunningIf,
       FindPortalStoppedIf, BackToPoll, Handle, ProvIsRunning
  <2> QED BY <2>1, <2>2, <2>3, <2>4 DEF Elsewhere
<1> QED BY <1>1 DEF Elsewhere, object, LifeInv, ObjectInv, L!Runs, L!Alive

\* The steps on the object keep it describing the portal.
LEMMA ObjectKeeps ==
  LifeInv /\ (CreateRun \/ StopRun \/ EndRound \/ EndRun \/ \E i \in L!Runs : FreeRun(i))
    => ObjectInv'
<1> SUFFICES ASSUME LifeInv,
                    \/ CreateRun \/ StopRun \/ EndRound \/ EndRun
                    \/ \E i \in L!Runs : FreeRun(i)
             PROVE  ObjectInv'
  OBVIOUS
<1> USE PortalRunsAssumption DEF LifeInv, ObjectInv, L!Runs, L!Alive, PStep, wifiVars
<1>1. CASE CreateRun
  BY <1>1 DEF CreateRun, CreatePortal, BackToPoll, L!HandleOf
<1>2. CASE StopRun
  <2>1. asked' \in [L!Runs -> BOOLEAN]
    BY <1>2, Zenon DEF StopRun
  <2> QED BY <1>2, <2>1 DEF StopRun, StopPortal, PortalStopsItself
<1>3. CASE EndRound
  BY <1>3 DEF EndRound, NoPost, PostServed
<1>4. CASE EndRun
  BY <1>4 DEF EndRun, PortalCloses
<1>5. CASE \E i \in L!Runs : FreeRun(i)
  BY <1>5 DEF FreeRun, vars
<1> QED BY <1>1, <1>2, <1>3, <1>4, <1>5

\* The object describes the portal in every reachable state.
THEOREM ObjectInductive == LifeSpec => []LifeInv
<1>1. LifeInv /\ [LifeNext]_<<vars, object>> => LifeInv'
  <2> SUFFICES ASSUME LifeInv, [LifeNext]_<<vars, object>> PROVE LifeInv'
    OBVIOUS
  <2>1. IndInv'
    BY StepIsManagers, NextKeeps DEF LifeInv
  <2>2. CASE LifeNext
    BY <2>1, <2>2, ElsewhereKeeps, ObjectKeeps DEF LifeNext, LifeInv
  <2>3. CASE UNCHANGED <<vars, object>>
    BY <2>1, <2>3 DEF LifeInv, ObjectInv, L!Runs, L!Alive, vars, object, wifiVars
  <2> QED BY <2>2, <2>3
<1> QED BY <1>1, LifeInitInd, PTL DEF LifeSpec

\* WifiManager says of isRunning() what the Task object answers: the composition
\* implements it.
THEOREM ImplementsManager == LifeSpec => Spec
<1>1. LifeInit => Init
  BY DEF LifeInit
<1> QED BY <1>1, StepIsManagers, ObjectInductive, PTL DEF LifeSpec, Spec

\* A portal that runs is the last run, and the only one alive.
LEMMA LastRun ==
  ASSUME LifeInv, ppc \notin {"none", "gone"}
  PROVE  runs \in L!Runs /\ L!Alive(runs) /\ handle = runs /\ RunPc[runs] = PlaceOf(ppc)
<1>1. runs \in 1 .. MaxRuns
  BY PortalRunsAssumption DEF LifeInv, ObjectInv
<1> QED BY <1>1 DEF LifeInv, ObjectInv, L!Runs, RunPc

\* What a step of the portal does to the places of the runs.
LEMMA RunMoves ==
  ASSUME LifeInv, ppc \notin {"none", "gone"}, runs' = runs
  PROVE  RunPc' = [RunPc EXCEPT ![runs] = PlaceOf(ppc)']
BY LastRun DEF RunPc, L!Runs

LEMMA RunStays ==
  ASSUME runs' = runs, PlaceOf(ppc)' = PlaceOf(ppc)
  PROVE  RunPc' = RunPc
BY DEF RunPc

LEMMA StarterStays == wpc' = wpc => Starter' = Starter
BY DEF Starter

\* The steps of provisioningTask within a round are those of a run of TaskLifecycle,
\* or not seen there.
LEMMA PortalIsRun ==
  LifeInv /\ UNCHANGED object /\ (PortalAlone \/ \E c \in Networks : Save(c))
    => [L!Next]_(L!vars)
<1> SUFFICES ASSUME LifeInv, UNCHANGED object, PortalAlone \/ \E c \in Networks : Save(c)
             PROVE  [L!Next]_(L!vars)
  OBVIOUS
<1> USE DEF PStep
<1>1. stopRequested' = stopRequested /\ Starter' = Starter /\ ppc \notin {"none", "gone"}
  BY StarterStays DEF PortalAlone, PortalPrologue, PortalBegin, PortalTest, PortalRound,
     TryCredentials, AnswerPost, Save, wifiVars
<1>2. UNCHANGED L!callVars /\ UNCHANGED <<tcb, asked, rounds>> /\ runs' = runs
  BY <1>1 DEF object, L!callVars
<1>3. runs \in L!Runs /\ L!Alive(runs) /\ RunPc[runs] = PlaceOf(ppc)
      /\ RunPc' = [RunPc EXCEPT ![runs] = PlaceOf(ppc)']
  BY <1>1, <1>2, LastRun, RunMoves
<1>4. L!RunStep(runs) => L!Next
  BY <1>3 DEF L!Next
<1>5. CASE PortalPrologue \/ TryCredentials \/ AnswerPost \/ \E c \in Networks : Save(c)
  <2>1. PlaceOf(ppc)' = PlaceOf(ppc)
    BY <1>5 DEF PlaceOf, PortalPrologue, TryCredentials, AnswerPost, Save
  <2> QED BY <1>2, <2>1, RunStays DEF L!vars, L!runVars
<1>6. CASE PortalBegin
  <2>1. L!Prologue(runs)
    BY <1>2, <1>3, <1>6 DEF L!Prologue, L!Goto, PlaceOf, PortalBegin
  <2> QED BY <1>4, <2>1 DEF L!RunStep
<1>7. CASE PortalTest
  <2>1. L!LoopTest(runs)
    BY <1>2, <1>3, <1>7 DEF L!LoopTest, L!Goto, PlaceOf, PortalTest
  <2> QED BY <1>4, <2>1 DEF L!RunStep
<1>8. CASE PortalRound
  <2>1. CASE Online
    <3>1. L!Break(runs)
      BY <1>2, <1>3, <1>8, <2>1 DEF L!Break, L!Goto, PlaceOf, PortalRound
    <3> QED BY <1>4, <3>1 DEF L!RunStep
  <2>2. CASE ~Online
    <3>1. PlaceOf(ppc)' = PlaceOf(ppc)
      BY <1>8, <2>2 DEF PlaceOf, PortalRound
    <3> QED BY <1>2, <3>1, RunStays DEF L!vars, L!runVars
  <2> QED BY <2>1, <2>2
<1> QED BY <1>5, <1>6, <1>7, <1>8 DEF PortalAlone

\* The WiFi task's steps outside the object are those of the caller of start().
LEMMA WifiIsStarter ==
  LifeInv /\ UNCHANGED object /\ (WifiAlone \/ AskPortalIf(L!IsRunning))
    => [L!Next]_(L!vars)
<1> SUFFICES ASSUME LifeInv, UNCHANGED object, WifiAlone \/ AskPortalIf(L!IsRunning)
             PROVE  [L!Next]_(L!vars)
  OBVIOUS
<1>1. stopRequested' = stopRequested /\ ppc' = ppc
  BY DEF WifiAlone, Poll, HandleStopped, HandleIdle, HandleNoSsid, HandleScanCompleted, HandleDisconnected,
     HandleLost, HandleConnectFailed, ClearCredentials, CreateFails, AskPortalIf,
     HandleConnectedIf, FindPortalRunningIf, FindPortalStoppedIf
<1>2. UNCHANGED <<handle, stopRequested, runs>> /\ UNCHANGED L!runVars
  BY <1>1, RunStays DEF object, L!runVars, PlaceOf
<1>3. L!StartStep => L!Next
  BY DEF L!Next
<1>4. CASE CreateFails
  BY <1>2, <1>3, <1>4 DEF CreateFails, BackToPoll, Starter, L!CreateFails, L!StartStep
<1>5. CASE FindPortalRunningIf(L!IsRunning)
  BY <1>2, <1>3, <1>5 DEF FindPortalRunningIf, BackToPoll, Starter, L!StartFindsRunning,
     L!StartStep
<1>6. CASE FindPortalStoppedIf(L!IsRunning)
  BY <1>2, <1>3, <1>6 DEF FindPortalStoppedIf, Starter, L!StartFindsStopped, L!MayStart,
     L!StartStep
<1>7. CASE wpc \in {"poll", "handle", "clear"} /\ wpc' \in {"poll", "handle", "clear", "stop"}
  BY <1>2, <1>7 DEF Starter, L!vars, L!callVars
<1>8. CASE wpc \in {"poll", "handle", "clear"} /\ wpc' = "check"
  BY <1>2, <1>3, <1>8 DEF Starter, L!StartReturns, L!StartStep
<1>9. \/ CreateFails \/ FindPortalRunningIf(L!IsRunning) \/ FindPortalStoppedIf(L!IsRunning)
      \/ /\ wpc \in {"poll", "handle", "clear"}
         /\ wpc' \in {"poll", "handle", "clear", "stop", "check"}
  <2>1. CASE WifiAlone
    BY <2>1 DEF WifiAlone, Poll, HandleStopped, HandleIdle, HandleNoSsid, HandleScanCompleted,
       HandleDisconnected, HandleLost, HandleConnectFailed, ClearCredentials, Handle
  <2>2. CASE AskPortalIf(L!IsRunning)
    BY <2>2 DEF AskPortalIf, HandleConnectedIf, Handle
  <2> QED BY <2>1, <2>2
<1> QED BY <1>4, <1>5, <1>6, <1>7, <1>8, <1>9

\* The station, the LED task and time are not seen by TaskLifecycle.
LEMMA RestIsUnseen ==
  UNCHANGED object /\ (StationStep \/ LedStep \/ TimePasses) => UNCHANGED L!vars
<1> SUFFICES ASSUME UNCHANGED object, StationStep \/ LedStep \/ TimePasses
             PROVE  UNCHANGED L!vars
  OBVIOUS
<1>1. stopRequested' = stopRequested /\ ppc' = ppc /\ Starter' = Starter
  <2>1. CASE StationStep
    BY <2>1, StarterStays, Zenon DEF StationStep, StationSwitches, Joins, AttemptFails, Drops, ScanEnds,
       wifiVars
  <2>2. CASE LedPrologue \/ ShowStatus \/ TimePasses
    BY <2>2, StarterStays, Zenon DEF LedPrologue, ShowStatus, TimePasses, wifiVars
  <2>3. CASE StartWifiTask
    BY <2>3 DEF StartWifiTask, Starter
  <2> QED BY <2>1, <2>2, <2>3 DEF LedStep
<1> QED BY <1>1, RunStays DEF object, L!vars, L!callVars, L!runVars, PlaceOf

\* A step on the object is the call, or the end of a round or of a run, that
\* TaskLifecycle describes.
LEMMA ObjectStepIs ==
  LifeInv /\ (CreateRun \/ StopRun \/ EndRound \/ EndRun \/ \E i \in L!Runs : FreeRun(i))
    => L!Next
<1> SUFFICES ASSUME LifeInv,
                    \/ CreateRun \/ StopRun \/ EndRound \/ EndRun
                    \/ \E i \in L!Runs : FreeRun(i)
             PROVE  L!Next
  OBVIOUS
<1> USE DEF PStep
<1>1. CASE CreateRun
  <2>1. /\ wpc = "create" /\ wpc' = "poll" /\ ppc \in {"none", "gone"} /\ ppc' = "entry"
        /\ stopRequested' = stopRequested
    BY <1>1 DEF CreateRun, CreatePortal, BackToPoll, LifeInv, ObjectInv
  <2>2. runs' = runs + 1 /\ runs' \in L!Runs
    BY <1>1, PortalRunsAssumption DEF CreateRun, LifeInv, ObjectInv, L!Runs
  <2>3. runs \in Nat /\ (runs \in 1 .. MaxRuns => ppc = "gone")
    BY <2>1, PortalRunsAssumption DEF LifeInv, ObjectInv
  <2>4. RunPc = [i \in 1 .. MaxRuns |-> IF i <= runs THEN "gone" ELSE "none"]
    BY <2>3 DEF RunPc, PlaceOf
  <2>5. RunPc' = [i \in 1 .. MaxRuns |-> IF i = runs + 1 THEN "entry"
                                        ELSE IF i < runs + 1 THEN "gone" ELSE "none"]
    BY <2>1, <2>2 DEF RunPc, PlaceOf
  <2>6. RunPc' = [RunPc EXCEPT ![runs'] = "entry"]
    <3>1. runs' = runs + 1 /\ \A i \in 1 .. MaxRuns : i # runs + 1 => (i < runs + 1 <=> i <= runs)
      BY <2>2, <2>3
    <3> DEFINE R == [i \in 1 .. MaxRuns |-> IF i <= runs THEN "gone" ELSE "none"]
    <3>2. RunPc' = [R EXCEPT ![runs + 1] = "entry"]
      BY <2>5, <3>1
    <3> QED BY <2>4, <3>1, <3>2
  <2> QED BY <1>1, <2>1, <2>6 DEF CreateRun, Starter, L!CreateSucceeds, L!StartStep, L!Next
<1>2. CASE StopRun
  <2>1. /\ stopRequested' = TRUE /\ Starter' = Starter /\ PlaceOf(ppc)' = PlaceOf(ppc)
        /\ runs' = runs
    BY <1>2 DEF StopRun, StopPortal, PortalStopsItself, wifiVars, Starter, PlaceOf
  <2> QED BY <1>2, <2>1, RunStays DEF StopRun, L!Stop, L!Next
<1>3. CASE EndRound
  <2>1. ppc \in {"client", "served"} /\ ppc' = "test" /\ stopRequested' = stopRequested
        /\ Starter' = Starter /\ runs' = runs
    BY <1>3, StarterStays DEF EndRound, NoPost, PostServed, wifiVars
  <2>2. runs \in L!Runs /\ L!Alive(runs) /\ RunPc[runs] = PlaceOf(ppc)
        /\ RunPc' = [RunPc EXCEPT ![runs] = PlaceOf(ppc)']
    BY <2>1, LastRun, RunMoves
  <2>3. L!Body(runs)
    BY <1>3, <2>1, <2>2 DEF EndRound, PlaceOf, L!Body, L!Goto, L!callVars
  <2> QED BY <2>2, <2>3 DEF L!RunStep, L!Next
<1>4. CASE EndRun
  <2>1. ppc = "close" /\ ppc' = "gone" /\ stopRequested' = stopRequested
        /\ Starter' = Starter /\ runs' = runs
    BY <1>4, StarterStays DEF EndRun, PortalCloses, wifiVars
  <2>2. /\ runs \in L!Runs /\ L!Alive(runs) /\ handle = runs
        /\ RunPc[runs] = PlaceOf(ppc)
        /\ RunPc' = [RunPc EXCEPT ![runs] = PlaceOf(ppc)']
    BY <2>1, LastRun, RunMoves
  <2>3. RunPc' = [j \in L!Runs |-> CASE j = handle -> "gone"
                                     [] j = runs /\ j # handle -> "returned"
                                     [] OTHER -> RunPc[j]]
    BY <2>1, <2>2 DEF RunPc, PlaceOf, L!Runs
  <2>4. tcb' = [j \in L!Runs |-> IF j = handle /\ L!Alive(j) THEN "deleted" ELSE tcb[j]]
    BY <1>4, <2>2 DEF EndRun
  <2>5. L!Shutdown(runs)
    BY <1>4, <2>1, <2>2, <2>3, <2>4 DEF EndRun, PlaceOf, L!Shutdown, L!callVars
  <2> QED BY <2>2, <2>5 DEF L!RunStep, L!Next
<1>5. ASSUME NEW i \in L!Runs, FreeRun(i) PROVE L!Next
  <2>1. ppc' = ppc /\ runs' = runs /\ wpc' = wpc /\ stopRequested' = stopRequested
    BY <1>5 DEF FreeRun, vars, wifiVars
  <2>2. L!Reclaim(i)
    BY <1>5, <2>1, RunStays, StarterStays DEF FreeRun, PlaceOf, L!Reclaim, L!callVars
  <2> QED BY <2>2 DEF L!Next
<1> QED BY <1>1, <1>2, <1>3, <1>4, <1>5

\* Through their Task object the WiFi task and the portal behave as TaskLifecycle
\* says: what is proved there of start(), stop() and the end of a run holds of them.
THEOREM ImplementsLifecycle == LifeSpec => Lifecycle
<1>1. LifeInit => L!Init
  BY PortalRunsAssumption
     DEF LifeInit, Init, L!Init, Starter, RunPc, PlaceOf, L!Runs
<1>2. LifeInv /\ [LifeNext]_<<vars, object>> => [L!Next]_(L!vars)
  <2> SUFFICES ASSUME LifeInv, [LifeNext]_<<vars, object>> PROVE [L!Next]_(L!vars)
    OBVIOUS
  <2>1. CASE Elsewhere
    BY <2>1, PortalIsRun, WifiIsStarter, RestIsUnseen DEF Elsewhere
  <2>2. CASE LifeNext /\ ~Elsewhere
    BY <2>2, ObjectStepIs DEF LifeNext
  <2>3. CASE UNCHANGED <<vars, object>>
    BY <2>3, RunStays, StarterStays
       DEF vars, object, wifiVars, PlaceOf, L!vars, L!callVars, L!runVars
  <2> QED BY <2>1, <2>2, <2>3
<1> QED BY <1>1, <1>2, ObjectInductive, PTL DEF LifeSpec, Lifecycle, L!Spec

\* The theorems of TaskLifecycle, for the portal.
T == INSTANCE TaskLifecycleProofs
       WITH starter <- Starter, pc <- RunPc, late <- rounds, BreaksOut <- TRUE

LEMMA SameLifecycle == Lifecycle => T!Spec
<1>1. L!Init => T!Init
  BY DEF L!Init, T!Init, L!Runs, T!Runs
<1>2. [L!Next]_(L!vars) => [T!Next]_(T!vars)
  BY DEF
         L!StartStep, T!StartStep, L!StartFindsRunning, T!StartFindsRunning,
         L!StartFindsStopped, T!StartFindsStopped, L!MayStart, T!MayStart, L!IsRunning,
         T!IsRunning, L!CreateSucceeds, T!CreateSucceeds, L!HandleOf, T!HandleOf,
         L!CreateFails, T!CreateFails, L!StartReturns, T!StartReturns, L!Stop, T!Stop,
         L!RunStep, T!RunStep, L!Prologue, T!Prologue, L!LoopTest, T!LoopTest, L!Body,
         T!Body, L!Break, T!Break, L!Shutdown, T!Shutdown, L!Goto, T!Goto, L!Reclaim,
         T!Reclaim, L!Alive, T!Alive, L!Runs, T!Runs, L!Next, T!Next, L!vars, T!vars,
         L!callVars, T!callVars, L!runVars, T!runVars
<1> QED BY <1>1, <1>2, PTL DEF Lifecycle, L!Spec, T!Spec

\* Once either task has called stop(), a portal finishes at most the round of its loop
\* that it is in.
THEOREM PortalStopsPromptly == LifeSpec => []PortalObeysStop
<1>1. T!Spec => []T!OneRoundAfterStop
  BY T!StopIsPrompt, PortalRunsAssumption DEF T!RunsAssumption
<1>2. T!OneRoundAfterStop => PortalObeysStop
  BY DEF T!OneRoundAfterStop, PortalObeysStop, L!OneRoundAfterStop, T!Runs, L!Runs
<1> QED BY <1>1, <1>2, ImplementsLifecycle, SameLifecycle, PTL
=============================================================================
