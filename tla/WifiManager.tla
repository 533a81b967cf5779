---------------------------- MODULE WifiManager ----------------------------
(***************************************************************************)
(* The tasks that keep the device on line:                                 *)
(*                                                                         *)
(*  - the LED task (BlinkOnboardLED.cpp) switches the station on, starts   *)
(*    the WiFi task and shows the state of the connection;                 *)
(*  - the WiFi task (WIFI.cpp) polls WiFi.status() once a second and       *)
(*    reacts to what it reads, and to what it read the time before;        *)
(*  - the provisioning task (WiFiProvisioning.cpp), which the WiFi task    *)
(*    starts and stops, tries the stored credentials and serves the portal *)
(*    where a user posts new ones.                                         *)
(*                                                                         *)
(* The station (the WiFi driver and the access points) is external: its    *)
(* status moves by itself, within what it was told to do.  The three tasks *)
(* share the station, glob::Credentials and the Task object of the portal  *)
(* without a lock; a step is what a task does between two accesses to      *)
(* them.  Credentials are whole pairs here.                                *)
(***************************************************************************)
EXTENDS Naturals

CONSTANTS
  Networks,     \* the credentials a user may post
  Accepted,     \* those an access point accepts
  Open,         \* those without a password
  Stored,       \* what may be in flash at boot
  NoCreds,      \* no credentials
  MaxAttempts,  \* MAX_WIFI_RECONNECT_ATTEMPTS
  MaxPosts      \* bound: how many times credentials are posted

ASSUME WifiAssumption ==
  /\ Accepted \subseteq Networks /\ Open \subseteq Networks
  /\ NoCreds \notin Networks
  /\ Stored \subseteq Networks \cup {NoCreds}
  /\ MaxAttempts \in Nat \ {0} /\ MaxPosts \in Nat

VARIABLES
  staOn, status, tried,   \* station: switched on, WiFi.status(), told to join
  creds,                  \* glob::Credentials
  wifi_on, ledPc, pattern,
  wpc, last, prev,        \* WiFi task: step, last_known_status, prev_status
  late,                   \* DISCONNECTION_TIMEOUT_TICKS since wifi_disconnected_since
  attempts,               \* wifi_reconnect_attempts
  ppc, stopRequested,     \* provisioning: step, its stop flag
  posts, polls, connectedOnce  \* history

station == <<staOn, status, tried>>
ledVars == <<wifi_on, ledPc, pattern>>
wifiVars == <<wpc, last, prev, late, attempts>>
history == <<posts, polls, connectedOnce>>
vars == <<station, creds, ledVars, wifiVars, ppc, stopRequested, history>>

Statuses == {"stopped", "idle", "noSsid", "scanDone", "connectFailed", "lost",
             "disconnected", "connected"}
Online == status = "connected"

\* hasCredentials() of these.
Has(c) == c \in Networks \ Open

\* provisioning_task.isRunning(): once the run has deleted itself the handle
\* dangles and the answer is anything (module TaskLifecycle).
ProvIsRunning ==
  IF ppc = "none" THEN {FALSE} ELSE IF ppc = "gone" THEN BOOLEAN ELSE {TRUE}
-----------------------------------------------------------------------------
Init ==
  /\ staOn = FALSE /\ status = "stopped" /\ tried = NoCreds
  /\ creds \in Stored
  /\ wifi_on = FALSE /\ ledPc = "prologue" /\ pattern = "HEART_BEAT"
  /\ wpc = "none" /\ last = "stopped" /\ prev = "stopped"
  /\ late = FALSE /\ attempts = 0
  /\ ppc = "none" /\ stopRequested = FALSE
  /\ posts = 0 /\ polls = 0 /\ connectedOnce = FALSE
-----------------------------------------------------------------------------
(* The station. *)

\* The driver is up, or down, a while after it was told so.
StationSwitches ==
  /\ status' = IF staOn THEN "disconnected" ELSE "stopped"
  /\ staOn <=> status = "stopped"
  /\ UNCHANGED <<staOn, tried, creds, ledVars, wifiVars, ppc, stopRequested, history>>

\* It joins the network it was told to, and is on line when it has an address.
Joins ==
  /\ staOn /\ tried \in Accepted /\ status \notin {"stopped", "connected"}
  /\ status' = IF status = "idle" THEN "connected" ELSE "idle"
  /\ connectedOnce' = (connectedOnce \/ status' = "connected")
  /\ UNCHANGED <<staOn, tried, creds, ledVars, wifiVars, ppc, stopRequested,
                 posts, polls>>

AttemptFails ==
  /\ staOn /\ tried # NoCreds /\ status \notin {"stopped", "connected"}
  /\ status' \in {"connectFailed", "noSsid", "disconnected"}
  /\ UNCHANGED <<staOn, tried, creds, ledVars, wifiVars, ppc, stopRequested,
                 posts, polls, connectedOnce>>

\* The signal goes away, or the station was told to disconnect.
Drops ==
  /\ staOn /\ (Online \/ (tried = NoCreds /\ status \notin {"stopped", "disconnected"}))
  /\ status' \in {"lost", "disconnected"} /\ status' # status
  /\ UNCHANGED <<staOn, tried, creds, ledVars, wifiVars, ppc, stopRequested, history>>

\* The scan ends that a portal begins without credentials.
ScanEnds ==
  /\ staOn /\ status \notin {"stopped", "scanDone", "connected"}
  /\ ppc \notin {"none", "entry", "begin"}
  /\ status' = "scanDone"
  /\ UNCHANGED <<staOn, tried, creds, ledVars, wifiVars, ppc, stopRequested, history>>

StationStep == StationSwitches \/ Joins \/ AttemptFails \/ Drops \/ ScanEnds
-----------------------------------------------------------------------------
(* The LED task. *)

\* setWifiOn: nothing happens if wifi_on has that value already.
SetWifiOn(on) ==
  IF wifi_on = on THEN UNCHANGED <<wifi_on, staOn>> ELSE wifi_on' = on /\ staOn' = on

LedPrologue ==
  /\ ledPc = "prologue"
  /\ ledPc' = "loop"
  /\ SetWifiOn(TRUE)
  /\ UNCHANGED <<status, tried, creds, pattern, wifiVars, ppc, stopRequested, history>>

\* handleWiFiTask: the WiFi task does not run; creating it may fail until it does.
StartWifiTask ==
  /\ ledPc = "loop" /\ wpc = "none"
  /\ wpc' = "check"
  /\ UNCHANGED <<station, creds, ledVars, last, prev, late, attempts, ppc,
                 stopRequested, history>>

\* Mutated: the credentials are not asked for.
PatternNowUnasked ==
  CASE status = "connected" -> "HEART_BEAT"
    [] status = "idle" -> "IDLE"
    [] status = "noSsid" -> "NO_WIFI_ERROR"
    [] OTHER -> "WIFI_CONNECTION"

\* getWifiStatus and the pattern handleWiFiTask chooses for it.
PatternNow ==
  CASE status = "connected" -> "HEART_BEAT"
    [] status = "idle" -> "IDLE"
    [] status = "noSsid" -> "NO_WIFI_ERROR"
    [] status = "stopped" -> "WIFI_CONNECTION"
    [] OTHER -> IF Has(creds) THEN "WIFI_CONNECTION" ELSE "NEED_PROVISIONING"

\* handleWiFiTask: WIFI_STATUS::OFF also switches the station on.
ShowStatus ==
  /\ ledPc = "loop" /\ wpc # "none"
  /\ pattern' = PatternNow
  /\ IF status = "stopped" THEN SetWifiOn(TRUE) ELSE UNCHANGED <<wifi_on, staOn>>
  /\ UNCHANGED <<status, tried, creds, ledPc, wifiVars, ppc, stopRequested, history>>

LedStep == LedPrologue \/ StartWifiTask \/ ShowStatus
-----------------------------------------------------------------------------
(* The WiFi task.  startWiFi is two steps: "check" asks whether the portal *)
(* runs, "create" starts it.  Nothing ever calls setWifiOn(false) but the  *)
(* task's own shutdown, which nothing requests: the branches for !wifi_on  *)
(* are kept as guards.                                                     *)

\* checkWiFiStatusChange.
Poll ==
  /\ wpc = "poll"
  /\ wpc' = "handle"
  /\ prev' = last /\ last' = status
  /\ polls' = IF status # "connectFailed" THEN 0
              ELSE IF polls > MaxAttempts THEN polls ELSE polls + 1
  /\ UNCHANGED <<station, creds, ledVars, late, attempts, ppc, stopRequested,
                 posts, connectedOnce>>

\* The handler of status s is done and the next step is `to`; prev_status, its argument,
\* is gone (it equals `last` until the next poll).
Handle(s, to) == wpc = "handle" /\ last = s /\ wpc' = to /\ prev' = last

\* dealWithWiFiStopped.
HandleStopped ==
  /\ Handle("stopped", IF prev # "stopped" /\ wifi_on THEN "check" ELSE "poll")
  /\ UNCHANGED <<station, creds, ledVars, last, late, attempts, ppc,
                 stopRequested, history>>

\* dealWithWiFiIdle.
HandleIdle ==
  /\ Handle("idle", IF wifi_on THEN "check" ELSE "poll")
  /\ UNCHANGED <<station, creds, ledVars, last, late, attempts, ppc,
                 stopRequested, history>>

\* dealWithWiFiScanCompleted: "WiFiProvisioning is doing things, let it cook."
HandleScanCompleted ==
  /\ Handle("scanDone", "poll")
  /\ UNCHANGED <<station, creds, ledVars, last, late, attempts, ppc,
                 stopRequested, history>>

\* dealWithWiFiNoSSIDAvail, and those of a missing shield and an unknown status, which
\* also only log and show the same pattern.
HandleNoSsid ==
  /\ Handle("noSsid", "poll")
  /\ UNCHANGED <<station, creds, ledVars, last, late, attempts, ppc,
                 stopRequested, history>>

\* Mutated: the status is waited out, nothing is started.
HandleDisconnectedWaits ==
  /\ Handle("disconnected", "poll")
  /\ late' = FALSE
  /\ UNCHANGED <<station, creds, ledVars, last, attempts, ppc,
                 stopRequested, history>>

\* dealWithWiFiDisconnected.  Whether the driver goes on trying after
\* WiFi.disconnect() is up to it.
HandleDisconnected ==
  \/ /\ Handle("disconnected", "poll")
     /\ ~wifi_on \/ prev # "disconnected" \/ ~late
     /\ late' = IF wifi_on /\ prev # "disconnected" THEN FALSE ELSE late
     /\ UNCHANGED <<station, creds, ledVars, last, attempts, ppc,
                    stopRequested, history>>
  \/ /\ Handle("disconnected", "check")
     /\ wifi_on /\ prev = "disconnected" /\ late
     /\ tried' \in {tried, NoCreds}
     /\ UNCHANGED <<staOn, status, creds, ledVars, last, late, attempts, ppc,
                    stopRequested, history>>

\* dealWithWiFiConnectionLost.
HandleLost ==
  /\ Handle("lost", IF prev = "lost" /\ late THEN "check" ELSE "poll")
  /\ late' = IF prev # "lost" THEN FALSE ELSE late
  /\ UNCHANGED <<station, creds, ledVars, last, attempts, ppc,
                 stopRequested, history>>

\* dealWithWiFiConnected: the portal is not needed any more.  Here and below
\* `answers` is what isRunning() may answer.
HandleConnectedIf(answers) ==
  /\ \E running \in answers :
       Handle("connected", IF wifi_on /\ running THEN "stop" ELSE "poll")
  /\ staOn' = (staOn /\ wifi_on)
  /\ UNCHANGED <<status, tried, creds, ledVars, last, late, attempts, ppc,
                 stopRequested, history>>

\* provisioning_task.stop().
StopPortal ==
  /\ wpc = "stop"
  /\ wpc' = "poll"
  /\ stopRequested' = TRUE
  /\ UNCHANGED <<station, creds, ledVars, last, prev, late, attempts, ppc, history>>

\* Mutated: the counter is not reset when the failure is a new one.
AttemptsNowKept == attempts + 1

\* ++wifi_reconnect_attempts, or the reset when the failure is new.
AttemptsNow == IF prev = "connectFailed" THEN attempts + 1 ELSE 0

\* MAX_WIFI_RECONNECT_ATTEMPTS <= wifi_reconnect_attempts.
Exhausted == MaxAttempts <= AttemptsNow

\* dealWithWiFiConnectFailed; resetWiFi begins by switching the station off and
\* erasing what it was told to join.
HandleConnectFailed ==
  \/ /\ ~Exhausted
     /\ Handle("connectFailed", "poll")
     /\ attempts' = AttemptsNow
     /\ UNCHANGED <<station, creds, ledVars, last, late, ppc, stopRequested,
                    history>>
  \/ /\ Exhausted
     /\ Handle("connectFailed", "clear")
     /\ attempts' = 0
     /\ staOn' = FALSE /\ tried' = NoCreds
     /\ UNCHANGED <<status, creds, ledVars, last, late, ppc, stopRequested,
                    history>>

\* resetWiFi goes on: credentials.clear(), then startWiFi().
ClearCredentials ==
  /\ wpc = "clear"
  /\ wpc' = "check"
  /\ creds' = NoCreds
  /\ UNCHANGED <<station, ledVars, last, prev, late, attempts, ppc, stopRequested,
                 history>>

\* startProvisioningTask is done; dealWithWiFiDisconnected and
\* dealWithWiFiConnectionLost then take the time anew.
BackToPoll ==
  /\ wpc' = "poll"
  /\ late' = (late /\ last \notin {"disconnected", "lost"})

FindPortalRunningIf(answers) ==
  /\ wpc = "check" /\ TRUE \in answers
  /\ BackToPoll
  /\ UNCHANGED <<station, creds, ledVars, last, prev, attempts, ppc, stopRequested,
                 history>>

\* Mutated: isRunning() is not asked.
FindPortalStoppedAlways(answers) ==
  /\ wpc = "check"
  /\ wpc' = "create"
  /\ UNCHANGED <<station, creds, ledVars, last, prev, late, attempts, ppc,
                 stopRequested, history>>

FindPortalStoppedIf(answers) ==
  /\ wpc = "check" /\ FALSE \in answers
  /\ wpc' = "create"
  /\ UNCHANGED <<station, creds, ledVars, last, prev, late, attempts, ppc,
                 stopRequested, history>>

CreatePortal ==
  /\ wpc = "create"
  /\ BackToPoll
  /\ ppc' = "entry"
  /\ UNCHANGED <<station, creds, ledVars, last, prev, attempts, stopRequested,
                 history>>

\* No memory for the task.
CreateFails ==
  /\ wpc = "create"
  /\ BackToPoll
  /\ UNCHANGED <<station, creds, ledVars, last, prev, attempts, ppc, stopRequested,
                 history>>

\* What asks isRunning() on the portal's Task object.
AskPortalIf(answers) ==
  \/ HandleConnectedIf(answers)
  \/ FindPortalRunningIf(answers) \/ FindPortalStoppedIf(answers)

AskPortal == AskPortalIf(ProvIsRunning)

\* What neither asks the Task object of the portal nor changes it.
WifiAlone ==
  \/ Poll
  \/ HandleStopped \/ HandleIdle \/ HandleNoSsid \/ HandleScanCompleted
  \/ HandleDisconnected \/ HandleLost
  \/ HandleConnectFailed \/ ClearCredentials \/ CreateFails

WifiStep == WifiAlone \/ AskPortal \/ StopPortal \/ CreatePortal

\* DISCONNECTION_TIMEOUT_TICKS have gone by.
TimePasses ==
  /\ ~late /\ late' = TRUE
  /\ UNCHANGED <<station, creds, ledVars, wpc, last, prev, attempts, ppc,
                 stopRequested, history>>
-----------------------------------------------------------------------------
(* The provisioning task. *)

PStep(from, to) == ppc = from /\ ppc' = to

\* WiFi.disconnect(false, true); WiFi.mode(WIFI_AP_STA); the access point.
PortalPrologue ==
  /\ PStep("entry", "begin")
  /\ tried' = NoCreds /\ staOn' = TRUE
  /\ UNCHANGED <<status, creds, ledVars, wifiVars, stopRequested, history>>

\* With stored credentials WiFi.begin() tries them, without it scans; the web server is
\* up.
PortalBegin ==
  /\ PStep("begin", "test")
  /\ tried' = IF Has(creds) THEN creds ELSE tried
  /\ UNCHANGED <<staOn, status, creds, ledVars, wifiVars, stopRequested, history>>

PortalTest ==
  /\ PStep("test", IF stopRequested THEN "close" ELSE "serve")
  /\ UNCHANGED <<station, creds, ledVars, wifiVars, stopRequested, history>>

\* break, because WiFi is connected; otherwise the web server has its turn.
PortalRound ==
  /\ PStep("serve", IF Online THEN "close" ELSE "client")
  /\ UNCHANGED <<station, creds, ledVars, wifiVars, stopRequested, history>>

\* handleClient without a post, or with one without an SSID.
NoPost ==
  /\ PStep("client", "test")
  /\ UNCHANGED <<station, creds, ledVars, wifiVars, stopRequested, history>>

\* handleSave: the pair is saved.
Save(c) ==
  /\ PStep("client", "try")
  /\ posts < MaxPosts
  /\ creds' = c
  /\ posts' = posts + 1
  /\ UNCHANGED <<station, ledVars, wifiVars, stopRequested, polls, connectedOnce>>

\* handleSave: WiFi.begin(credentials.getSSID(), credentials.getPassword()).
TryCredentials ==
  /\ PStep("try", "wait")
  /\ tried' = creds /\ staOn' = TRUE
  /\ UNCHANGED <<status, creds, ledVars, wifiVars, stopRequested, history>>

\* Mutated: the result of the wait is not looked at.
AnswerPostAlways ==
  /\ PStep("wait", "selfStop")
  /\ UNCHANGED <<station, creds, ledVars, wifiVars, stopRequested, history>>

\* Mutated: the wait goes on while the status is WL_CONNECTED.
AnswerPostInverted ==
  /\ PStep("wait", "served")
  /\ ~Online
  /\ UNCHANGED <<station, creds, ledVars, wifiVars, stopRequested, history>>

\* handleSave waits for the connection, at most ten seconds; without one the
\* page is served again.
AnswerPost ==
  /\ PStep("wait", IF Online THEN "selfStop" ELSE "served")
  /\ UNCHANGED <<station, creds, ledVars, wifiVars, stopRequested, history>>

\* handleSave ends with stop().
PortalStopsItself ==
  /\ PStep("selfStop", "served")
  /\ stopRequested' = TRUE
  /\ UNCHANGED <<station, creds, ledVars, wifiVars, history>>

\* handleClient with a post is over, and so is the round.
PostServed ==
  /\ PStep("served", "test")
  /\ UNCHANGED <<station, creds, ledVars, wifiVars, stopRequested, history>>

\* softAPdisconnect and shutdown().
PortalCloses ==
  /\ PStep("close", "gone")
  /\ UNCHANGED <<station, creds, ledVars, wifiVars, stopRequested, history>>

\* What does not end a round, nor the run.
PortalAlone ==
  \/ PortalPrologue \/ PortalBegin \/ PortalTest \/ PortalRound
  \/ TryCredentials \/ AnswerPost

PortalStep ==
  \/ PortalAlone \/ NoPost \/ PostServed \/ PortalStopsItself \/ PortalCloses
-----------------------------------------------------------------------------
Next ==
  \/ StationStep \/ LedStep \/ WifiStep \/ TimePasses \/ PortalStep
  \/ \E c \in Networks : Save(c)

Spec == Init /\ [][Next]_vars

(***************************************************************************)
(* Every task sleeps for a bounded time between rounds and is run when it  *)
(* is ready; the driver does switch on and off; time passes; memory for    *)
(* the portal's task is found in the end, if it is asked for often enough. *)
(* Nothing is assumed of users or access points.                           *)
(***************************************************************************)
Fairness ==
  /\ WF_vars(LedPrologue) /\ WF_vars(StartWifiTask) /\ WF_vars(ShowStatus)
  /\ WF_vars(WifiStep) /\ SF_vars(CreatePortal)
  /\ WF_vars(PortalStep)
  /\ WF_vars(StationSwitches) /\ WF_vars(TimePasses)

FairSpec == Spec /\ Fairness
-----------------------------------------------------------------------------
LedPatterns == {"HEART_BEAT", "NEED_PROVISIONING", "WIFI_CONNECTION",
                "NO_WIFI_ERROR", "IDLE"}

TypeOK ==
  /\ staOn \in BOOLEAN /\ status \in Statuses /\ tried \in Networks \cup {NoCreds}
  /\ creds \in Networks \cup {NoCreds}
  /\ wifi_on \in BOOLEAN /\ ledPc \in {"prologue", "loop"}
  /\ pattern \in LedPatterns
  /\ wpc \in {"none", "poll", "handle", "stop", "clear", "check", "create"}
  /\ last \in Statuses /\ prev \in Statuses
  /\ late \in BOOLEAN /\ attempts \in 0 .. MaxAttempts - 1
  /\ ppc \in {"none", "entry", "begin", "test", "serve", "client", "try", "wait",
              "selfStop", "served", "close", "gone"}
  /\ stopRequested \in BOOLEAN
  /\ posts \in 0 .. MaxPosts /\ polls \in 0 .. MaxAttempts + 1
  /\ connectedOnce \in BOOLEAN

\* Credentials are given up only when the last MaxAttempts + 1 polls have all read
\* WL_CONNECT_FAILED, however the status came and went before.
ErasedAfterPolls == wpc = "clear" => polls = MaxAttempts + 1

\* Until the device has been on line once, a portal that is up stays up:
\* neither task closes it before a user could have succeeded.
PortalOpenUntilConnected == ppc \in {"close", "gone"} \/ stopRequested => connectedOnce

\* Why the two hold: wifi_reconnect_attempts never runs ahead of the polls that
\* have read a failure, and whoever is about to close the portal has seen
\* WL_CONNECTED.
CounterInv ==
  last = "connectFailed" =>
    /\ polls > 0
    /\ wpc # "handle" => polls > attempts
    /\ wpc = "handle" /\ prev = "connectFailed" => polls > attempts + 1

CloseInv ==
  /\ Online \/ last = "connected" \/ wpc = "stop" => connectedOnce
  /\ ppc \in {"selfStop", "close", "gone"} \/ stopRequested => connectedOnce

IndInv == TypeOK /\ CounterInv /\ ErasedAfterPolls /\ CloseInv

\* A portal comes up after boot, whatever attempts to create its task fail.
PortalComesUp == <>(ppc = "client" \/ connectedOnce)

\* Once the device is on line for good the portal is gone for good.
ConnectedClosesPortal == <>[]Online => <>[](ppc \in {"none", "gone"})

\* What each pattern tells the user: WIFI.hpp:142-146 of the status it stands for.
Tells(p) ==
  LET Connecting == status \in {"scanDone", "connectFailed", "lost", "disconnected"} IN
  CASE p = "HEART_BEAT" -> Online
    [] p = "IDLE" -> status = "idle"
    [] p = "NO_WIFI_ERROR" -> status = "noSsid"
    [] p = "NEED_PROVISIONING" -> Connecting /\ ~Has(creds)
    [] p = "WIFI_CONNECTION" -> status = "stopped" \/ (Connecting /\ Has(creds))

\* What lasts is what the LED shows, though the status it is read from, within that, and
\* the credentials may go on changing under the LED task's polls.
LedShowsStatus ==
  \A p \in LedPatterns : <>[]Tells(p) => <>[](pattern = p)

\* WIFI.hpp:151 "Enable or disable Wifi": after setWifiOn(true) the station does
\* not stay off.
OffIsRecovered == (wifi_on /\ status = "stopped") ~> (status # "stopped")

\* WIFI.cpp:230 "Restarting Provisioning in case User wants to change to different
\* SSID": a portal that is started again serves its page, unless the device gets on
\* line first.
PortalServesAgain == ppc = "entry" ~> (ppc = "client" \/ Online)
=============================================================================
