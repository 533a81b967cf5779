-------------------------- MODULE CredentialStore --------------------------
(***************************************************************************)
(* glob::Credentials (lib/Globals/Credentials.cpp): the SSID and password  *)
(* in memory and in flash, with the tasks that write them:                 *)
(*                                                                         *)
(*  - the provisioning task saves what a user has posted and then reads    *)
(*    the pair back for WiFi.begin (handleSave); it also reads the pair    *)
(*    when it starts;                                                      *)
(*  - the WiFi task clears the pair (resetWiFi).                           *)
(*                                                                         *)
(* Both have the same priority and take no lock; a step is one access to a *)
(* string or to `prefs`.  clear() writes the empty string where save()     *)
(* writes the new one: a key that was removed reads as the empty string.   *)
(* The device may lose power between any two steps.                        *)
(*                                                                         *)
(* prefs (Arduino's Preferences over NVS) is external: begin() does        *)
(* nothing when the namespace is open, a write is committed at once, and   *)
(* ignored when the namespace is closed.                                   *)
(*                                                                         *)
(* Two accesses to one String at the same moment, which are undefined, are *)
(* not modelled; the properties about the strings claim nothing of calls   *)
(* that overlap.                                                           *)
(***************************************************************************)
EXTENDS Naturals

CONSTANTS
  Names, Passwords,  \* what a user may post, other than nothing
  Empty,             \* the empty string
  MaxCalls,          \* bound: calls of save() and clear()
  MaxRestarts        \* bound: restarts

ASSUME StoreAssumption ==
  /\ Empty \notin Names /\ Empty \notin Passwords
  /\ MaxCalls \in Nat /\ MaxRestarts \in Nat

VARIABLES
  mem, flash,        \* the members ssid and password; the two keys of "wifi"
  loaded,            \* getInstance() has constructed the object since the start
  started,           \* the namespace of prefs is open
  pc,                \* where each task is in its call
  new,               \* arguments of save()
  tried,             \* arguments of WiFi.begin
  saved, alone, marred, calls, restarts  \* history

history == <<saved, alone, marred, calls, restarts>>
vars == <<mem, flash, loaded, started, pc, new, tried, history>>

Tasks == {"portal", "wifi"}
Other(t) == IF t = "portal" THEN "wifi" ELSE "portal"
Pairs == [ssid : Names \cup {Empty}, password : Passwords \cup {Empty}]
NoPair == [ssid |-> Empty, password |-> Empty]

\* hasCredentials, of a pair.
Has(pair) == pair.ssid # Empty /\ pair.password # Empty

\* What the call of task t is to leave in memory and in flash.
Target(t) == IF t = "portal" THEN new ELSE NoPair
-----------------------------------------------------------------------------
Init ==
  /\ mem = NoPair /\ flash = NoPair
  /\ loaded = FALSE /\ started = FALSE
  /\ pc = [t \in Tasks |-> "idle"]
  /\ new = NoPair /\ tried = NoPair
  /\ saved = {} /\ alone = TRUE /\ marred = FALSE /\ calls = 0 /\ restarts = 0

\* The constructor, when getInstance() is first called; other callers wait for it.
Load ==
  /\ ~loaded
  /\ loaded' = TRUE
  /\ mem' = flash
  /\ UNCHANGED <<flash, started, pc, new, tried, history>>

\* Power is lost.  An old password is left beside a new SSID if save() was
\* between its two writes.
Restart ==
  /\ restarts < MaxRestarts
  /\ restarts' = restarts + 1
  /\ mem' = NoPair /\ loaded' = FALSE /\ started' = FALSE
  /\ pc' = [t \in Tasks |-> "idle"]
  /\ new' = NoPair /\ tried' = NoPair
  /\ marred' = (marred \/ (pc["portal"] = "put2" /\ flash.password \notin {Empty, new.password}))
  /\ UNCHANGED <<flash, saved, alone, calls>>

Goto(t, from, to) == pc[t] = from /\ pc' = [pc EXCEPT ![t] = to]

\* A call begins; from now on calls overlap, or this one is alone.
Enter(t, to) ==
  /\ loaded
  /\ Goto(t, "idle", to)
  /\ alone' = (pc[Other(t)] = "idle")
  /\ marred' = (marred \/ ~alone')

\* credentials.save(ssid, password) in handleSave, which refuses an empty SSID.
Save(pair) ==
  /\ calls < MaxCalls
  /\ Enter("portal", "ssid")
  /\ pair.ssid # Empty
  /\ new' = pair
  /\ saved' = saved \cup {pair}
  /\ calls' = calls + 1
  /\ UNCHANGED <<mem, flash, loaded, started, tried, restarts>>

\* credentials.clear() in resetWiFi.
Clear ==
  /\ calls < MaxCalls
  /\ Enter("wifi", "ssid")
  /\ calls' = calls + 1
  /\ UNCHANGED <<mem, flash, loaded, started, new, tried, saved, restarts>>

\* provisioningTask: hadCredentials, so the stored pair is tried.
TryStored ==
  /\ Has(mem)
  /\ Enter("portal", "get1")
  /\ UNCHANGED <<mem, flash, loaded, started, new, tried, saved, calls, restarts>>
-----------------------------------------------------------------------------
(* save() and clear(), statement by statement. *)

SetSsid(t) ==
  /\ Goto(t, "ssid", "password")
  /\ mem' = [mem EXCEPT !.ssid = Target(t).ssid]
  /\ UNCHANGED <<flash, loaded, started, new, tried, history>>

\* Mutated: an empty password is not stored.
SetPasswordIfGiven(t) ==
  /\ Goto(t, "password", "begin")
  /\ mem' = IF t = "portal" /\ new.password = Empty THEN mem
            ELSE [mem EXCEPT !.password = Target(t).password]
  /\ UNCHANGED <<flash, loaded, started, new, tried, history>>

SetPassword(t) ==
  /\ Goto(t, "password", "begin")
  /\ mem' = [mem EXCEPT !.password = Target(t).password]
  /\ UNCHANGED <<flash, loaded, started, new, tried, history>>

PrefsBegin(t) ==
  /\ Goto(t, "begin", "put1")
  /\ started' = TRUE
  /\ UNCHANGED <<mem, flash, loaded, new, tried, history>>

\* putString writes the member, not the argument; remove() needs neither.
Stores(t) == IF t = "portal" THEN mem ELSE NoPair

\* Mutated: the password is written first.
PutSsidSecond(t) ==
  /\ Goto(t, "put1", "put2")
  /\ flash' = IF started THEN [flash EXCEPT !.password = Stores(t).password] ELSE flash
  /\ UNCHANGED <<mem, loaded, started, new, tried, history>>

PutSsid(t) ==
  /\ Goto(t, "put1", "put2")
  /\ flash' = IF started THEN [flash EXCEPT !.ssid = Stores(t).ssid] ELSE flash
  /\ UNCHANGED <<mem, loaded, started, new, tried, history>>

PutPassword(t) ==
  /\ Goto(t, "put2", "end")
  /\ flash' = IF started THEN [flash EXCEPT !.password = Stores(t).password] ELSE flash
  /\ UNCHANGED <<mem, loaded, started, new, tried, history>>

\* Mutated: clear() leaves the namespace open.
PrefsEndOfSaveOnly(t) ==
  /\ Goto(t, "end", IF t = "portal" THEN "get1" ELSE "idle")
  /\ started' = (started /\ t = "wifi")
  /\ marred' = (marred /\ ~alone)
  /\ UNCHANGED <<mem, flash, loaded, new, tried, saved, alone, calls, restarts>>

\* prefs.end().  A call that was alone has set everything right.
PrefsEnd(t) ==
  /\ Goto(t, "end", IF t = "portal" THEN "get1" ELSE "idle")
  /\ started' = FALSE
  /\ marred' = (marred /\ ~alone)
  /\ UNCHANGED <<mem, flash, loaded, new, tried, saved, alone, calls, restarts>>

\* WiFi.begin(credentials.getSSID(), credentials.getPassword()).
GetSsid ==
  /\ Goto("portal", "get1", "get2")
  /\ tried' = [tried EXCEPT !.ssid = mem.ssid]
  /\ UNCHANGED <<mem, flash, loaded, started, new, history>>

GetPassword ==
  /\ Goto("portal", "get2", "idle")
  /\ tried' = [tried EXCEPT !.password = mem.password]
  /\ UNCHANGED <<mem, flash, loaded, started, new, history>>

CallStep(t) ==
  \/ SetSsid(t) \/ SetPassword(t)
  \/ PrefsBegin(t) \/ PutSsid(t) \/ PutPassword(t) \/ PrefsEnd(t)

Next ==
  \/ Load \/ Restart
  \/ \E pair \in Pairs : Save(pair)
  \/ Clear \/ TryStored
  \/ \E t \in Tasks : CallStep(t)
  \/ GetSsid \/ GetPassword

Spec == Init /\ [][Next]_vars
-----------------------------------------------------------------------------
Steps == {"idle", "ssid", "password", "begin", "put1", "put2", "end", "get1", "get2"}

TypeOK ==
  /\ mem \in Pairs /\ flash \in Pairs /\ new \in Pairs /\ tried \in Pairs
  /\ loaded \in BOOLEAN /\ started \in BOOLEAN /\ alone \in BOOLEAN /\ marred \in BOOLEAN
  /\ pc \in [Tasks -> Steps] /\ pc["wifi"] \notin {"get1", "get2"}
  /\ saved \subseteq Pairs
  /\ calls \in Nat /\ restarts \in Nat

Idle == \A t \in Tasks : pc[t] = "idle"

\* A pair that counts as credentials was posted as a pair.
Whole(pair) == Has(pair) => pair \in saved

\* Memory is not half written.
Settled == \A t \in Tasks : pc[t] # "password"

\* Credentials.hpp:43 "Check if valid credentials are available": what
\* hasCredentials() finds, after any sequence of calls and restarts, is an SSID and
\* a password that were posted together.
ValidIfAvailable == loaded /\ Settled => Whole(mem)

\* The same, unless calls overlapped, or power was lost between the two writes of a
\* save() that replaces a password, and no call has run alone since.  A restart at any
\* other step of save() or clear() leaves the old pair, the new one or none.
ValidUnlessMarred == ~marred => ValidIfAvailable

\* What the device uses is what it will find after a restart, under the same condition.
FlashIsMemory == ~marred /\ loaded /\ Idle => flash = mem

\* A pair that is saved and then tried by one call is the pair that was posted.
TriesWhatWasPosted == [][GetPassword /\ ~marred => tried' \in saved]_vars

\* The namespace is closed when nobody is inside it, however calls overlap and
\* wherever power was lost: the next begin() opens it.
ClosedWhenIdle == started => \E t \in Tasks : pc[t] \in {"put1", "put2", "end"}
-----------------------------------------------------------------------------
(* The strings implement whole pairs (module PairStore).  A pair changes in *)
(* memory with its password and in flash with its SSID, except that a save  *)
(* where no password was has nothing to keep until its own is there.        *)

View(pair) == IF Has(pair) THEN pair ELSE NoPair

Writing(t) == pc[t] \notin {"idle", "get1", "get2"}

InMemory == IF loaded /\ Settled THEN View(mem) ELSE View(flash)
InFlash == IF pc["portal"] = "put2" /\ Has(flash) THEN View(mem) ELSE View(flash)
Wanted ==
  CASE alone /\ Writing("portal") -> View(new)
    [] alone /\ Writing("wifi") -> NoPair
    [] OTHER -> InMemory
Told == IF pc["portal"] = "get2" THEN View(mem) ELSE View(tried)

P == INSTANCE PairStore WITH
  Credentials <- {pair \in Pairs : Has(pair)}, NoCreds <- NoPair,
  wanted <- Wanted, creds <- InMemory, kept <- InFlash, tried <- Told, sound <- ~marred

\* Credentials.hpp:64 "updates the stored SSID and password in the preferences and
\* updates the internal state": whatever is cut short or runs at the same time, the
\* two strings are used, kept, tried and brought back by a restart as one pair, until
\* calls overlap or power is lost in the middle of a pair, and again afterwards.
WholePairs == P!Spec
=============================================================================
