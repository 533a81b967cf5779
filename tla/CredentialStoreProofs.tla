----------------------- MODULE CredentialStoreProofs -----------------------
(***************************************************************************)
(* Proofs about CredentialStore, for any sets of names and passwords and   *)
(* any number of calls and restarts.                                       *)
(*                                                                         *)
(* The properties speak of moments when nothing is marred; to hold again   *)
(* after a call that ran alone they need to know how far that call has     *)
(* come, marred or not: Progress.                                          *)
(***************************************************************************)
EXTENDS CredentialStore, TLAPS

Busy(t) == pc[t] # "idle"
At(t, steps) == pc[t] \in steps

\* Who overlaps is not alone, and what is not alone is marred.
Overlaps ==
  /\ Busy("portal") /\ Busy("wifi") => ~alone
  /\ \A t \in Tasks : Busy(t) /\ ~alone => marred

\* How far a call that runs alone has come.
Progress(t) ==
  /\ At(t, {"password"}) => mem.ssid = Target(t).ssid
  /\ At(t, {"begin", "put1", "put2", "end"}) => mem = Target(t)
  /\ At(t, {"put2", "end"}) => flash.ssid = Target(t).ssid
  /\ At(t, {"end"}) => flash = Target(t)
  /\ At(t, {"put1", "put2", "end"}) => started

Progresses == alone => \A t \in Tasks : Progress(t)

\* The pair in flash is whole, except between the two writes of save().
FlashWhole == ~marred /\ ~At("portal", {"put2"}) => Whole(flash)

\* Outside the writes memory and flash agree, and what is about to be tried was posted.
Agreed ==
  ~marred /\ loaded =>
    /\ (\A t \in Tasks : At(t, {"idle", "ssid", "get1", "get2"})) => mem = flash
    /\ At("portal", {"get1", "get2"}) => mem \in saved
    /\ At("portal", {"get2"}) => tried.ssid = mem.ssid

\* Nobody is in a call before the object is there, and save() stores what was posted.
Calls ==
  /\ ~loaded => Idle
  /\ At("portal", {"ssid", "password", "begin", "put1", "put2", "end"}) => new \in saved

IndInv ==
  /\ TypeOK
  /\ Calls
  /\ Overlaps
  /\ Progresses
  /\ FlashWhole
  /\ Agreed
  /\ ValidUnlessMarred
  /\ ClosedWhenIdle
-----------------------------------------------------------------------------
Booleans == loaded \in BOOLEAN /\ started \in BOOLEAN /\ alone \in BOOLEAN /\ marred \in BOOLEAN

LEMMA BooleansOK == TypeOK => Booleans
BY Zenon DEF TypeOK, Booleans

\* The truth values stay truth values.
LEMMA BooleansKept == TypeOK /\ Next => Booleans'
<1> SUFFICES ASSUME TypeOK, Next PROVE Booleans'
  OBVIOUS
<1>1. Booleans
  BY BooleansOK
<1> USE <1>1 DEF Booleans, history
<1>2. CASE Load
  BY <1>2, Zenon DEF Load
<1>3. CASE Restart
  BY <1>3, Zenon DEF Restart
<1>4. CASE \E pair \in Pairs : Save(pair)
  BY <1>4, Zenon DEF Save, Enter
<1>5. CASE Clear
  BY <1>5, Zenon DEF Clear, Enter
<1>6. CASE TryStored
  BY <1>6, Zenon DEF TryStored, Enter
<1>7. CASE \E t \in Tasks : CallStep(t)
  BY <1>7, Zenon DEF CallStep, SetSsid, SetPassword, PrefsBegin, PutSsid, PutPassword, PrefsEnd
<1>8. CASE GetSsid
  BY <1>8, Zenon DEF GetSsid
<1>9. CASE GetPassword
  BY <1>9, Zenon DEF GetPassword
<1> QED BY <1>2, <1>3, <1>4, <1>5, <1>6, <1>7, <1>8, <1>9 DEF Next

\* Pairs, field by field.
LEMMA PairFields ==
  ASSUME NEW p \in Pairs
  PROVE  p.ssid \in Names \cup {Empty} /\ p.password \in Passwords \cup {Empty}
BY DEF Pairs

LEMMA PairsEqual ==
  ASSUME NEW p \in Pairs, NEW q \in Pairs, p.ssid = q.ssid, p.password = q.password
  PROVE  p = q
BY DEF Pairs

LEMMA SetsSsid ==
  ASSUME NEW p \in Pairs, NEW q \in Pairs
  PROVE  LET r == [p EXCEPT !.ssid = q.ssid] IN
         r \in Pairs /\ r.ssid = q.ssid /\ r.password = p.password
<1>1. q.ssid \in Names \cup {Empty}
  BY PairFields
<1> QED BY <1>1 DEF Pairs

LEMMA SetsPassword ==
  ASSUME NEW p \in Pairs, NEW q \in Pairs
  PROVE  LET r == [p EXCEPT !.password = q.password] IN
         r \in Pairs /\ r.password = q.password /\ r.ssid = p.ssid
<1>1. q.password \in Passwords \cup {Empty}
  BY PairFields
<1> QED BY <1>1 DEF Pairs

LEMMA NoPairIsPair == NoPair \in Pairs /\ NoPair.ssid = Empty /\ NoPair.password = Empty /\ ~Has(NoPair)
BY DEF NoPair, Pairs, Has

LEMMA TargetIsPair == TypeOK => \A t \in Tasks : Target(t) \in Pairs /\ Stores(t) \in Pairs
BY NoPairIsPair DEF Target, Stores, TypeOK

\* What the steps that write half a pair do to it.
LEMMA HalfWrites ==
  ASSUME TypeOK, NEW t \in Tasks
  PROVE  /\ SetSsid(t) =>
              mem' \in Pairs /\ mem'.ssid = Target(t).ssid /\ mem'.password = mem.password
         /\ SetPassword(t) =>
              mem' \in Pairs /\ mem'.password = Target(t).password /\ mem'.ssid = mem.ssid
         /\ PutSsid(t) =>
              /\ flash' \in Pairs /\ flash'.password = flash.password
              /\ started => flash'.ssid = Stores(t).ssid
         /\ PutPassword(t) =>
              /\ flash' \in Pairs /\ flash'.ssid = flash.ssid
              /\ started => flash'.password = Stores(t).password
         /\ GetSsid =>
              tried' \in Pairs /\ tried'.ssid = mem.ssid /\ tried'.password = tried.password
         /\ GetPassword =>
              tried' \in Pairs /\ tried'.password = mem.password /\ tried'.ssid = tried.ssid
<1>1. mem \in Pairs /\ flash \in Pairs /\ tried \in Pairs
  BY Zenon DEF TypeOK
<1>2. Target(t) \in Pairs /\ Stores(t) \in Pairs
  BY TargetIsPair
<1>3. SetSsid(t) =>
        mem' \in Pairs /\ mem'.ssid = Target(t).ssid /\ mem'.password = mem.password
  <2>1. /\ [mem EXCEPT !.ssid = Target(t).ssid] \in Pairs
        /\ [mem EXCEPT !.ssid = Target(t).ssid].ssid = Target(t).ssid
        /\ [mem EXCEPT !.ssid = Target(t).ssid].password = mem.password
    BY <1>1, <1>2, SetsSsid
  <2>2. SetSsid(t) => mem' = [mem EXCEPT !.ssid = Target(t).ssid]
    BY Zenon DEF SetSsid
  <2> QED BY <1>1, <2>1, <2>2, Zenon
<1>4. SetPassword(t) =>
        mem' \in Pairs /\ mem'.password = Target(t).password /\ mem'.ssid = mem.ssid
  <2>1. /\ [mem EXCEPT !.password = Target(t).password] \in Pairs
        /\ [mem EXCEPT !.password = Target(t).password].password = Target(t).password
        /\ [mem EXCEPT !.password = Target(t).password].ssid = mem.ssid
    BY <1>1, <1>2, SetsPassword
  <2>2. SetPassword(t) => mem' = [mem EXCEPT !.password = Target(t).password]
    BY Zenon DEF SetPassword
  <2> QED BY <1>1, <2>1, <2>2, Zenon
<1>5. PutSsid(t) =>
        /\ flash' \in Pairs /\ flash'.password = flash.password
        /\ started => flash'.ssid = Stores(t).ssid
  <2>1. /\ [flash EXCEPT !.ssid = Stores(t).ssid] \in Pairs
        /\ [flash EXCEPT !.ssid = Stores(t).ssid].ssid = Stores(t).ssid
        /\ [flash EXCEPT !.ssid = Stores(t).ssid].password = flash.password
    BY <1>1, <1>2, SetsSsid
  <2>2. PutSsid(t) => flash' = IF started THEN [flash EXCEPT !.ssid = Stores(t).ssid] ELSE flash
    BY Zenon DEF PutSsid
  <2> QED BY <1>1, <2>1, <2>2, Zenon
<1>6. PutPassword(t) =>
        /\ flash' \in Pairs /\ flash'.ssid = flash.ssid
        /\ started => flash'.password = Stores(t).password
  <2>1. /\ [flash EXCEPT !.password = Stores(t).password] \in Pairs
        /\ [flash EXCEPT !.password = Stores(t).password].password = Stores(t).password
        /\ [flash EXCEPT !.password = Stores(t).password].ssid = flash.ssid
    BY <1>1, <1>2, SetsPassword
  <2>2. PutPassword(t) => flash' = IF started THEN [flash EXCEPT !.password = Stores(t).password] ELSE flash
    BY Zenon DEF PutPassword
  <2> QED BY <1>1, <2>1, <2>2, Zenon
<1>7. GetSsid => tried' \in Pairs /\ tried'.ssid = mem.ssid /\ tried'.password = tried.password
  <2>1. /\ [tried EXCEPT !.ssid = mem.ssid] \in Pairs
        /\ [tried EXCEPT !.ssid = mem.ssid].ssid = mem.ssid
        /\ [tried EXCEPT !.ssid = mem.ssid].password = tried.password
    BY <1>1, SetsSsid
  <2>2. GetSsid => tried' = [tried EXCEPT !.ssid = mem.ssid]
    BY Zenon DEF GetSsid
  <2> QED BY <2>1, <2>2, Zenon
<1>8. GetPassword => tried' \in Pairs /\ tried'.password = mem.password /\ tried'.ssid = tried.ssid
  <2>1. /\ [tried EXCEPT !.password = mem.password] \in Pairs
        /\ [tried EXCEPT !.password = mem.password].password = mem.password
        /\ [tried EXCEPT !.password = mem.password].ssid = tried.ssid
    BY <1>1, SetsPassword
  <2>2. GetPassword => tried' = [tried EXCEPT !.password = mem.password]
    BY Zenon DEF GetPassword
  <2> QED BY <2>1, <2>2, Zenon
<1> QED BY <1>3, <1>4, <1>5, <1>6, <1>7, <1>8, Zenon

LEMMA TypeInit == Init => TypeOK
<1> SUFFICES ASSUME Init PROVE TypeOK
  OBVIOUS
<1>1. Booleans
  BY Zenon DEF Init, Booleans
<1>2. /\ mem \in Pairs /\ flash \in Pairs /\ new \in Pairs /\ tried \in Pairs
      /\ pc \in [Tasks -> Steps] /\ pc["wifi"] \notin {"get1", "get2"}
      /\ saved \subseteq Pairs /\ calls \in Nat /\ restarts \in Nat
  BY DEF Init, Pairs, NoPair, Steps, Tasks
<1> QED BY <1>1, <1>2, Zenon DEF TypeOK, Booleans

\* The rest of the type, action by action.
LEMMA TypeKept == TypeOK /\ [Next]_vars => TypeOK'
<1> SUFFICES ASSUME TypeOK, [Next]_vars PROVE TypeOK'
  OBVIOUS
<1> DEFINE Rest ==
      /\ mem \in Pairs /\ flash \in Pairs /\ new \in Pairs /\ tried \in Pairs
      /\ pc \in [Tasks -> Steps] /\ pc["wifi"] \notin {"get1", "get2"}
      /\ saved \subseteq Pairs /\ calls \in Nat /\ restarts \in Nat
<1>1. Rest
  BY Zenon DEF TypeOK
<1> HIDE DEF Rest
<1> USE NoPairIsPair DEF Rest, Steps, Other, Goto, Enter, history
<1>2. ASSUME Load PROVE Rest'
  BY <1>1, <1>2 DEF Load
<1>3. ASSUME Restart PROVE Rest'
  BY <1>1, <1>3 DEF Restart, Tasks
<1>4. ASSUME NEW pair \in Pairs, Save(pair) PROVE Rest'
  BY <1>1, <1>4 DEF Save, Tasks
<1>5. ASSUME Clear PROVE Rest'
  BY <1>1, <1>5 DEF Clear, Tasks
<1>6. ASSUME TryStored PROVE Rest'
  BY <1>1, <1>6 DEF TryStored, Tasks
<1>7. ASSUME NEW t \in Tasks, CallStep(t) PROVE Rest'
  <2>1. CASE SetSsid(t)
    BY <1>1, <2>1, HalfWrites DEF SetSsid, Tasks
  <2>2. CASE SetPassword(t)
    BY <1>1, <2>2, HalfWrites DEF SetPassword, Tasks
  <2>3. CASE PrefsBegin(t)
    BY <1>1, <2>3 DEF PrefsBegin, Tasks
  <2>4. CASE PutSsid(t)
    BY <1>1, <2>4, HalfWrites DEF PutSsid, Tasks
  <2>5. CASE PutPassword(t)
    BY <1>1, <2>5, HalfWrites DEF PutPassword, Tasks
  <2>6. CASE PrefsEnd(t)
    BY <1>1, <2>6 DEF PrefsEnd, Tasks
  <2> QED BY <1>7, <2>1, <2>2, <2>3, <2>4, <2>5, <2>6 DEF CallStep
<1>8. ASSUME GetSsid PROVE Rest'
  BY <1>1, <1>8, HalfWrites DEF GetSsid, Tasks
<1>9. ASSUME GetPassword PROVE Rest'
  BY <1>1, <1>9, HalfWrites DEF GetPassword, Tasks
<1>10. CASE UNCHANGED vars
  BY <1>10, Zenon DEF vars, TypeOK
<1>11. CASE Next
  <2>1. Rest'
    <3> HIDE DEF Rest
    <3> QED BY <1>2, <1>3, <1>4, <1>5, <1>6, <1>7, <1>8, <1>9, <1>11, Zenon DEF Next
  <2> QED BY <2>1, <1>11, BooleansKept, Zenon DEF TypeOK, Booleans, Rest
<1> QED BY <1>10, <1>11
-----------------------------------------------------------------------------
Rest == Calls /\ Overlaps /\ Progresses /\ FlashWhole /\ Agreed /\ ValidUnlessMarred /\ ClosedWhenIdle

LEMMA InitInd == Init => IndInv
<1> SUFFICES ASSUME Init PROVE IndInv
  OBVIOUS
<1>1. Rest
  BY NoPairIsPair DEF Init, Rest, Calls, Overlaps, Progresses, Progress, FlashWhole, Agreed,
     ValidUnlessMarred, ValidIfAvailable, ClosedWhenIdle, Idle, Whole, Has, Busy, At, Tasks
<1> QED BY <1>1, TypeInit DEF IndInv, Rest

\* Every step keeps the invariant.  Between calls nothing is written; the steps of a
\* call matter while it is alone, when what Progress says leads to the next step.
LEMMA StepKeeps == IndInv /\ Next => Rest'
<1> USE NoPairIsPair DEF IndInv, TypeOK, Rest, Calls, Overlaps, Progresses, Progress, FlashWhole,
        Agreed, ValidUnlessMarred, ValidIfAvailable, ClosedWhenIdle, Idle, Settled, Whole, Has,
        Busy, At, Tasks, Other, Steps, Goto, Enter, history
<1>1. ASSUME IndInv, Load PROVE Rest'
  BY <1>1 DEF Load
<1>2. ASSUME IndInv, Restart PROVE Rest'
  <2>1. CASE At("portal", {"put2"})
    <3>1. ~marred' => flash.password = Empty \/ flash = new
      BY <1>2, <2>1, PairsEqual DEF Restart, Target
    <3>2. ~marred' => Whole(flash)
      BY <2>1, <3>1, <1>2 DEF Restart
    <3> QED BY <1>2, <3>2 DEF Restart
  <2>2. CASE ~At("portal", {"put2"})
    BY <1>2, <2>2 DEF Restart
  <2> QED BY <2>1, <2>2
<1>3. ASSUME IndInv, NEW pair \in Pairs, Save(pair) PROVE Rest'
  BY <1>3 DEF Save
<1>4. ASSUME IndInv, Clear PROVE Rest'
  BY <1>4 DEF Clear
<1>5. ASSUME IndInv, TryStored PROVE Rest'
  BY <1>5 DEF TryStored
<1>6. ASSUME IndInv, NEW t \in Tasks, CallStep(t) PROVE Rest'
  <2>1. CASE SetSsid(t)
    BY <1>6, <2>1, HalfWrites DEF SetSsid, Target
  <2>2. CASE SetPassword(t)
    <3>1. mem'.password = Target(t).password /\ mem'.ssid = mem.ssid /\ mem' \in Pairs
      BY <1>6, <2>2, HalfWrites
    <3>2. alone => mem' = Target(t)
      BY <1>6, <2>2, <3>1, PairsEqual, TargetIsPair DEF SetPassword
    <3> QED BY <1>6, <2>2, <3>2 DEF SetPassword, Target
  <2>3. CASE PrefsBegin(t)
    BY <1>6, <2>3 DEF PrefsBegin, Target
  <2>4. CASE PutSsid(t)
    BY <1>6, <2>4, HalfWrites DEF PutSsid, Target, Stores
  <2>5. CASE PutPassword(t)
    <3>1. alone => Stores(t) = Target(t) /\ started /\ flash.ssid = Target(t).ssid
      BY <1>6, <2>5 DEF PutPassword, Stores, Target
    <3>2. flash' \in Pairs /\ flash'.ssid = flash.ssid /\ (started => flash'.password = Stores(t).password)
      BY <1>6, <2>5, HalfWrites
    <3>3. Target(t) \in Pairs
      BY <1>6, TargetIsPair
    <3>4. alone => flash' = Target(t)
      BY <3>1, <3>2, <3>3, PairsEqual
    <3> QED BY <1>6, <2>5, <3>4 DEF PutPassword, Target
  <2>6. CASE PrefsEnd(t)
    BY <1>6, <2>6 DEF PrefsEnd, Target
  <2> QED BY <1>6, <2>1, <2>2, <2>3, <2>4, <2>5, <2>6 DEF CallStep
<1>7. ASSUME IndInv, GetSsid PROVE Rest'
  BY <1>7, HalfWrites DEF GetSsid
<1>8. ASSUME IndInv, GetPassword PROVE Rest'
  BY <1>8, HalfWrites DEF GetPassword
<1> HIDE DEF IndInv, Rest
<1> QED BY <1>1, <1>2, <1>3, <1>4, <1>5, <1>6, <1>7, <1>8, Zenon DEF Next

LEMMA NextInd == IndInv /\ [Next]_vars => IndInv'
<1> SUFFICES ASSUME IndInv, [Next]_vars PROVE IndInv'
  OBVIOUS
<1>1. TypeOK'
  BY TypeKept DEF IndInv
<1>2. Rest'
  <2>1. CASE Next
    BY <2>1, StepKeeps
  <2>2. CASE UNCHANGED vars
    <3>1. (Calls /\ Overlaps)'
      BY <2>2 DEF vars, history, IndInv, Calls, Overlaps, Idle, Busy, At
    <3>2. Progresses'
      BY <2>2 DEF vars, history, IndInv, Progresses, Progress, At, Target
    <3>3. (FlashWhole /\ Agreed)'
      BY <2>2 DEF vars, history, IndInv, FlashWhole, Agreed, Whole, At
    <3>4. (ValidUnlessMarred /\ ClosedWhenIdle)'
      BY <2>2 DEF vars, history, IndInv, ValidUnlessMarred, ValidIfAvailable, Settled, Whole, ClosedWhenIdle
    <3> QED BY <3>1, <3>2, <3>3, <3>4 DEF Rest
  <2> QED BY <2>1, <2>2
<1> QED BY <1>1, <1>2 DEF IndInv, Rest

\* The store keeps the invariant that the theorems below rest on.
THEOREM Inductive == Spec => []IndInv
BY InitInd, NextInd, PTL DEF Spec

\* Every variable of the store keeps its type.
THEOREM TypeCorrect == Spec => []TypeOK
<1>1. IndInv => TypeOK
  BY DEF IndInv
<1> QED BY <1>1, Inductive, PTL

\* What counts as credentials was posted as a pair, unless calls overlapped or power
\* was lost between the two writes of a save() over an old password (Credentials.cpp:34).
THEOREM CredentialsValid == Spec => []ValidUnlessMarred
<1>1. IndInv => ValidUnlessMarred
  BY DEF IndInv
<1> QED BY <1>1, Inductive, PTL

\* What the device uses between calls is what it would load after a restart.
THEOREM FlashAgrees == Spec => []FlashIsMemory
<1>1. IndInv => FlashIsMemory
  BY DEF IndInv, FlashIsMemory, Agreed, Idle, At
<1> QED BY <1>1, Inductive, PTL

\* prefs is never left open, whatever overlaps and wherever power is lost.
THEOREM PrefsClosed == Spec => []ClosedWhenIdle
<1>1. IndInv => ClosedWhenIdle
  BY DEF IndInv
<1> QED BY <1>1, Inductive, PTL

\* WiFi.begin is given a pair that was posted (WiFiProvisioning.cpp:243).
THEOREM TriesPosted == Spec => TriesWhatWasPosted
<1>1. IndInv /\ [Next]_vars => [GetPassword /\ ~marred => tried' \in saved]_vars
  <2> SUFFICES ASSUME IndInv, GetPassword, ~marred PROVE tried' \in saved
    BY DEF vars
  <2>1. mem \in saved /\ tried.ssid = mem.ssid /\ mem \in Pairs /\ tried \in Pairs
    BY DEF GetPassword, Goto, IndInv, Agreed, At, TypeOK, Calls, Idle, Tasks
  <2>2. tried' \in Pairs /\ tried'.password = mem.password /\ tried'.ssid = tried.ssid
    BY HalfWrites DEF IndInv, Tasks
  <2>3. tried' = mem
    BY <2>1, <2>2, PairsEqual
  <2> QED BY <2>1, <2>3
<1> QED BY <1>1, Inductive, PTL DEF Spec, TriesWhatWasPosted
-----------------------------------------------------------------------------
(* The refinement: what the strings are taken for at each step.            *)

LEMMA ViewIsCredentials ==
  ASSUME NEW p \in Pairs
  PROVE  View(p) \in P!All
BY NoPairIsPair DEF View, P!All

LEMMA SeenTypes ==
  TypeOK => Wanted \in P!All /\ InMemory \in P!All /\ InFlash \in P!All /\ Told \in P!All
<1> SUFFICES ASSUME TypeOK
             PROVE  Wanted \in P!All /\ InMemory \in P!All /\ InFlash \in P!All /\ Told \in P!All
  OBVIOUS
<1>1. /\ View(mem) \in P!All /\ View(flash) \in P!All /\ View(new) \in P!All
      /\ View(tried) \in P!All /\ NoPair \in P!All
  BY ViewIsCredentials DEF TypeOK, P!All
<1> QED BY <1>1 DEF Wanted, InMemory, InFlash, Told

\* A step after which the promise does not hold may do anything.
LEMMA MarredIsMar == IndInv /\ [Next]_vars /\ marred' => P!Mar
<1> SUFFICES ASSUME TypeOK', marred' PROVE P!Mar
  BY NextInd DEF IndInv
<1>1. (Wanted \in P!All /\ InMemory \in P!All /\ InFlash \in P!All /\ Told \in P!All)'
  BY SeenTypes, PTL
<1>2. (~marred)' = FALSE
  BY Zenon
<1> QED BY <1>1, <1>2 DEF P!Mar, P!All

\* Only the end of a call that was alone restores the promise; all holds what the
\* call was to leave.
LEMMA MendsAtEnd ==
  ASSUME IndInv, NEW t \in Tasks, PrefsEnd(t), marred, ~marred'
  PROVE  P!Mend
<1>1. alone /\ alone' = alone /\ pc[t] = "end" /\ pc' = [pc EXCEPT ![t] = IF t = "portal" THEN "get1" ELSE "idle"]
  BY DEF PrefsEnd, Goto, IndInv, TypeOK
<1>2. \A u \in Tasks : u # t => pc[u] = "idle" /\ pc'[u] = "idle"
  BY <1>1 DEF IndInv, TypeOK, Overlaps, Busy, Tasks
<1>3. mem = Target(t) /\ flash = Target(t) /\ loaded /\ UNCHANGED <<mem, flash, new, tried, loaded>>
  BY <1>1 DEF PrefsEnd, IndInv, Progresses, Progress, At, Calls, Idle
<1>4. pc'[t] = IF t = "portal" THEN "get1" ELSE "idle"
  BY <1>1 DEF IndInv, TypeOK
<1>5. InMemory' = View(mem) /\ InFlash' = View(flash)
  BY <1>2, <1>3, <1>4 DEF InMemory, InFlash, Settled, View, Tasks
<1>6. Wanted = View(Target(t)) /\ Wanted' = InMemory'
  BY <1>1, <1>2, <1>4, NoPairIsPair DEF Wanted, Writing, Target, View, Tasks
<1>7. Told' = Told
  BY <1>1, <1>2, <1>3, <1>4 DEF Told, View, Tasks
<1>8. marred = TRUE /\ marred' = FALSE
  <2>1. Booleans /\ Booleans'
    BY BooleansOK, BooleansKept DEF IndInv, Next, CallStep
  <2> QED BY <2>1, Zenon DEF Booleans
<1> QED BY <1>3, <1>5, <1>6, <1>7, <1>8 DEF P!Mend

\* What a call that writes, and runs alone, is taken for.
WriterView ==
  \A t \in Tasks : Writing(t) =>
    /\ alone /\ loaded /\ pc[Other(t)] = "idle"
    /\ Wanted = View(Target(t)) /\ Told = View(tried)
    /\ InMemory = View(IF pc[t] = "password" THEN flash ELSE mem)
    /\ InFlash = View(IF t = "portal" /\ pc[t] = "put2" /\ Has(flash) THEN mem ELSE flash)

\* Between calls, and while the pair is read, memory and flash hold the same.
ReaderView ==
  (\A t \in Tasks : ~Writing(t)) =>
    /\ Wanted = View(flash) /\ InMemory = View(flash) /\ InFlash = View(flash)
    /\ loaded => mem = flash
    /\ Told = View(IF pc["portal"] = "get2" THEN mem ELSE tried)

LEMMA SoundViews == IndInv /\ ~marred => WriterView /\ ReaderView
<1> SUFFICES ASSUME IndInv, ~marred PROVE WriterView /\ ReaderView
  OBVIOUS
<1>1. ASSUME NEW t \in Tasks, Writing(t)
      PROVE  /\ alone /\ loaded /\ pc[Other(t)] = "idle"
             /\ Wanted = View(Target(t)) /\ Told = View(tried)
             /\ InMemory = View(IF pc[t] = "password" THEN flash ELSE mem)
             /\ InFlash = View(IF t = "portal" /\ pc[t] = "put2" /\ Has(flash)
                                THEN mem ELSE flash)
  <2>1. alone /\ loaded /\ pc[Other(t)] = "idle"
    BY <1>1 DEF IndInv, Overlaps, Calls, Busy, Idle, Writing, Other, Tasks
  <2>2. Wanted = View(Target(t)) /\ Told = View(tried)
    BY <1>1, <2>1, NoPairIsPair DEF Wanted, Told, Target, View, Writing, Other, Tasks
  <2>3. Settled <=> pc[t] # "password"
    BY <2>1 DEF Settled, Other, Tasks
  <2>4. /\ InMemory = View(IF pc[t] = "password" THEN flash ELSE mem)
        /\ InFlash = View(IF t = "portal" /\ pc[t] = "put2" /\ Has(flash) THEN mem ELSE flash)
    BY <2>1, <2>3 DEF InMemory, InFlash, Other, Tasks
  <2> QED BY <2>1, <2>2, <2>4
<1>2. ReaderView
  <2> SUFFICES ASSUME \A t \in Tasks : ~Writing(t) PROVE ReaderView
    BY DEF ReaderView
  <2>1. loaded => mem = flash
    BY DEF IndInv, Agreed, At, Writing
  <2> QED BY <2>1 DEF ReaderView, Wanted, InMemory, InFlash, Told, View, Writing, Settled, Tasks
<1> QED BY <1>1, <1>2 DEF WriterView

\* The promise held and holds.
Keeps ==
  /\ IndInv /\ IndInv' /\ marred = FALSE /\ marred' = FALSE
  /\ WriterView /\ ReaderView /\ WriterView' /\ ReaderView'

LEMMA KeepsWhileSound == IndInv /\ [Next]_vars /\ ~marred /\ ~marred' => Keeps
<1> SUFFICES ASSUME IndInv, [Next]_vars, ~marred, ~marred' PROVE Keeps
  OBVIOUS
<1>1. IndInv'
  BY NextInd
<1>2. Booleans /\ Booleans'
  BY <1>1 DEF IndInv, TypeOK, Booleans
<1>3. WriterView /\ ReaderView
  BY SoundViews
<1>4. WriterView' /\ ReaderView'
  BY <1>1, SoundViews, PTL
<1> QED BY <1>1, <1>2, <1>3, <1>4, Zenon DEF Keeps, Booleans

\* A step of a call that keeps the promise: memory changes with the password, flash
\* with the SSID, or with the password where there was none.
LEMMA CallImplements ==
  ASSUME Keeps, NEW t \in Tasks, CallStep(t)
  PROVE  [P!Next]_(P!pairVars)
<1> USE DEF Keeps
<1>1. Writing(t) /\ pc \in [Tasks -> Steps]
  BY DEF CallStep, SetSsid, SetPassword, PrefsBegin, PutSsid, PutPassword, PrefsEnd, Goto,
         Writing, IndInv, TypeOK
<1>2. /\ alone /\ loaded /\ pc[Other(t)] = "idle"
      /\ Wanted = View(Target(t)) /\ Told = View(tried)
      /\ InMemory = View(IF pc[t] = "password" THEN flash ELSE mem)
      /\ InFlash = View(IF t = "portal" /\ pc[t] = "put2" /\ Has(flash) THEN mem ELSE flash)
  BY <1>1 DEF WriterView
<1>3. Writing(t)' =>
        /\ Wanted' = View(Target(t))' /\ Told' = View(tried')
        /\ InMemory' = View(IF pc'[t] = "password" THEN flash' ELSE mem')
        /\ InFlash' = View(IF t = "portal" /\ pc'[t] = "put2" /\ Has(flash') THEN mem' ELSE flash')
  BY DEF WriterView, View, Has
<1>4. /\ mem \in Pairs /\ flash \in Pairs /\ Target(t) \in Pairs
      /\ pc[t] \in {"begin", "put1", "put2", "end"} => mem = Target(t)
      /\ pc[t] \in {"put1", "put2", "end"} => started
      /\ pc[t] \in {"put2", "end"} => flash.ssid = Target(t).ssid
      /\ pc[t] = "end" => flash = Target(t)
  BY <1>2, TargetIsPair DEF IndInv, TypeOK, Progresses, Progress, At
<1>5. CASE SetSsid(t)
  <2>1. pc[t] = "ssid" /\ pc'[t] = "password" /\ UNCHANGED <<flash, tried, Target(t)>>
    BY <1>1, <1>5 DEF SetSsid, Goto, Target
  <2>2. mem = flash
    BY <1>2, <2>1 DEF IndInv, Agreed, At, Other, Tasks
  <2> QED BY <1>2, <1>3, <2>1, <2>2 DEF P!pairVars, Writing, View, Has
<1>6. CASE SetPassword(t)
  <2>1. pc[t] = "password" /\ pc'[t] = "begin" /\ UNCHANGED <<flash, tried, Target(t)>>
    BY <1>1, <1>6 DEF SetPassword, Goto, Target
  <2>2. mem' = Target(t)
    <3>1. (alone => \A u \in Tasks : Progress(u))'
      BY DEF IndInv, Progresses
    <3>2. alone' = alone
      BY <1>6 DEF SetPassword, history
    <3> QED BY <1>2, <2>1, <3>1, <3>2 DEF Progress, At
  <2> QED BY <1>2, <1>3, <2>1, <2>2 DEF P!Next, P!Use, P!pairVars, Writing, View, Has
<1>7. CASE PrefsBegin(t)
  <2>1. pc[t] = "begin" /\ pc'[t] = "put1" /\ UNCHANGED <<mem, flash, tried, Target(t)>>
    BY <1>1, <1>7 DEF PrefsBegin, Goto, Target
  <2> QED BY <1>2, <1>3, <2>1 DEF P!pairVars, Writing, View, Has
<1>8. CASE PutSsid(t)
  <2>1. pc[t] = "put1" /\ pc'[t] = "put2" /\ UNCHANGED <<mem, tried, Target(t)>>
    BY <1>1, <1>8 DEF PutSsid, Goto, Target
  <2>2. flash' \in Pairs /\ flash'.password = flash.password /\ flash'.ssid = mem.ssid
    BY <1>4, <1>8, <2>1, HalfWrites DEF IndInv, Stores, Target
  <2>3. InMemory' = InMemory /\ Wanted = InMemory /\ Wanted' = Wanted /\ Told' = Told
    BY <1>2, <1>3, <1>4, <2>1 DEF Writing, View, Has
  <2>4. InFlash' \in {InMemory, InFlash}
    BY <1>2, <1>3, <1>4, <2>1, <2>2, NoPairIsPair DEF Writing, View, Has, Target
  <2> QED BY <2>3, <2>4 DEF P!Next, P!Keep, P!pairVars
<1>9. CASE PutPassword(t)
  <2>1. pc[t] = "put2" /\ pc'[t] = "end" /\ UNCHANGED <<mem, tried, Target(t)>>
    BY <1>1, <1>9 DEF PutPassword, Goto, Target
  <2>2. flash' = mem
    <3>1. (alone => \A u \in Tasks : Progress(u))'
      BY DEF IndInv, Progresses
    <3>2. alone' = alone
      BY <1>9 DEF PutPassword, history
    <3> QED BY <1>2, <1>4, <2>1, <3>1, <3>2 DEF Progress, At
  <2>3. InMemory' = InMemory /\ Wanted = InMemory /\ Wanted' = Wanted /\ Told' = Told
    BY <1>2, <1>3, <1>4, <2>1 DEF Writing, View, Has
  <2>4. InFlash' = InMemory
    BY <1>2, <1>3, <1>4, <2>1, <2>2 DEF Writing, View, Has
  <2> QED BY <2>3, <2>4 DEF P!Next, P!Keep, P!pairVars
<1>10. CASE PrefsEnd(t)
  <2>1. /\ pc[t] = "end" /\ pc'[t] = IF t = "portal" THEN "get1" ELSE "idle"
        /\ pc'[Other(t)] = "idle"
        /\ UNCHANGED <<mem, flash, tried, loaded, Target(t)>>
    BY <1>1, <1>2, <1>10 DEF PrefsEnd, Goto, Target, Other, Tasks
  <2>2. (/\ Wanted = View(flash) /\ InMemory = View(flash) /\ InFlash = View(flash)
         /\ Told = View(tried))'
    <3>1. (\A u \in Tasks : ~Writing(u))' /\ pc'["portal"] # "get2"
      BY <2>1 DEF Writing, Other, Tasks
    <3> QED BY <3>1 DEF ReaderView, View, Has
  <2> QED BY <1>2, <1>4, <2>1, <2>2 DEF P!pairVars, View, Has
<1> QED BY <1>5, <1>6, <1>7, <1>8, <1>9, <1>10 DEF CallStep

\* The other steps: a call begins when memory and flash agree, a restart finds what
\* flash was taken for, and the pair is read while nobody writes.
LEMMA RestImplements ==
  ASSUME Keeps,
         Load \/ Restart \/ (\E pair \in Pairs : Save(pair)) \/ Clear \/ TryStored
           \/ GetSsid \/ GetPassword
  PROVE  [P!Next]_(P!pairVars)
<1> USE DEF Keeps, history
<1>1. pc \in [Tasks -> Steps]
  BY DEF IndInv, TypeOK
<1>2. (\A t \in Tasks : ~Writing(t))' =>
        /\ Wanted' = View(flash') /\ InMemory' = View(flash') /\ InFlash' = View(flash')
        /\ Told' = View(IF pc'["portal"] = "get2" THEN mem' ELSE tried')
  BY DEF ReaderView, View, Has
<1>3. Wanted' \in P!All
  <2>1. TypeOK'
    BY DEF IndInv
  <2>2. (Wanted \in P!All)'
    BY <2>1, SeenTypes, PTL
  <2> QED BY <2>2 DEF P!All
<1>4. CASE Load
  <2>1. \A t \in Tasks : ~Writing(t) /\ pc'[t] = pc[t] /\ pc[t] = "idle"
    BY <1>4 DEF Load, Writing, IndInv, Calls, Idle
  <2> QED BY <1>2, <1>4, <2>1 DEF Load, Writing, ReaderView, Tasks, P!pairVars
<1>5. CASE Restart
  <2>1. \A t \in Tasks : pc'[t] = "idle"
    BY <1>5 DEF Restart
  <2>2. /\ Wanted' = View(flash) /\ InMemory' = View(flash) /\ InFlash' = View(flash)
        /\ Told' = NoPair
    BY <1>2, <1>5, <2>1, NoPairIsPair DEF Restart, Writing, View, Tasks
  <2>3. InFlash = View(flash)
    <3>1. CASE pc["portal"] = "put2" /\ Has(flash)
      <4>1. flash.password \in {Empty, new.password} /\ flash.password # Empty
        BY <1>5, <3>1 DEF Restart, Has
      <4>2. alone /\ flash.ssid = new.ssid /\ mem = new
        BY <3>1 DEF WriterView, Writing, Tasks, IndInv, Progresses, Progress, At, Target
      <4>3. flash = mem
        BY <4>1, <4>2, PairsEqual DEF IndInv, TypeOK
      <4> QED BY <4>3 DEF InFlash
    <3>2. CASE ~(pc["portal"] = "put2" /\ Has(flash))
      BY <3>2 DEF InFlash
    <3> QED BY <3>1, <3>2
  <2> QED BY <2>2, <2>3 DEF P!Next, P!Restart
<1>6. ASSUME NEW t \in Tasks, Enter(t, "ssid"), alone',
             UNCHANGED <<mem, flash, loaded, started, tried>>
      PROVE  /\ P!Done /\ Wanted' = View(Target(t))'
             /\ UNCHANGED <<InMemory, InFlash, Told>>
  <2>1. /\ \A u \in Tasks : pc[u] = "idle" /\ pc'[u] = IF u = t THEN "ssid" ELSE "idle"
        /\ loaded
    BY <1>1, <1>6 DEF Enter, Goto, Other, Tasks
  <2>2. Writing(t)' /\ (\A u \in Tasks : ~Writing(u))
    BY <2>1 DEF Writing
  <2>3. /\ Wanted = View(flash) /\ InMemory = View(flash) /\ InFlash = View(flash)
        /\ mem = flash /\ Told = View(tried)
    BY <2>1, <2>2 DEF ReaderView, Tasks
  <2>4. /\ Wanted' = View(Target(t))' /\ Told' = View(tried)
        /\ InMemory' = View(mem) /\ InFlash' = View(flash)
    BY <1>6, <2>1, <2>2 DEF WriterView, View, Has
  <2> QED BY <2>3, <2>4 DEF P!Done
<1>7. ASSUME NEW t \in Tasks, NEW to, Enter(t, to) PROVE alone'
  BY <1>7, BooleansOK DEF Enter, IndInv, Booleans
<1>8. ASSUME NEW pair \in Pairs, Save(pair) PROVE P!Next
  <2>1. /\ P!Done /\ Wanted' = View(new)'
        /\ UNCHANGED <<InMemory, InFlash, Told>>
    BY <1>6, <1>7, <1>8 DEF Save, Target, Tasks
  <2> QED BY <1>3, <2>1 DEF P!Next, P!Ask
<1>9. CASE Clear
  <2>1. /\ P!Done /\ UNCHANGED <<InMemory, InFlash, Told>>
    BY <1>6, <1>7, <1>9 DEF Clear, Tasks
  <2> QED BY <1>3, <2>1 DEF P!Next, P!Ask
<1>10. CASE TryStored
  <2>1. alone'
    BY <1>7, <1>10 DEF TryStored, Tasks
  <2>2. \A t \in Tasks : pc[t] = "idle" /\ pc'[t] = IF t = "portal" THEN "get1" ELSE "idle"
    BY <1>1, <1>10, <2>1 DEF TryStored, Enter, Goto, Other, Tasks
  <2> QED BY <1>2, <1>10, <2>2 DEF TryStored, ReaderView, Writing, Tasks, P!pairVars
<1>11. CASE GetSsid
  <2>1. \A t \in Tasks : pc[t] = IF t = "portal" THEN "get1" ELSE "idle"
    BY <1>1, <1>11 DEF GetSsid, Goto, IndInv, Overlaps, Busy, Tasks
  <2>2. \A t \in Tasks : pc'[t] = IF t = "portal" THEN "get2" ELSE "idle"
    BY <1>1, <1>11, <2>1 DEF GetSsid, Goto
  <2>3. loaded
    BY <2>1 DEF IndInv, Calls, Idle, Tasks
  <2>4. /\ Wanted = View(flash) /\ InMemory = View(flash) /\ InFlash = View(flash)
        /\ mem = flash
    BY <2>1, <2>3 DEF ReaderView, Writing
  <2>5. /\ Wanted' = View(flash) /\ InMemory' = View(flash) /\ InFlash' = View(flash)
        /\ Told' = View(flash)
    BY <1>2, <1>11, <2>2, <2>4 DEF GetSsid, Writing, Tasks
  <2> QED BY <2>4, <2>5 DEF P!Next, P!Try, P!Done
<1>12. CASE GetPassword
  <2>1. \A t \in Tasks : pc[t] = IF t = "portal" THEN "get2" ELSE "idle"
    BY <1>1, <1>12 DEF GetPassword, Goto, IndInv, Overlaps, Busy, Tasks
  <2>2. \A t \in Tasks : pc'[t] = "idle"
    BY <1>1, <1>12, <2>1 DEF GetPassword, Goto
  <2>3. tried' = mem
    <3>1. loaded /\ tried.ssid = mem.ssid /\ mem \in Pairs
      BY <2>1 DEF IndInv, TypeOK, Agreed, At, Calls, Idle, Tasks
    <3>2. tried' \in Pairs /\ tried'.password = mem.password /\ tried'.ssid = tried.ssid
      BY <1>12, HalfWrites DEF IndInv, Tasks
    <3> QED BY <3>1, <3>2, PairsEqual
  <2>4. /\ Wanted = View(flash) /\ InMemory = View(flash) /\ InFlash = View(flash)
        /\ Told = View(mem)
    BY <2>1 DEF ReaderView, Writing, Tasks
  <2>5. /\ Wanted' = View(flash) /\ InMemory' = View(flash) /\ InFlash' = View(flash)
        /\ Told' = View(mem)
    BY <1>2, <1>12, <2>2, <2>3 DEF GetPassword, Writing, Tasks
  <2> QED BY <2>4, <2>5 DEF P!pairVars
<1> QED BY <1>4, <1>5, <1>8, <1>9, <1>10, <1>11, <1>12

\* The strings implement whole pairs: an SSID and a password are used, kept, tried and
\* brought back together (Credentials.cpp:29), until calls overlap or power is lost
\* between the two writes over an old password, and again once a call has run alone.
THEOREM Refinement == Spec => WholePairs
<1>1. Init => P!Init
  <2> SUFFICES ASSUME Init PROVE P!Init
    OBVIOUS
  <2>1. marred = FALSE
    BY Zenon DEF Init
  <2> QED BY <2>1, NoPairIsPair
          DEF Init, P!Init, P!Done, P!All, Wanted, InMemory, InFlash, Told, View, Writing, Tasks
<1>2. IndInv /\ [Next]_vars => [P!Next]_(P!pairVars)
  <2> SUFFICES ASSUME IndInv, [Next]_vars PROVE [P!Next]_(P!pairVars)
    OBVIOUS
  <2>1. CASE marred'
    BY <2>1, MarredIsMar DEF P!Next
  <2>2. CASE marred /\ ~marred'
    <3>1. \E t \in Tasks : PrefsEnd(t)
      BY <2>2, Zenon DEF Next, vars, history, Load, Restart, Save, Clear, TryStored, Enter, CallStep,
         SetSsid, SetPassword, PrefsBegin, PutSsid, PutPassword, GetSsid, GetPassword
    <3> QED BY <2>2, <3>1, MendsAtEnd DEF P!Next
  <2>3. CASE ~marred /\ ~marred'
    <3>1. Keeps
      BY <2>3, KeepsWhileSound
    <3>2. CASE UNCHANGED vars
      BY <3>2 DEF vars, history, P!pairVars, Wanted, InMemory, InFlash, Told, View, Has, Writing, Settled
    <3> QED BY <3>1, <3>2, CallImplements, RestImplements DEF Next
  <2> QED BY <2>1, <2>2, <2>3
<1> QED BY <1>1, <1>2, Inductive, PTL DEF Spec, WholePairs, P!Spec
=============================================================================
