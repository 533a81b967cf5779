------------------------------ MODULE TextPath ------------------------------
(***************************************************************************)
(* A StaticString on its way to the serial line (StaticString and          *)
(* MessageCodec), in one of two roles:                                     *)
(*                                                                         *)
(*  - "name": Task::name, which createTask assigns after the task exists   *)
(*    (Task.cpp:100-101) while the task may already log it;                *)
(*  - "local": a string of the task that logs, as toString() and           *)
(*    timestamp2string() return it, built before the call of log().        *)
(***************************************************************************)
EXTENDS MessageCodec

CONSTANTS
  CharRange, Letters,
  Strings,   \* what local strings are assigned
  Unnamed,   \* the name of a task before createTask
  Names      \* the names of the tasks

VARIABLES
  role, pc, source, todo,
  torn   \* history: the name was assigned while log() measured and copied it

stringVars == <<pc, source, todo>>
pathVars == <<vars, role, stringVars, torn>>

S == INSTANCE StaticString WITH N <- SharedBytes, buffer <- shared

\* The names of the firmware have 17 characters at the most, of 31: substr(0, capacity)
\* cuts none, and none fills the string.
ASSUME PathAssumption ==
  /\ S!StringAssumption
  /\ Unnamed \in Seq(Letters) /\ Names \subseteq Seq(Letters)
  /\ \A n \in Names \cup {Unnamed} : Len(n) < SharedBytes - 1
-----------------------------------------------------------------------------
PathInit ==
  /\ role \in {"name", "local"}
  /\ IF role = "name" THEN shared = S!Holding(Unnamed) /\ pc = "ready" /\ source = Unnamed /\ todo = {}
     ELSE S!Init
  /\ calls = << >> /\ sent = << >> /\ lines = << >>
  /\ out = Nothing
  /\ logs = 0
  /\ torn = FALSE

\* log() has come to the string.
Reading == HasArg /\ Arg.shared

\* createTask: always the same name.
AssignName ==
  /\ role = "name"
  /\ \E n \in Names : source \in {Unnamed, n} /\ S!Assign(n)
  /\ torn' = (torn \/ (Reading /\ Top.len # -1))
  /\ UNCHANGED <<codecVars, role>>

\* A local string is built before it is logged.
BuildLocal ==
  /\ role = "local" /\ logs = 0
  /\ S!Call
  /\ UNCHANGED <<codecVars, role, torn>>

StringStep ==
  /\ S!Step
  /\ UNCHANGED <<codecVars, role, torn>>

CodecStep ==
  /\ role = "local" => pc = "ready"
  /\ LogStep \/ PrintStep
  /\ torn' = (torn \/ (Reading /\ pc # "ready"))
  /\ UNCHANGED <<role, stringVars>>

PathNext == AssignName \/ BuildLocal \/ StringStep \/ CodecStep

PathSpec == PathInit /\ [][PathNext]_pathVars
-----------------------------------------------------------------------------
\* c_str() never leads out of the object while a name is assigned and read.
ReadersStayInside == S!ReadersStayInside /\ (role = "name" => ~SharedLenIs(SharedBytes))

\* A string between its calls reads the same by c_str() and by view().
SameText == S!SameText

Bounded == S!Bounded

\* What is printed of the string is its text; of a name that is assigned meanwhile, at
\* each place a character of the old name or of the new one, or their end.
At1(str, k) == IF k <= Len(str) THEN str[k] ELSE 0

Now == [role |-> role, torn |-> torn, ready |-> pc = "ready", view |-> S!View, source |-> source]

ReadsAs(cells, now) ==
  LET text == [k \in DOMAIN cells |-> cells[k][3]] IN
  /\ now.role = "local" => text = now.view
  /\ now.role = "name" /\ ~now.torn => text \in {Unnamed, now.source}
  /\ now.role = "name" => \A k \in DOMAIN cells :
       cells[k] \in {<<"shared", k, At1(Unnamed, k)>>, <<"shared", k, At1(now.source, k)>>}

Shows(args, i, item, now) ==
  IF args[i].shared THEN item.type = "CString" /\ ReadsAs(item.cells, now)
  ELSE item = Meant(args, i)

\* A line that lacks nothing shows each of its arguments, the string among them.
PrintsTheText ==
  \A l \in DOMAIN lines : ~Lacks(lines[l]) =>
    \A i \in DOMAIN lines[l].msg.args : Shows(lines[l].msg.args, i, lines[l].shown[i], Now)

\* Why they hold.  A name is only ever assigned, and leaves room; its bytes are those of
\* the old name or the new.  A local string is complete when it is logged.
NameInv ==
  /\ pc \in {"ready", "copy", "fill"} /\ source \in Names \cup {Unnamed}
  /\ S!Value = source
  /\ \A i \in 0 .. SharedBytes - 2 : shared[i] \in {At1(Unnamed, i + 1), At1(source, i + 1)}

RoleInv ==
  /\ role \in {"name", "local"}
  /\ role = "name" => NameInv
  /\ role = "local" /\ logs > 0 => pc = "ready"
  /\ logs = 0 => calls = << >> /\ sent = << >> /\ lines = << >>

\* A length that has been measured is still that of the string, or the call is torn.
MeasuredInv(f, now) ==
  f.len # -1 =>
    /\ f.next <= Len(f.msg.args) /\ IsString(f.msg.args[f.next].type)
    /\ LET a == f.msg.args[f.next] IN
       IF a.shared THEN /\ f.len < SharedBytes
                        /\ now.role = "local" \/ ~now.torn => now.ready /\ f.len = Len(now.view)
       ELSE f.len = a.length % LenRange

\* The buffer shows the first n arguments, if it lacks none of them.
WholeInv(m, n, now) == Len(m.starts) = n => \A i \in 1 .. n : Shows(m.msg.args, i, ItemAt(m, i), now)

FrameContent(f, now) ==
  PackedInv(f, f.next - 1) /\ WholeInv(f, f.next - 1, now) /\ MeasuredInv(f, now)

PacketContent(m, now) == PackedInv(m, Len(m.msg.args)) /\ WholeInv(m, Len(m.msg.args), now)

ContentInv ==
  /\ \A i \in DOMAIN calls : FrameContent(calls[i], Now)
  /\ \A i \in DOMAIN sent : PacketContent(sent[i], Now)
  /\ ShownInv
  /\ PrintsWhatFits /\ PrintsTheText

IndInv == TypeOK /\ CodecInv /\ AnnounceInv /\ S!StringInv /\ RoleInv /\ ContentInv
=============================================================================
