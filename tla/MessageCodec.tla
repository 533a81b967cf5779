---------------------------- MODULE MessageCodec ----------------------------
(***************************************************************************)
(* How the arguments of a log message get to the serial line: Logger::log  *)
(* with write_arg packs them into a fixed buffer (Logger.tpp), print()     *)
(* unpacks it (Serializer.tpp).  The queue in between hands whole messages *)
(* over in order (SpscQueue) and is a sequence here.                       *)
(*                                                                         *)
(* One task logs, one prints.  A string argument is measured and copied    *)
(* by two steps; `shared` is a string another task may write meanwhile     *)
(* (Task::name).  A cell of the buffer says what its byte stands for.      *)
(***************************************************************************)
EXTENDS ArgTypes, Integers, Sequences, SequencesExt

CONSTANTS
  Capacity,      \* bytes in a message's buffer
  LenRange,      \* 2^16: lengths of strings are kept modulo this
  NoticeLength,  \* length of "buffer overflow in next message!"
  Messages,      \* what the task logs: [level, topic, args]
  SharedBytes,   \* bytes of the object behind `shared`
  MaxLogs        \* bound: calls of log()

\* Of an argument: its type, and of a string its length, or that it is `shared`.
Args == [type : CppTypes, length : Nat, shared : BOOLEAN]

ASSUME CodecAssumption ==
  /\ Capacity \in Nat /\ LenRange \in Nat \ {0} /\ SharedBytes \in Nat \ {0} /\ MaxLogs \in Nat
  /\ NoticeLength \in Nat /\ NoticeLength < LenRange /\ 3 + NoticeLength <= Capacity
  /\ SharedBytes < LenRange
  /\ Messages \subseteq [level : SUBSET LEVEL, topic : SUBSET TOPIC, args : Seq(Args)]
  /\ \A m \in Messages : \A i \in DOMAIN m.args : m.args[i].shared => IsString(m.args[i].type)

VARIABLES
  shared,  \* a string of another task: bytes, 0 ends it
  calls,   \* log() and the log() of its notice inside it, as frames
  sent,    \* messages on their way
  out,     \* the line that is being printed, and how far print() has got
  lines,   \* what has been printed
  logs     \* calls of log()

codecVars == <<calls, sent, out, lines, logs>>
vars == <<shared, codecVars>>

\* data{}: zero is the tag of Bool.
Zero == <<"tag", "Bool">>
Nothing == [pos |-> 0, shown |-> << >>]

\* log() as it begins: `next` is the argument it has come to, `len` the length it has
\* measured, or -1; `starts`, a history, is where the arguments in the buffer begin.
Frame(m) ==
  [msg |-> m, data |-> [i \in 0 .. Capacity - 1 |-> Zero], size |-> 0, starts |-> << >>,
   next |-> 1, len |-> -1, ok |-> TRUE, noticed |-> FALSE]

Notice ==
  [level |-> {"ERROR"}, topic |-> {"DEBUG"},
   args |-> <<[type |-> "const_char_ptr", length |-> NoticeLength, shared |-> FALSE]>>]

\* Nobody else logs the notice.
ASSUME NoticeAssumption == Notice \notin Messages

Passes(m) == IsSet(LogLevel, m.level) /\ IsSet(LogTopicMask, m.topic)

Init ==
  /\ shared \in [0 .. SharedBytes - 1 -> Nat]
  /\ calls = << >> /\ sent = << >> /\ lines = << >>
  /\ out = Nothing
  /\ logs = 0
-----------------------------------------------------------------------------
(* Logger::log. *)

Top == calls[Len(calls)]
HasArg == calls # << >> /\ Top.next <= Len(Top.msg.args)
Arg == Top.msg.args[Top.next]
SetTop(f) == calls' = [calls EXCEPT ![Len(calls)] = f]

Log(m) ==
  /\ calls = << >> /\ logs < MaxLogs
  /\ Passes(m)
  /\ calls' = <<Frame(m)>>
  /\ logs' = logs + 1
  /\ UNCHANGED <<shared, sent, out, lines>>

\* Mutated: the tag is not counted.
FitsWithoutTag(need) == need - 1 <= Capacity - Top.size

\* need <= size - used.
Fits(need) == need <= Capacity - Top.size

\* cells written at ptr, which moves on.
Written(cells) ==
  [Top EXCEPT !.data = [i \in 0 .. Capacity - 1 |->
                          IF i >= Top.size /\ i < Top.size + Len(cells)
                          THEN cells[i - Top.size + 1] ELSE Top.data[i]],
              !.size = @ + Len(cells),
              !.starts = Append(@, Top.size)]

\* Mutated: only the last argument counts.
AcceptedLast(f, fits) == [f EXCEPT !.next = @ + 1, !.len = -1, !.ok = fits]

\* ok = ok & write_arg(...); on to the next argument.
Accepted(f, fits) == [f EXCEPT !.next = @ + 1, !.len = -1, !.ok = @ /\ fits]

\* The bytes of the i-th argument.
Value(i, T) == [k \in 1 .. SizeOf(T) |-> <<"value", i, k>>]

\* write_arg, not a string: the tag and the bytes, if there is room for both.
WriteValue ==
  /\ HasArg /\ ~IsString(Arg.type)
  /\ LET cells == <<<<"tag", TagOf(Arg.type)>>>> \o Value(Top.next, Arg.type) IN
     SetTop(IF Fits(1 + SizeOf(Arg.type)) THEN Accepted(Written(cells), TRUE)
            ELSE Accepted(Top, FALSE))
  /\ UNCHANGED <<shared, sent, out, lines, logs>>

\* strlen(shared) = n; the object is left at its last byte if nothing ends the string.
SharedLenIs(n) ==
  /\ \A i \in 0 .. n - 1 : shared[i] # 0
  /\ n < SharedBytes => shared[n] = 0

StrLenIs(a, n) == IF a.shared THEN SharedLenIs(n) ELSE n = a.length

\* Mutated: the length is not cast.
MeasureWide ==
  /\ HasArg /\ IsString(Arg.type) /\ Top.len = -1
  /\ \E n \in 0 .. SharedBytes \cup {Arg.length} :
       StrLenIs(Arg, n) /\ SetTop([Top EXCEPT !.len = n])
  /\ UNCHANGED <<shared, sent, out, lines, logs>>

\* static_cast<uint16_t>(strlen(value)).
Measure ==
  /\ HasArg /\ IsString(Arg.type) /\ Top.len = -1
  /\ \E n \in 0 .. SharedBytes \cup {Arg.length} :
       StrLenIs(Arg, n) /\ SetTop([Top EXCEPT !.len = n % LenRange])
  /\ UNCHANGED <<shared, sent, out, lines, logs>>

\* The first n characters of the i-th argument, as memcpy finds them.
Text(i, a, n) ==
  [k \in 1 .. n |-> IF ~a.shared THEN <<"char", i, k>>
                    ELSE IF k <= SharedBytes THEN <<"shared", k, shared[k - 1]>>
                    ELSE <<"beyond", k, 0>>]

\* write_arg, a string: the tag, the length in two bytes, the characters.
WriteString ==
  /\ HasArg /\ IsString(Arg.type) /\ Top.len # -1
  /\ LET n == Top.len
         cells == <<<<"tag", "CString">>, <<"length", n, 1>>, <<"length", n, 2>>>>
                    \o Text(Top.next, Arg, n)
     IN SetTop(IF Fits(3 + n) THEN Accepted(Written(cells), TRUE) ELSE Accepted(Top, FALSE))
  /\ UNCHANGED <<shared, sent, out, lines, logs>>

\* All arguments are dealt with.
Packed == calls # << >> /\ Top.next > Len(Top.msg.args)

\* if (!ok): log() calls itself with the notice.
LogNotice ==
  /\ Packed /\ ~Top.ok /\ ~Top.noticed /\ Passes(Notice)
  /\ calls' = Append([calls EXCEPT ![Len(calls)].noticed = TRUE], Frame(Notice))
  /\ UNCHANGED <<shared, sent, out, lines, logs>>

\* queue_.push(msg).
Push ==
  /\ Packed
  /\ ~Top.ok /\ Passes(Notice) => Top.noticed
  /\ sent' = Append(sent, [msg |-> Top.msg, data |-> Top.data, size |-> Top.size,
                          starts |-> Top.starts])
  /\ calls' = Front(calls)
  /\ UNCHANGED <<shared, out, lines, logs>>

LogStep == (\E m \in Messages : Log(m)) \/ WriteValue \/ Measure \/ WriteString \/ LogNotice \/ Push
-----------------------------------------------------------------------------
(* Serializer::print. *)

Printing == sent # << >>
Data == Head(sent).data
Size == Head(sent).size

\* The bytes at pos; those behind the buffer are not the message's.
At(pos, n) ==
  [k \in 1 .. n |-> IF pos + k - 1 < Capacity THEN Data[pos + k - 1] ELSE <<"outside", k, 0>>]

\* The tag at pos, if that byte is one.
TagAt == IF Data[out.pos][1] = "tag" THEN Data[out.pos][2] ELSE "none"

Shown(width, n) ==
  out' = [pos   |-> out.pos + width + n,
          shown |-> Append(out.shown, [type |-> TagAt, cells |-> At(out.pos + width, n)])]

\* A value: the tag, then as many bytes as its branch takes.
PrintValue ==
  /\ Printing /\ out.pos < Size /\ TagAt # "CString"
  /\ Shown(1, ReadWidth(TagAt))
  /\ UNCHANGED <<shared, calls, sent, lines, logs>>

\* A string: the tag, the length in two bytes, then the characters.
PrintString ==
  /\ Printing /\ out.pos < Size /\ TagAt = "CString"
  /\ LET field == At(out.pos + 1, 2)[1] IN
     Shown(3, IF field[1] = "length" THEN field[2] ELSE 0)
  /\ UNCHANGED <<shared, calls, sent, lines, logs>>

\* The end of the line; the header came first.
EndLine ==
  /\ Printing /\ out.pos >= Size
  /\ lines' = Append(lines, [msg |-> Head(sent).msg, shown |-> out.shown,
                             level |-> Lookup(LEVEL_LOOKUP, Head(sent).msg.level),
                             topic |-> Lookup(TOPIC_LOOKUP, Head(sent).msg.topic)])
  /\ sent' = Tail(sent)
  /\ out' = Nothing
  /\ UNCHANGED <<shared, calls, logs>>

PrintStep == PrintValue \/ PrintString \/ EndLine

Next == LogStep \/ PrintStep
-----------------------------------------------------------------------------
Cell ==
  ({"tag"} \X ArgType)
    \cup ({"value", "length", "char", "shared", "beyond", "outside"} \X Nat \X Nat)
Buffer == [0 .. Capacity - 1 -> Cell]
Sendable == Messages \cup {Notice}
Frames ==
  [msg : Sendable, data : Buffer, size : Nat, starts : Seq(Nat),
   next : Nat \ {0}, len : -1 .. LenRange - 1, ok : BOOLEAN, noticed : BOOLEAN]
Packets == [msg : Sendable, data : Buffer, size : Nat, starts : Seq(Nat)]
Items == [type : ArgType \cup {"none"}, cells : Seq(Cell)]
Printed ==
  [msg : Sendable, shown : Seq(Items), level : LEVEL \cup {"[?]"}, topic : TOPIC \cup {"[?]"}]

TypeOK ==
  /\ shared \in [0 .. SharedBytes - 1 -> Nat]
  /\ calls \in Seq(Frames)
  /\ sent \in Seq(Packets)
  /\ out \in [pos : Nat, shown : Seq(Items)]
  /\ lines \in Seq(Printed)
  /\ logs \in 0 .. MaxLogs

\* Nothing is written or read behind the buffer, nor read behind what was written:
\* arguments end where the message ends, also at its last byte.
InBounds ==
  /\ \A i \in DOMAIN calls : calls[i].size <= Capacity
  /\ Printing => Size <= Capacity /\ out.pos <= Size

\* What is to be printed of a message: of its arguments, taken in order, those that fit
\* beside the ones kept before.  The length of a string is kept modulo LenRange.
Need(a) == IF IsString(a.type) THEN 3 + (a.length % LenRange) ELSE 1 + SizeOf(a.type)

KeptNext(before, a, i) ==
  IF before.used + Need(a) <= Capacity
  THEN [used |-> before.used + Need(a), which |-> Append(before.which, i)]
  ELSE before

\* Bytes used by, and numbers of, what is kept of the first i arguments.
Packing(args) ==
  LET kept[i \in 0 .. Len(args)] ==
        IF i = 0 THEN [used |-> 0, which |-> << >>] ELSE KeptNext(kept[i - 1], args[i], i)
  IN kept

Kept(args) == Packing(args)[Len(args)].which

Chars(i, n) == [k \in 1 .. n |-> <<"char", i, k>>]

Meant(args, i) ==
  [type |-> TagOf(args[i].type),
   cells |-> IF IsString(args[i].type) THEN Chars(i, args[i].length % LenRange)
             ELSE Value(i, args[i].type)]

\* What is printed is what was logged: every argument that fits, in order, as a value of
\* its own type, and nothing else.
NoText(m) == \A i \in DOMAIN m.args : ~m.args[i].shared

PrintsWhatFits ==
  \A l \in DOMAIN lines :
    LET args == lines[l].msg.args IN
    NoText(lines[l].msg)
      => lines[l].shown = [k \in DOMAIN Kept(args) |-> Meant(args, Kept(args)[k])]

\* "buffer overflow in next message!" (Logger.tpp:73): a line that lacks an argument
\* follows the notice, and only such a line does.
Lacks(line) == Len(line.shown) < Len(line.msg.args)

CutIsAnnounced ==
  \A l \in DOMAIN lines :
    /\ Lacks(lines[l]) => l > 1 /\ lines[l - 1].msg = Notice /\ ~Lacks(lines[l - 1])
    /\ lines[l].msg = Notice /\ l < Len(lines) => Lacks(lines[l + 1])

\* Why they hold.  A buffer is a row of arguments, each of which ends where the next
\* one begins; print() stands at the beginning of one.
EndOf(m, j) == IF j < Len(m.starts) THEN m.starts[j + 1] ELSE m.size

ArgumentAt(m, j) ==
  LET at  == m.starts[j]
      tag == m.data[at][2]
  IN /\ at < m.size
     /\ m.data[at][1] = "tag" /\ tag \in ArgType
     /\ tag # "CString" => EndOf(m, j) = at + 1 + ReadWidth(tag)
     /\ tag = "CString" =>
          /\ m.data[at + 1][1] = "length" /\ m.data[at + 1][2] \in Nat
          /\ EndOf(m, j) = at + 3 + m.data[at + 1][2]

WellFormed(m) ==
  /\ m.size <= Capacity
  /\ IF m.starts = << >> THEN m.size = 0 ELSE m.starts[1] = 0
  /\ \A j \in DOMAIN m.starts : ArgumentAt(m, j)

FrameInv(f) ==
  /\ WellFormed(f)
  /\ f.next <= Len(f.msg.args) + 1
  /\ Len(f.starts) <= f.next - 1
  /\ f.ok <=> Len(f.starts) = f.next - 1

PacketInv(m) == WellFormed(m) /\ Len(m.starts) <= Len(m.msg.args)

PrinterInv ==
  IF sent = << >> THEN out = Nothing
  ELSE /\ Len(out.shown) <= Len(Head(sent).starts)
       /\ out.pos = EndOf(Head(sent), Len(out.shown))

CodecInv ==
  /\ \A i \in DOMAIN calls : FrameInv(calls[i])
  /\ \A i \in DOMAIN sent : PacketInv(sent[i])
  /\ PrinterInv

\* The j-th argument in a buffer, as print() is to show it.
ItemAt(m, j) ==
  LET tag  == m.data[m.starts[j]][2]
      from == m.starts[j] + IF tag = "CString" THEN 3 ELSE 1
  IN [type |-> tag, cells |-> [k \in 1 .. EndOf(m, j) - from |-> m.data[from + k - 1]]]

\* The buffer holds what is kept of the first n arguments, and print() has shown what it
\* has passed.
PackedInv(m, n) ==
  NoText(m.msg) =>
    LET kept == Packing(m.msg.args)[n] IN
    /\ m.size = kept.used /\ Len(m.starts) = Len(kept.which)
    /\ \A j \in DOMAIN m.starts : ItemAt(m, j) = Meant(m.msg.args, kept.which[j])

ShownInv ==
  sent # << >> => \A k \in DOMAIN out.shown : out.shown[k] = ItemAt(Head(sent), k)

\* A notice that has been pushed waits for the message it announces.
Cut(m) == Len(m.starts) < Len(m.msg.args)
LastLine == lines[Len(lines)]
Pending ==
  IF sent # << >> THEN sent[Len(sent)].msg = Notice
  ELSE lines # << >> /\ LastLine.msg = Notice

AnnounceInv ==
  /\ Len(calls) <= 2
  /\ Pending <=> Len(calls) = 1 /\ calls[1].noticed
  /\ calls # << >> =>
       /\ calls[1].msg \in Messages
       /\ calls[1].noticed => ~calls[1].ok /\ calls[1].next > Len(calls[1].msg.args)
  /\ Len(calls) = 2 =>
       /\ calls[1].noticed
       /\ calls[2].msg = Notice /\ ~calls[2].noticed /\ calls[2].ok
       /\ calls[2].len \in {-1, NoticeLength}
       /\ calls[2].next = 1 => calls[2].size = 0
  /\ \A i \in DOMAIN sent :
       /\ sent[i].msg = Notice => ~Cut(sent[i])
       /\ i > 1 => (Cut(sent[i]) <=> sent[i - 1].msg = Notice)
  /\ sent # << >> => (Cut(sent[1]) <=> lines # << >> /\ LastLine.msg = Notice)
  /\ \A i \in DOMAIN lines : lines[i].msg = Notice => ~Lacks(lines[i])
=============================================================================
