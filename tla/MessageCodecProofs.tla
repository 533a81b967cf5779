------------------------- MODULE MessageCodecProofs -------------------------
(***************************************************************************)
(* What a step of log() or print() keeps, for every buffer, every set of   *)
(* messages and every string another task may write.  TextPathProofs uses  *)
(* it.                                                                     *)
(***************************************************************************)
EXTENDS MessageCodec, SequenceTheorems, WellFoundedInduction, TLAPS

(***************************************************************************)
(* Tags and widths.                                                        *)
(***************************************************************************)

\* print() takes as many bytes for a tag as write_arg wrote for the type.
LEMMA TagWidth ==
  ASSUME NEW T \in CppTypes, ~IsString(T)
  PROVE  /\ TagOf(T) \in ArgType \ {"CString"}
         /\ ReadWidth(TagOf(T)) = SizeOf(T)
         /\ SizeOf(T) \in Nat \ {0}
<1>1. DOMAIN IntegerTag =
        {"bool", "char", "signed_char", "unsigned_char", "short", "unsigned_short", "int",
         "unsigned_int", "long", "unsigned_long", "long_long", "unsigned_long_long"}
  BY DEF IntegerTag
<1>2. DOMAIN OtherTag = {"float", "double", "const_char_ptr", "char_ptr", "LEVEL", "TOPIC"}
  BY DEF OtherTag
<1>3. CASE T \in DOMAIN IntegerTag
  BY <1>1, <1>3, LongAssumption DEF TagOf, IntegerTag, ArgType, ReadWidth, SizeOf
<1>4. CASE T \in {"float", "double", "LEVEL", "TOPIC"}
  BY <1>1, <1>4, LongAssumption DEF TagOf, OtherTag, ArgType, ReadWidth, SizeOf
<1>5. T \notin {"const_char_ptr", "char_ptr"}
  BY <1>1 DEF IsString, TagOf, OtherTag
<1> QED BY <1>1, <1>2, <1>3, <1>4, <1>5 DEF CppTypes

LEMMA LabelIs ==
  ASSUME NEW bits, NEW v
  PROVE  Lookup(Labels(bits), v) \in bits \cup {"[?]"}
<1>1. CASE v \in DOMAIN Labels(bits)
  BY <1>1 DEF Lookup, Labels
<1> QED BY <1>1 DEF Lookup

LEMMA NoticeIs ==
  /\ Passes(Notice) /\ Notice \in Sendable
  /\ Len(Notice.args) = 1 /\ IsString(Notice.args[1].type)
  /\ ~Notice.args[1].shared /\ Notice.args[1].length = NoticeLength
<1>1. Passes(Notice)
  BY DEF Passes, Notice, IsSet, LogLevel, LogTopicMask
<1>2. Notice \in Sendable
  BY DEF Sendable
<1>3. Len(Notice.args) = 1 /\ Notice.args[1].type = "const_char_ptr" /\ ~Notice.args[1].shared
      /\ Notice.args[1].length = NoticeLength
  BY DEF Notice
<1>4. TagOf("const_char_ptr") = "CString"
  BY DEF TagOf, IntegerTag, OtherTag
<1> QED BY <1>1, <1>2, <1>3, <1>4 DEF IsString

LEMMA ArgIs ==
  ASSUME NEW m \in Sendable
  PROVE  m.args \in Seq(Args)
<1>1. CASE m \in Messages
  BY <1>1, CodecAssumption
<1>2. CASE m = Notice
  <2>1. "const_char_ptr" \in CppTypes
    BY DEF CppTypes, OtherTag
  <2>2. NoticeLength \in Nat
    BY CodecAssumption
  <2> QED BY <1>2, <2>1, <2>2 DEF Notice, Args
<1> QED BY <1>1, <1>2 DEF Sendable

(***************************************************************************)
(* The buffer: a row of arguments stays one when another is written.       *)
(***************************************************************************)

LEMMA WellFormedSame ==
  ASSUME NEW m, NEW k, WellFormed(m), k.size = m.size, k.starts = m.starts, k.data = m.data
  PROVE  WellFormed(k)
BY DEF WellFormed, ArgumentAt, EndOf

LEMMA TopIs ==
  ASSUME TypeOK, calls # << >>
  PROVE  Len(calls) \in Nat \ {0} /\ Len(calls) \in DOMAIN calls /\ Top \in Frames
<1>1. Len(calls) \in Nat \ {0} /\ DOMAIN calls = 1 .. Len(calls)
  BY EmptySeq, LenProperties DEF TypeOK
<1> QED BY <1>1, ElementOfSeq DEF TypeOK, Top

LEMMA SetTopIs ==
  ASSUME TypeOK, calls # << >>, NEW f \in Frames, SetTop(f)
  PROVE  /\ calls' \in Seq(Frames) /\ Len(calls') = Len(calls)
         /\ calls'[Len(calls)] = f
         /\ \A i \in 1 .. Len(calls) - 1 : calls'[i] = calls[i]
BY TopIs, ExceptSeq DEF TypeOK, SetTop

LEMMA WrittenIs ==
  ASSUME TypeOK, calls # << >>, WellFormed(Top), NEW cells \in Seq(Cell), NEW tag \in ArgType,
         Top.size + Len(cells) <= Capacity,
         Len(cells) > 0, cells[1] = <<"tag", tag>>,
         tag # "CString" => Len(cells) = 1 + ReadWidth(tag),
         tag = "CString" => \E n \in Nat : Len(cells) = 3 + n /\ cells[2] = <<"length", n, 1>>
  PROVE  /\ Written(cells) \in Frames /\ WellFormed(Written(cells))
         /\ Written(cells).starts = Append(Top.starts, Top.size)
         /\ Written(cells).msg = Top.msg /\ Written(cells).next = Top.next
         /\ Written(cells).ok = Top.ok /\ Written(cells).noticed = Top.noticed
<1> DEFINE f == Top
           g == Written(cells)
<1>1. /\ f \in Frames /\ f.size \in Nat /\ f.starts \in Seq(Nat) /\ f.data \in Buffer
      /\ Len(f.starts) \in Nat /\ Len(cells) \in Nat /\ Capacity \in Nat
  BY TopIs, LenProperties, CodecAssumption DEF Frames
<1>2. /\ g.size = f.size + Len(cells) /\ g.starts = Append(f.starts, f.size)
      /\ g.msg = f.msg /\ g.next = f.next /\ g.ok = f.ok /\ g.noticed = f.noticed
      /\ g.data = [i \in 0 .. Capacity - 1 |-> IF i >= f.size /\ i < f.size + Len(cells)
                                               THEN cells[i - f.size + 1] ELSE f.data[i]]
  BY <1>1 DEF Written, Frames
<1>3. \A i \in 0 .. Capacity - 1 :
         (i >= f.size /\ i < f.size + Len(cells) => g.data[i] = cells[i - f.size + 1])
         /\ (i < f.size => g.data[i] = f.data[i])
  BY <1>1, <1>2
<1>4. g.data \in Buffer
  <2>1. \A i \in 0 .. Capacity - 1 : f.data[i] \in Cell
    BY <1>1 DEF Buffer
  <2>2. ASSUME NEW i \in 0 .. Capacity - 1, i >= f.size, i < f.size + Len(cells)
        PROVE  cells[i - f.size + 1] \in Cell
    <3>1. i - f.size + 1 \in 1 .. Len(cells)
      BY <1>1, <2>2, SMTT(30)
    <3> QED BY <3>1, ElementOfSeq
  <2> HIDE DEF f, g
  <2> QED BY <1>2, <2>1, <2>2 DEF Buffer
<1>5. g \in Frames
  <2>1. g.starts \in Seq(Nat) /\ g.size \in Nat
    BY <1>1, <1>2, AppendProperties
  <2>2. g = [f EXCEPT !.data = g.data, !.size = g.size, !.starts = g.starts]
    BY <1>1 DEF Written, Frames
  <2> HIDE DEF f, g
  <2> QED BY <1>1, <1>4, <2>1, <2>2 DEF Frames
<1>6. /\ g.starts \in Seq(Nat) /\ Len(g.starts) = Len(f.starts) + 1
      /\ \A j \in 1 .. Len(f.starts) : g.starts[j] = f.starts[j]
      /\ g.starts[Len(f.starts) + 1] = f.size
  BY <1>1, <1>2, AppendProperties
<1>7. ArgumentAt(g, Len(f.starts) + 1)
  <2> DEFINE k == f.size
  <2>1. g.starts[Len(f.starts) + 1] = k /\ k < g.size /\ k \in 0 .. Capacity - 1
    BY <1>1, <1>2, <1>6
  <2>2. g.data[k] = <<"tag", tag>>
    <3>1. g.data[k] = cells[k - k + 1] /\ k - k + 1 = 1
      BY <1>1, <1>3, <2>1, SMTT(30)
    <3> QED BY <3>1
  <2>3. EndOf(g, Len(f.starts) + 1) = k + Len(cells)
    BY <1>1, <1>2, <1>6 DEF EndOf
  <2>4. CASE tag # "CString"
    <3>1. g.data[k][1] = "tag" /\ g.data[k][2] = tag
      BY <2>2
    <3>2. k + Len(cells) = k + 1 + ReadWidth(tag)
      <4>1. Len(cells) = 1 + ReadWidth(tag)
        BY <2>4
      <4>2. ReadWidth(tag) \in Nat
        BY LongAssumption DEF ReadWidth
      <4> HIDE DEF k, f, g
      <4> QED BY <1>1, <2>1, <4>1, <4>2
    <3> HIDE DEF k, g, f
    <3> QED BY <2>1, <2>3, <2>4, <3>1, <3>2 DEF ArgumentAt
  <2>5. CASE tag = "CString"
    <3>1. PICK n \in Nat : Len(cells) = 3 + n /\ cells[2] = <<"length", n, 1>>
      BY <2>5
    <3>2. k + 1 \in 0 .. Capacity - 1 /\ k + 1 >= k /\ k + 1 < k + Len(cells)
      BY <1>1, <2>1, <3>1
    <3>3. g.data[k + 1] = cells[k + 1 - k + 1] /\ k + 1 - k + 1 = 2
      BY <1>1, <1>3, <3>2
    <3>4. g.data[k + 1] = <<"length", n, 1>>
      BY <3>1, <3>3
    <3> HIDE DEF k, g, f
    <3> QED BY <1>1, <2>1, <2>2, <2>3, <2>5, <3>1, <3>4 DEF ArgumentAt
  <2> QED BY <2>4, <2>5
<1>8. ASSUME NEW j \in 1 .. Len(f.starts)
      PROVE  ArgumentAt(g, j)
  <2>1. ArgumentAt(f, j) /\ j \in DOMAIN f.starts
    BY <1>1, LenProperties DEF WellFormed
  <2>2. EndOf(g, j) = EndOf(f, j)
    <3>1. EndOf(g, j) = g.starts[j + 1]
      BY <1>1, <1>6 DEF EndOf
    <3>2. CASE j < Len(f.starts)
      <4>1. j + 1 \in 1 .. Len(f.starts)
        BY <1>1, <3>2
      <4>2. EndOf(f, j) = f.starts[j + 1]
        BY <3>2 DEF EndOf
      <4> QED BY <1>6, <3>1, <4>1, <4>2
    <3>3. CASE ~(j < Len(f.starts))
      <4>1. j = Len(f.starts)
        BY <1>1, <3>3
      <4>2. EndOf(f, j) = f.size
        BY <3>3 DEF EndOf
      <4> QED BY <1>6, <3>1, <4>1, <4>2
    <3> QED BY <3>2, <3>3
  <2>3. EndOf(f, j) <= f.size /\ EndOf(f, j) \in Nat
    <3>1. CASE j < Len(f.starts)
      <4>1. j + 1 \in 1 .. Len(f.starts) /\ j + 1 \in DOMAIN f.starts
        BY <1>1, <3>1, LenProperties, SMTT(30)
      <4>2. ArgumentAt(f, j + 1)
        BY <4>1 DEF WellFormed
      <4>3. f.starts[j + 1] < f.size /\ f.starts[j + 1] \in Nat
        BY <1>1, <4>1, <4>2, ElementOfSeq DEF ArgumentAt
      <4> QED BY <1>1, <3>1, <4>3, SMTT(30) DEF EndOf
    <3>2. CASE ~(j < Len(f.starts))
      BY <1>1, <3>2 DEF EndOf
    <3> QED BY <3>1, <3>2
  <2> DEFINE at == f.starts[j]
  <2>4. at \in Nat /\ at < f.size /\ g.starts[j] = at /\ at \in 0 .. Capacity - 1 /\ at < g.size
    <3>1. at \in Nat /\ at < f.size /\ g.starts[j] = at
      BY <1>1, <1>6, <2>1, ElementOfSeq DEF ArgumentAt
    <3>2. f.size <= Capacity
      BY DEF WellFormed
    <3> HIDE DEF at, f, g
    <3> QED BY <1>1, <1>2, <3>1, <3>2
  <2>5. g.data[at] = f.data[at]
    BY <1>3, <2>4
  <2>6. CASE f.data[at][2] # "CString"
    BY <2>1, <2>2, <2>4, <2>5, <2>6 DEF ArgumentAt
  <2>7. CASE f.data[at][2] = "CString"
    <3>1. /\ f.data[at + 1][1] = "length" /\ f.data[at + 1][2] \in Nat
          /\ EndOf(f, j) = at + 3 + f.data[at + 1][2]
      BY <2>1, <2>7 DEF ArgumentAt
    <3>2. at + 1 \in 0 .. Capacity - 1 /\ at + 1 < f.size
      <4>1. f.size <= Capacity
        BY DEF WellFormed
      <4> DEFINE n == f.data[at + 1][2]
                 e == EndOf(f, j)
                 k == f.size
      <4>2. at \in Nat /\ n \in Nat /\ e = at + 3 + n /\ e <= k /\ k <= Capacity
        BY <2>3, <2>4, <3>1, <4>1
      <4>3. Capacity \in Nat /\ k \in Nat
        BY <1>1
      <4>4. at + 1 < k
        <5> HIDE DEF n, at, e, k
        <5> QED BY <4>2, <4>3
      <4> HIDE DEF n, at, e
      <4> QED BY <4>2, <4>3, <4>4, SMTT(30)
    <3>3. g.data[at + 1] = f.data[at + 1]
      BY <1>3, <3>2
    <3> QED BY <2>1, <2>2, <2>4, <2>5, <2>7, <3>1, <3>3 DEF ArgumentAt
  <2> QED BY <2>6, <2>7
<1>9. WellFormed(g)
  <2>1. g.size <= Capacity
    BY <1>2
  <2>2. g.starts # << >> /\ g.starts[1] = 0
    <3>1. CASE f.starts = << >>
      BY <1>6, <3>1, EmptySeq DEF WellFormed
    <3>2. CASE f.starts # << >>
      <4>1. Len(f.starts) > 0 /\ f.starts[1] = 0
        BY <1>1, <3>2, EmptySeq DEF WellFormed
      <4>2. 1 \in 1 .. Len(f.starts) /\ Len(g.starts) # 0
        BY <1>1, <1>6, <4>1, SMTT(30)
      <4>3. g.starts # << >>
        BY <1>6, <4>2, EmptySeq
      <4> QED BY <1>6, <4>1, <4>2, <4>3, Zenon
    <3> QED BY <3>1, <3>2
  <2>3. \A j \in DOMAIN g.starts : ArgumentAt(g, j)
    <3>1. DOMAIN g.starts = 1 .. Len(f.starts) + 1
      BY <1>6, LenProperties
    <3>2. \A j \in 1 .. Len(f.starts) + 1 : j \in 1 .. Len(f.starts) \/ j = Len(f.starts) + 1
      BY <1>1
    <3> QED BY <1>7, <1>8, <3>1, <3>2
  <2> QED BY <2>1, <2>2, <2>3 DEF WellFormed
<1> QED BY <1>2, <1>5, <1>9

(***************************************************************************)
(* log().                                                                  *)
(***************************************************************************)

CodecOK == TypeOK /\ CodecInv /\ AnnounceInv

\* Of the frame on top: what the invariant says.
LEMMA TopHolds ==
  ASSUME CodecOK, calls # << >>
  PROVE  /\ Top \in Frames /\ FrameInv(Top) /\ WellFormed(Top)
         /\ Len(calls) \in {1, 2} /\ Len(Top.starts) \in Nat
         /\ Top.size \in Nat /\ Top.next \in Nat \ {0} /\ Top.msg \in Sendable
         /\ Top.msg.args \in Seq(Args) /\ Len(Top.msg.args) \in Nat
         /\ HasArg => Arg \in Args /\ ~Top.noticed
         /\ Len(calls) = 2 => /\ Top.msg = Notice /\ ~Top.noticed /\ Top.ok
                              /\ Top.len \in {-1, NoticeLength} /\ (Top.next = 1 => Top.size = 0)
<1>1. Top \in Frames /\ Len(calls) \in Nat \ {0} /\ Len(calls) \in DOMAIN calls
  BY TopIs DEF CodecOK
<1>2. FrameInv(Top) /\ WellFormed(Top)
  BY <1>1 DEF CodecOK, CodecInv, Top, FrameInv
<1>3. Len(calls) \in {1, 2}
  <2>1. Len(calls) <= 2
    BY Zenon DEF CodecOK, AnnounceInv
  <2>2. Len(calls) \in Nat \ {0}
    BY <1>1
  <2>3. \A n \in Nat \ {0} : n <= 2 => n = 1 \/ n = 2
    OBVIOUS
  <2> QED BY <2>1, <2>2, <2>3, Zenon
<1>4. /\ Len(Top.starts) \in Nat /\ Top.size \in Nat /\ Top.next \in Nat \ {0} /\ Top.msg \in Sendable
      /\ Top.msg.args \in Seq(Args) /\ Len(Top.msg.args) \in Nat
  BY <1>1, ArgIs, LenProperties DEF Frames
<1>5. HasArg => Top.next \in 1 .. Len(Top.msg.args) /\ Arg \in Args
  BY <1>4, ElementOfSeq DEF HasArg, Arg
<1>6. CASE Len(calls) = 1
  <2>1. calls[1] = Top /\ (calls[1].noticed => calls[1].next > Len(calls[1].msg.args))
    BY <1>6 DEF CodecOK, AnnounceInv, Top
  <2>2. HasArg => ~Top.noticed
    BY <1>4, <1>5, <2>1
  <2> QED BY <1>1, <1>2, <1>3, <1>4, <1>5, <1>6, <2>2
<1>7. CASE Len(calls) = 2
  <2>1. Top = calls[2]
    BY <1>7 DEF Top
  <2>2. /\ Top.msg = Notice /\ ~Top.noticed /\ Top.ok
        /\ Top.len \in {-1, NoticeLength} /\ (Top.next = 1 => Top.size = 0)
    BY <1>7, <2>1 DEF CodecOK, AnnounceInv
  <2> QED BY <1>1, <1>2, <1>3, <1>4, <1>5, <2>2
<1> QED BY <1>3, <1>6, <1>7

\* An argument has been dealt with, or measured.
LEMMA FrameReplaced ==
  ASSUME CodecOK, HasArg, NEW f \in Frames, FrameInv(f), SetTop(f),
         f.msg = Top.msg, f.noticed = Top.noticed,
         Len(calls) = 2 => f.ok /\ f.len \in {-1, NoticeLength} /\ (f.next = 1 => f.size = 0),
         UNCHANGED <<shared, sent, out, lines, logs>>
  PROVE  CodecOK'
<1>0. calls # << >> /\ TypeOK
  BY DEF HasArg, CodecOK
<1>1. /\ calls' \in Seq(Frames) /\ Len(calls') = Len(calls) /\ calls'[Len(calls)] = f
      /\ \A i \in 1 .. Len(calls) - 1 : calls'[i] = calls[i]
  BY <1>0, SetTopIs
<1>2. Len(calls) \in {1, 2} /\ f.noticed = FALSE /\ calls' # << >>
  <2>1. Len(calls) \in {1, 2} /\ calls' # << >>
    BY <1>0, <1>1, TopHolds, EmptySeq
  <2>2. f.noticed \in BOOLEAN /\ ~f.noticed
    BY <1>0, TopHolds DEF Frames
  <2> QED BY <2>1, <2>2
<1>3. TypeOK'
  BY <1>0, <1>1 DEF TypeOK
<1>4. CodecInv'
  <2>1. \A i \in DOMAIN calls' : FrameInv(calls'[i])
    <3>1. DOMAIN calls' = 1 .. Len(calls) /\ DOMAIN calls = 1 .. Len(calls)
      BY <1>0, <1>1, LenProperties DEF TypeOK
    <3>2. \A i \in DOMAIN calls : FrameInv(calls[i])
      BY DEF CodecOK, CodecInv
    <3>3. \A i \in 1 .. Len(calls) : i = Len(calls) \/ i \in 1 .. Len(calls) - 1
      BY <1>2
    <3> QED BY <1>1, <3>1, <3>2, <3>3
  <2>2. (\A i \in DOMAIN calls : FrameInv(calls[i]))'
    BY <2>1
  <2> QED BY <2>2 DEF CodecOK, CodecInv, PrinterInv
<1>5. AnnounceInv'
  <2>1. CASE Len(calls) = 1
    <3>1. calls[1] = Top /\ calls'[1] = f /\ Len(calls') = 1
      BY <1>1, <2>1 DEF Top
    <3>2. f.msg \in Messages /\ Pending = FALSE
      BY <1>0, <1>2, <2>1, <3>1 DEF CodecOK, AnnounceInv, Pending
    <3>3. Pending' = FALSE
      BY <3>2 DEF Pending, LastLine
    <3> QED BY <1>2, <2>1, <3>1, <3>2, <3>3 DEF CodecOK, AnnounceInv, LastLine
  <2>2. CASE Len(calls) = 2
    <3>1. calls[2] = Top /\ calls'[2] = f /\ calls'[1] = calls[1] /\ Len(calls') = 2
      BY <1>1, <2>2 DEF Top
    <3>2. f.msg = Notice /\ f.ok /\ f.len \in {-1, NoticeLength} /\ (f.next = 1 => f.size = 0)
      BY <1>0, <2>2, TopHolds
    <3>3. Pending' <=> Pending
      BY DEF Pending, LastLine
    <3> QED BY <1>0, <1>2, <2>2, <3>1, <3>2, <3>3 DEF CodecOK, AnnounceInv, LastLine
  <2> QED BY <1>2, <2>1, <2>2
<1> QED BY <1>3, <1>4, <1>5 DEF CodecOK

\* An argument that is dealt with: its frame keeps the invariant if it was written, or not.
LEMMA AcceptedHolds ==
  ASSUME CodecOK, HasArg, NEW f \in Frames, NEW fits \in BOOLEAN, WellFormed(f),
         f.msg = Top.msg, f.next = Top.next, f.ok = Top.ok, f.noticed = Top.noticed,
         Len(f.starts) = IF fits THEN Len(Top.starts) + 1 ELSE Len(Top.starts)
  PROVE  /\ Accepted(f, fits) \in Frames /\ FrameInv(Accepted(f, fits))
         /\ Accepted(f, fits).msg = Top.msg /\ Accepted(f, fits).noticed = Top.noticed
         /\ Accepted(f, fits).next = Top.next + 1 /\ Accepted(f, fits).len = -1
         /\ Accepted(f, fits).ok = (Top.ok /\ fits)
<1> DEFINE g == Accepted(f, fits)
<1>0. calls # << >> /\ Top.next \in Nat \ {0} /\ Top.next <= Len(Top.msg.args) /\ Len(Top.starts) \in Nat
      /\ Len(Top.msg.args) \in Nat
  BY TopHolds DEF HasArg
<1>1. /\ g.msg = f.msg /\ g.data = f.data /\ g.size = f.size /\ g.starts = f.starts
      /\ g.next = f.next + 1 /\ g.len = -1 /\ g.ok = (f.ok /\ fits) /\ g.noticed = f.noticed
  BY DEF Accepted, Frames
<1>2. g \in Frames
  <2>1. -1 \in -1 .. LenRange - 1 /\ f.next + 1 \in Nat \ {0}
    BY <1>0, CodecAssumption
  <2>2. (f.ok /\ fits) \in BOOLEAN
    OBVIOUS
  <2>3. g = [f EXCEPT !.next = f.next + 1, !.len = -1, !.ok = (f.ok /\ fits)]
    BY DEF Accepted
  <2> HIDE DEF g
  <2> QED BY <2>1, <2>2, <2>3 DEF Frames
<1>3. WellFormed(g)
  BY <1>1, WellFormedSame
<1>4. FrameInv(Top)
  BY <1>0, TopHolds
<1>5. g.next <= Len(g.msg.args) + 1 /\ Len(g.starts) <= g.next - 1
  <2>1. Len(Top.starts) <= Top.next - 1
    BY <1>4 DEF FrameInv
  <2> HIDE DEF g
  <2> QED BY <1>0, <1>1, <2>1, SMTT(30)
<1>6. g.ok <=> Len(g.starts) = g.next - 1
  <2>1. (Top.ok <=> Len(Top.starts) = Top.next - 1) /\ Len(Top.starts) <= Top.next - 1
    BY <1>4 DEF FrameInv
  <2> HIDE DEF g
  <2>2. CASE fits
    <3>1. Len(g.starts) = g.next - 1 <=> Len(Top.starts) = Top.next - 1
      BY <1>0, <1>1, <2>2
    <3>2. g.ok <=> Top.ok
      BY <1>1, <2>2
    <3> QED BY <2>1, <3>1, <3>2
  <2>3. CASE ~fits
    <3>1. Len(g.starts) # g.next - 1
      BY <1>0, <1>1, <2>1, <2>3
    <3>2. ~g.ok
      BY <1>1, <2>3
    <3> QED BY <3>1, <3>2
  <2> QED BY <2>2, <2>3
<1> HIDE DEF g
<1>7. FrameInv(g)
  BY <1>3, <1>5, <1>6 DEF FrameInv
<1> QED BY <1>1, <1>2, <1>7 DEF g

\* What write_arg writes, as print() is to show it.
Item(tag, cells) ==
  LET h == IF tag = "CString" THEN 3 ELSE 1
  IN [type |-> tag, cells |-> [k \in 1 .. Len(cells) - h |-> cells[h + k]]]

\* The cells of an argument.
ValueArg(i, T) == <<<<"tag", TagOf(T)>>>> \o Value(i, T)
StringArg(i, a, n) ==
  <<<<"tag", "CString">>, <<"length", n, 1>>, <<"length", n, 2>>>> \o Text(i, a, n)

LEMMA ValueCells ==
  ASSUME NEW T \in CppTypes, ~IsString(T), NEW i \in Nat
  PROVE  LET cells == ValueArg(i, T)
         IN /\ cells \in Seq(Cell) /\ Len(cells) = 1 + SizeOf(T) /\ cells[1] = <<"tag", TagOf(T)>>
            /\ Item(TagOf(T), cells) = [type |-> TagOf(T), cells |-> Value(i, T)]
<1> DEFINE tag == TagOf(T)
           head == <<<<"tag", tag>>>>
           v == Value(i, T)
           n == SizeOf(T)
<1>1. tag \in ArgType \ {"CString"} /\ n \in Nat
  BY TagWidth
<1>2. v \in Seq(Cell) /\ Len(v) = n /\ v = [k \in 1 .. n |-> v[k]]
  <2>1. \A k \in 1 .. n : <<"value", i, k>> \in Cell
    BY <1>1 DEF Cell
  <2> HIDE DEF n
  <2> QED BY <1>1, <2>1 DEF Value, n
<1>3. head \in Seq(Cell) /\ Len(head) = 1 /\ head[1] = <<"tag", tag>>
  <2>1. <<"tag", tag>> \in Cell
    BY <1>1 DEF Cell
  <2> HIDE DEF tag
  <2> QED BY <2>1
<1> HIDE DEF v, head, n
<1>4. /\ head \o v \in Seq(Cell) /\ Len(head \o v) = 1 + n /\ (head \o v)[1] = <<"tag", tag>>
      /\ \A k \in 1 .. n : (head \o v)[1 + k] = v[k]
  <2>1. /\ head \o v \in Seq(Cell) /\ Len(head \o v) = Len(head) + Len(v)
        /\ \A j \in 1 .. Len(head) + Len(v) :
             (head \o v)[j] = IF j <= Len(head) THEN head[j] ELSE v[j - Len(head)]
    BY <1>1, <1>2, <1>3, ConcatProperties
  <2>2. \A k \in 1 .. n : 1 + k \in 1 .. 1 + n /\ ~(1 + k <= 1) /\ 1 + k - 1 = k
    BY <1>1, <1>2, <1>3
  <2>3. \A k \in 1 .. n : (head \o v)[1 + k] = v[k]
    BY <1>1, <1>2, <1>3, <2>1, <2>2
  <2> QED BY <1>1, <1>2, <1>3, <2>1, <2>3
<1>5. Item(tag, head \o v) = [type |-> tag, cells |-> v]
  <2>1. Item(tag, head \o v) = [type |-> tag, cells |-> [k \in 1 .. Len(head \o v) - 1 |-> (head \o v)[1 + k]]]
    BY <1>1 DEF Item
  <2>2. Len(head \o v) - 1 = n
    BY <1>1, <1>4
  <2>3. [k \in 1 .. n |-> (head \o v)[1 + k]] = v
    BY <1>2, <1>4
  <2> QED BY <2>1, <2>2, <2>3
<1> QED BY <1>4, <1>5 DEF head, v, n, ValueArg

LEMMA WriteValueKeeps == CodecOK /\ WriteValue => CodecOK'
<1> SUFFICES ASSUME CodecOK, WriteValue
             PROVE  CodecOK'
  OBVIOUS
<1> DEFINE tag == TagOf(Arg.type)
           cells == ValueArg(Top.next, Arg.type)
<1>1. HasArg /\ ~IsString(Arg.type) /\ UNCHANGED <<shared, sent, out, lines, logs>> /\ calls # << >>
  BY DEF WriteValue, HasArg
<1>2. /\ Arg.type \in CppTypes /\ Top.next \in Nat /\ Top.size \in Nat /\ Capacity \in Nat
      /\ WellFormed(Top) /\ Top \in Frames /\ TypeOK
  BY <1>1, TopHolds, CodecAssumption DEF Args, CodecOK
<1>3. tag \in ArgType \ {"CString"} /\ ReadWidth(tag) = SizeOf(Arg.type) /\ SizeOf(Arg.type) \in Nat \ {0}
  BY <1>1, <1>2, TagWidth
<1>4. cells \in Seq(Cell) /\ Len(cells) = 1 + SizeOf(Arg.type) /\ cells[1] = <<"tag", tag>>
  BY <1>1, <1>2, ValueCells
<1>5. ~(Len(calls) = 2)
  <2>1. SUFFICES ASSUME Len(calls) = 2
                 PROVE  FALSE
    OBVIOUS
  <2>2. Top.msg = Notice /\ Top.next = 1
    <3>1. Top.msg = Notice /\ Top.next \in Nat \ {0}
      BY <1>1, <2>1, TopHolds
    <3>2. Top.next <= 1
      BY <1>1, <3>1, NoticeIs DEF HasArg
    <3> QED BY <3>1, <3>2
  <2> QED BY <1>1, <2>2, NoticeIs DEF Arg
<1>6. CASE Fits(1 + SizeOf(Arg.type))
  <2> DEFINE f == Written(cells)
  <2>1. Top.size + Len(cells) <= Capacity /\ Len(cells) > 0
    <3> HIDE DEF cells
    <3> QED BY <1>2, <1>3, <1>4, <1>6 DEF Fits
  <2>2. Len(cells) = 1 + ReadWidth(tag)
    BY <1>3, <1>4
  <2>3. /\ f \in Frames /\ WellFormed(f) /\ f.starts = Append(Top.starts, Top.size)
        /\ f.msg = Top.msg /\ f.next = Top.next /\ f.ok = Top.ok /\ f.noticed = Top.noticed
    <3> HIDE DEF cells, tag
    <3> QED BY <1>1, <1>2, <1>3, <1>4, <2>1, <2>2, WrittenIs
  <2>4. Len(f.starts) = Len(Top.starts) + 1
    BY <1>2, <2>3, AppendProperties DEF Frames
  <2>5. SetTop(Accepted(f, TRUE))
    BY <1>6 DEF WriteValue, ValueArg
  <2> HIDE DEF f
  <2> QED BY <1>1, <1>5, <2>3, <2>4, <2>5, AcceptedHolds, FrameReplaced
<1>7. CASE ~Fits(1 + SizeOf(Arg.type))
  <2>1. SetTop(Accepted(Top, FALSE))
    BY <1>7 DEF WriteValue, ValueArg
  <2> QED BY <1>1, <1>2, <1>5, <2>1, AcceptedHolds, FrameReplaced
<1> QED BY <1>6, <1>7

LEMMA MeasureKeeps == CodecOK /\ Measure => CodecOK'
<1> SUFFICES ASSUME CodecOK, Measure
             PROVE  CodecOK'
  OBVIOUS
<1>1. HasArg /\ IsString(Arg.type) /\ UNCHANGED <<shared, sent, out, lines, logs>> /\ calls # << >>
  BY DEF Measure, HasArg
<1>2. PICK n \in 0 .. SharedBytes \cup {Arg.length} :
        StrLenIs(Arg, n) /\ SetTop([Top EXCEPT !.len = n % LenRange])
  BY DEF Measure
<1>3. Top \in Frames /\ FrameInv(Top) /\ Top.next \in Nat \ {0}
  BY <1>1, TopHolds
<1>4. n \in Nat /\ LenRange \in Nat \ {0}
  BY <1>1, TopHolds, CodecAssumption DEF Args
<1>5. n % LenRange \in 0 .. LenRange - 1
  BY <1>4, Z3
<1> DEFINE f == [Top EXCEPT !.len = n % LenRange]
<1>6. /\ f.msg = Top.msg /\ f.data = Top.data /\ f.size = Top.size /\ f.starts = Top.starts
      /\ f.next = Top.next /\ f.len = n % LenRange /\ f.ok = Top.ok /\ f.noticed = Top.noticed
  BY <1>3 DEF Frames
<1>7. f \in Frames
  <2>1. n % LenRange \in -1 .. LenRange - 1
    BY <1>4, <1>5
  <2> QED BY <1>3, <2>1 DEF Frames
<1>8. FrameInv(f)
  <2>1. WellFormed(f)
    BY <1>3, <1>6, WellFormedSame DEF FrameInv
  <2> QED BY <1>3, <1>6, <2>1, Zenon DEF FrameInv
<1>9. Len(calls) = 2 => f.ok /\ f.len \in {-1, NoticeLength} /\ (f.next = 1 => f.size = 0)
  <2>1. SUFFICES ASSUME Len(calls) = 2
                 PROVE  f.ok /\ f.len \in {-1, NoticeLength} /\ (f.next = 1 => f.size = 0)
    OBVIOUS
  <2>2. Top.msg = Notice /\ Top.ok /\ (Top.next = 1 => Top.size = 0)
    BY <1>1, <2>1, TopHolds
  <2>3. Top.next = 1
    <3>1. Top.next <= 1
      BY <1>1, <2>2, NoticeIs DEF HasArg
    <3> QED BY <1>3, <3>1
  <2>4. n = NoticeLength
    BY <1>2, <2>2, <2>3, NoticeIs DEF Arg, StrLenIs
  <2>5. NoticeLength \in Nat /\ NoticeLength < LenRange
    BY CodecAssumption
  <2>6. n % LenRange = NoticeLength
    BY <1>4, <2>4, <2>5, Z3
  <2> HIDE DEF f
  <2> QED BY <1>6, <2>2, <2>6
<1> HIDE DEF f
<1> QED BY <1>1, <1>2, <1>6, <1>7, <1>8, <1>9, FrameReplaced DEF f

LEMMA StringCells ==
  ASSUME TypeOK, NEW a, NEW i \in Nat, NEW n \in Nat
  PROVE  LET cells == StringArg(i, a, n)
         IN /\ cells \in Seq(Cell) /\ Len(cells) = 3 + n
            /\ cells[1] = <<"tag", "CString">> /\ cells[2] = <<"length", n, 1>>
            /\ Item("CString", cells) = [type |-> "CString", cells |-> Text(i, a, n)]
<1> DEFINE head == <<<<"tag", "CString">>, <<"length", n, 1>>, <<"length", n, 2>>>>
           t == Text(i, a, n)
<1>1. t \in Seq(Cell) /\ Len(t) = n /\ t = [k \in 1 .. n |-> t[k]]
  <2>1. \A k \in 1 .. n : <<"char", i, k>> \in Cell /\ <<"beyond", k, 0>> \in Cell
    BY DEF Cell
  <2>2. ASSUME NEW k \in 1 .. n, k <= SharedBytes
        PROVE  <<"shared", k, shared[k - 1]>> \in Cell
    <3>1. k - 1 \in 0 .. SharedBytes - 1
      BY <2>2, CodecAssumption
    <3>2. shared[k - 1] \in Nat
      BY <3>1 DEF TypeOK
    <3> QED BY <3>2 DEF Cell
  <2> QED BY <2>1, <2>2 DEF Text
<1>2. head \in Seq(Cell) /\ Len(head) = 3 /\ head[1] = <<"tag", "CString">> /\ head[2] = <<"length", n, 1>>
  <2>1. <<"tag", "CString">> \in Cell /\ <<"length", n, 1>> \in Cell /\ <<"length", n, 2>> \in Cell
    BY DEF Cell, ArgType
  <2> QED BY <2>1
<1> HIDE DEF t, head
<1>3. /\ head \o t \in Seq(Cell) /\ Len(head \o t) = 3 + n
      /\ (head \o t)[1] = <<"tag", "CString">> /\ (head \o t)[2] = <<"length", n, 1>>
      /\ \A k \in 1 .. n : (head \o t)[3 + k] = t[k]
  <2>1. /\ head \o t \in Seq(Cell) /\ Len(head \o t) = Len(head) + Len(t)
        /\ \A j \in 1 .. Len(head) + Len(t) :
             (head \o t)[j] = IF j <= Len(head) THEN head[j] ELSE t[j - Len(head)]
    BY <1>1, <1>2, ConcatProperties
  <2>2. \A k \in 1 .. n : 3 + k \in 1 .. 3 + n /\ ~(3 + k <= 3) /\ 3 + k - 3 = k
    BY <1>1, <1>2
  <2>3. \A k \in 1 .. n : (head \o t)[3 + k] = t[k]
    BY <1>1, <1>2, <2>1, <2>2, SMTT(30)
  <2> QED BY <1>1, <1>2, <2>1, <2>3
<1>4. Item("CString", head \o t) = [type |-> "CString", cells |-> t]
  <2>1. Item("CString", head \o t)
          = [type |-> "CString", cells |-> [k \in 1 .. Len(head \o t) - 3 |-> (head \o t)[3 + k]]]
    BY DEF Item
  <2>2. Len(head \o t) - 3 = n
    BY <1>3
  <2>3. [k \in 1 .. n |-> (head \o t)[3 + k]] = t
    BY <1>1, <1>3
  <2> QED BY <2>1, <2>2, <2>3
<1> QED BY <1>3, <1>4 DEF head, t, StringArg

LEMMA WriteStringKeeps == CodecOK /\ WriteString => CodecOK'
<1> SUFFICES ASSUME CodecOK, WriteString
             PROVE  CodecOK'
  OBVIOUS
<1> DEFINE n == Top.len
           cells == StringArg(Top.next, Arg, n)
<1>1. HasArg /\ IsString(Arg.type) /\ UNCHANGED <<shared, sent, out, lines, logs>> /\ calls # << >> /\ Top.len # -1
  BY DEF WriteString, HasArg
<1>2. /\ Top.next \in Nat \ {0} /\ Top.size \in Nat /\ Capacity \in Nat /\ n \in Nat
      /\ WellFormed(Top) /\ Top \in Frames /\ TypeOK
  BY <1>1, TopHolds, CodecAssumption DEF CodecOK, Frames
<1>3. cells \in Seq(Cell) /\ Len(cells) = 3 + n /\ cells[1] = <<"tag", "CString">> /\ cells[2] = <<"length", n, 1>>
  <2> DEFINE i == Top.next
  <2>1. i \in Nat /\ n \in Nat /\ TypeOK /\ cells = StringArg(i, Arg, n)
    BY <1>2
  <2> HIDE DEF i, n, cells
  <2> QED BY <2>1, StringCells
<1>4. Len(calls) = 2 => Top.msg = Notice /\ Top.next = 1 /\ Top.ok /\ Top.size = 0 /\ n = NoticeLength
  <2>1. SUFFICES ASSUME Len(calls) = 2
                 PROVE  Top.msg = Notice /\ Top.next = 1 /\ Top.ok /\ Top.size = 0 /\ n = NoticeLength
    OBVIOUS
  <2>2. Top.msg = Notice /\ Top.ok /\ (Top.next = 1 => Top.size = 0) /\ Top.len \in {-1, NoticeLength}
    BY <1>1, <2>1, TopHolds
  <2>3. Top.next = 1
    <3>1. Top.next <= 1
      BY <1>1, <2>2, NoticeIs DEF HasArg
    <3> QED BY <1>2, <3>1
  <2> QED BY <1>1, <2>2, <2>3
<1>5. CASE Fits(3 + n)
  <2> DEFINE f == Written(cells)
  <2>1. Top.size + Len(cells) <= Capacity /\ Len(cells) > 0
    <3> HIDE DEF cells, n
    <3> QED BY <1>2, <1>3, <1>5 DEF Fits
  <2>2. "CString" \in ArgType
    BY DEF ArgType
  <2>3. /\ f \in Frames /\ WellFormed(f) /\ f.starts = Append(Top.starts, Top.size)
        /\ f.msg = Top.msg /\ f.next = Top.next /\ f.ok = Top.ok /\ f.noticed = Top.noticed
    <3> HIDE DEF cells, n
    <3> QED BY <1>1, <1>2, <1>3, <2>1, <2>2, WrittenIs
  <2>4. Len(f.starts) = Len(Top.starts) + 1
    BY <1>2, <2>3, AppendProperties DEF Frames
  <2>5. SetTop(Accepted(f, TRUE))
    BY <1>5 DEF WriteString, StringArg
  <2> HIDE DEF f
  <2> DEFINE g == Accepted(f, TRUE)
  <2>6. /\ g \in Frames /\ FrameInv(g) /\ g.msg = Top.msg /\ g.noticed = Top.noticed
        /\ g.next = Top.next + 1 /\ g.len = -1 /\ g.ok = (Top.ok /\ TRUE)
    BY <1>1, <2>3, <2>4, AcceptedHolds
  <2> HIDE DEF g
  <2>7. Len(calls) = 2 => g.ok /\ g.len \in {-1, NoticeLength} /\ (g.next = 1 => g.size = 0)
    <3>1. g.next # 1
      BY <1>2, <2>6
    <3>2. Len(calls) = 2 => g.ok
      BY <1>4, <2>6, Zenon
    <3>3. g.len = -1
      BY <2>6
    <3> QED BY <3>1, <3>2, <3>3
  <2> QED BY <1>1, <2>5, <2>6, <2>7, FrameReplaced DEF g
<1>6. CASE ~Fits(3 + n)
  <2>1. ~(Len(calls) = 2)
    <3>1. 3 + NoticeLength <= Capacity /\ Capacity \in Nat
      BY CodecAssumption
    <3> HIDE DEF n
    <3> QED BY <1>4, <1>6, <3>1 DEF Fits
  <2>2. SetTop(Accepted(Top, FALSE))
    BY <1>6 DEF WriteString, StringArg
  <2> QED BY <1>1, <1>2, <2>1, <2>2, AcceptedHolds, FrameReplaced
<1> QED BY <1>5, <1>6

\* log() begins with an empty buffer.
LEMMA FrameIs ==
  ASSUME NEW m \in Sendable
  PROVE  /\ Frame(m) \in Frames /\ FrameInv(Frame(m))
         /\ Frame(m).msg = m /\ Frame(m).next = 1 /\ Frame(m).size = 0 /\ Frame(m).len = -1
         /\ Frame(m).ok = TRUE /\ Frame(m).noticed = FALSE
<1> DEFINE f == Frame(m)
<1>1. /\ f.msg = m /\ f.next = 1 /\ f.size = 0 /\ f.len = -1 /\ f.ok = TRUE /\ f.noticed = FALSE
      /\ f.starts = << >>
  BY DEF Frame
<1>2. [i \in 0 .. Capacity - 1 |-> Zero] \in Buffer
  <2>1. Zero \in Cell
    BY DEF Zero, Cell, ArgType
  <2> QED BY <2>1 DEF Buffer
<1>3. f \in Frames
  <2>1. -1 \in -1 .. LenRange - 1 /\ << >> \in Seq(Nat)
    BY CodecAssumption, EmptySeq
  <2> QED BY <1>2, <2>1 DEF Frame, Frames
<1>4. Len(m.args) \in Nat
  BY ArgIs, LenProperties
<1>5. FrameInv(f)
  <2>1. Len(f.starts) = 0 /\ DOMAIN f.starts = {}
    BY <1>1
  <2>2. WellFormed(f)
    <3>1. 0 <= Capacity
      BY CodecAssumption
    <3> HIDE DEF f
    <3> QED BY <1>1, <2>1, <3>1 DEF WellFormed
  <2> HIDE DEF f
  <2> QED BY <1>1, <1>4, <2>1, <2>2 DEF FrameInv
<1> QED BY <1>1, <1>3, <1>5

LEMMA LogKeeps ==
  ASSUME CodecOK, NEW m \in Messages, Log(m)
  PROVE  CodecOK'
<1>1. calls = << >> /\ calls' = <<Frame(m)>> /\ logs < MaxLogs /\ logs' = logs + 1 /\ UNCHANGED <<shared, sent, out, lines>>
  BY DEF Log
<1>2. m \in Sendable
  BY DEF Sendable
<1>3. /\ Frame(m) \in Frames /\ FrameInv(Frame(m)) /\ Frame(m).msg = m
      /\ Frame(m).ok = TRUE /\ Frame(m).noticed = FALSE
  BY <1>2, FrameIs
<1>4. calls' \in Seq(Frames) /\ Len(calls') = 1 /\ calls'[1] = Frame(m) /\ DOMAIN calls' = {1} /\ calls' # << >>
  <2> DEFINE f == Frame(m)
  <2> HIDE DEF f
  <2> QED BY <1>1, <1>3 DEF f
<1>5. TypeOK'
  <2>1. TypeOK /\ MaxLogs \in Nat
    BY CodecAssumption DEF CodecOK
  <2>2. logs' \in 0 .. MaxLogs
    BY <1>1, <2>1 DEF TypeOK
  <2> QED BY <1>1, <1>4, <2>1, <2>2 DEF TypeOK
<1>6. CodecInv'
  <2>1. CodecInv
    BY DEF CodecOK
  <2>2. (\A i \in DOMAIN calls : FrameInv(calls[i]))'
    BY <1>3, <1>4
  <2> QED BY <1>1, <2>1, <2>2 DEF CodecInv, PrinterInv
<1>7. AnnounceInv'
  <2>1. AnnounceInv /\ Len(calls) = 0
    BY <1>1 DEF CodecOK
  <2>2. ~Pending
    BY <2>1 DEF AnnounceInv
  <2>3. ~Pending'
    BY <1>1, <2>2 DEF Pending, LastLine
  <2>4. /\ \A i \in DOMAIN sent :
             /\ sent[i].msg = Notice => ~Cut(sent[i])
             /\ i > 1 => (Cut(sent[i]) <=> sent[i - 1].msg = Notice)
        /\ sent # << >> => (Cut(sent[1]) <=> lines # << >> /\ LastLine.msg = Notice)
        /\ \A i \in DOMAIN lines : lines[i].msg = Notice => ~Lacks(lines[i])
    BY <2>1, Zenon DEF AnnounceInv
  <2> QED BY <1>1, <1>3, <1>4, <2>3, <2>4 DEF AnnounceInv, LastLine
<1> QED BY <1>5, <1>6, <1>7 DEF CodecOK

\* The call of the notice is on top of that of the message, which is otherwise as it was.
LEMMA LogNoticeIs ==
  ASSUME CodecOK, LogNotice
  PROVE  LET f == [Top EXCEPT !.noticed = TRUE]
             g == Frame(Notice)
         IN /\ calls' \in Seq(Frames) /\ Len(calls') = 2 /\ calls'[1] = f /\ calls'[2] = g
            /\ DOMAIN calls' = {1, 2} /\ calls' # << >>
            /\ Len(calls) = 1 /\ calls[1] = Top /\ Top \in Frames /\ FrameInv(f) /\ FrameInv(g)
            /\ f.msg = Top.msg /\ f.data = Top.data /\ f.size = Top.size /\ f.starts = Top.starts
            /\ f.next = Top.next /\ f.len = Top.len /\ f.ok = Top.ok /\ f.noticed = TRUE
            /\ Top.next > Len(Top.msg.args) /\ ~Top.ok /\ ~Top.noticed
            /\ UNCHANGED <<shared, sent, out, lines, logs>>
<1> DEFINE f == [Top EXCEPT !.noticed = TRUE]
           g == Frame(Notice)
<1>1. /\ calls # << >> /\ Top.next > Len(Top.msg.args) /\ ~Top.ok /\ ~Top.noticed
      /\ UNCHANGED <<shared, sent, out, lines, logs>>
  BY DEF LogNotice, Packed
<1>2. Top \in Frames /\ FrameInv(Top) /\ TypeOK /\ CodecInv /\ AnnounceInv
  BY <1>1, TopHolds DEF CodecOK
<1>3. Len(calls) = 1
  BY <1>1, TopHolds
<1>4. calls[1] = Top
  BY <1>3 DEF Top
<1>5. /\ f \in Frames /\ f.msg = Top.msg /\ f.data = Top.data /\ f.size = Top.size /\ f.starts = Top.starts
      /\ f.next = Top.next /\ f.len = Top.len /\ f.ok = Top.ok /\ f.noticed = TRUE
  BY <1>2 DEF Frames
<1>6. FrameInv(f)
  <2>1. WellFormed(f)
    BY <1>2, <1>5, WellFormedSame DEF FrameInv
  <2> QED BY <1>2, <1>5, <2>1, Zenon DEF FrameInv
<1>7. g \in Frames /\ FrameInv(g) /\ g.msg = Notice /\ g.next = 1 /\ g.size = 0 /\ g.len = -1 /\ g.ok = TRUE /\ g.noticed = FALSE
  BY NoticeIs, FrameIs
<1>8. calls' = Append([calls EXCEPT ![1] = f], g)
  <2>1. calls' = Append([calls EXCEPT ![Len(calls)].noticed = TRUE], Frame(Notice))
    BY DEF LogNotice
  <2>2. [calls EXCEPT ![Len(calls)].noticed = TRUE] = [calls EXCEPT ![1] = [calls[1] EXCEPT !.noticed = TRUE]]
    BY <1>3
  <2> QED BY <1>4, <2>1, <2>2
<1> HIDE DEF f, g
<1>9. calls' \in Seq(Frames) /\ Len(calls') = 2 /\ calls'[1] = f /\ calls'[2] = g /\ DOMAIN calls' = {1, 2} /\ calls' # << >>
  <2>1. calls \in Seq(Frames) /\ 1 \in 1 .. Len(calls)
    BY <1>2, <1>3 DEF TypeOK
  <2> DEFINE c == [calls EXCEPT ![1] = f]
  <2>2. c \in Seq(Frames) /\ Len(c) = 1 /\ c[1] = f
    <3>1. f \in Frames
      BY <1>5
    <3>2. /\ c \in Seq(Frames) /\ Len(c) = Len(calls)
          /\ \A k \in 1 .. Len(calls) : c[k] = IF k = 1 THEN f ELSE calls[k]
      BY <2>1, <3>1, ExceptSeq
    <3> HIDE DEF c
    <3> QED BY <1>3, <2>1, <3>2
  <2> HIDE DEF c
  <2>3. calls' = Append(c, g)
    BY <1>8 DEF c
  <2>4. calls' \in Seq(Frames) /\ Len(calls') = 2 /\ calls' # << >> /\ calls'[1] = c[1] /\ calls'[2] = g
    <3>1. g \in Frames
      BY <1>7
    <3>2. /\ Append(c, g) \in Seq(Frames) /\ Append(c, g) # << >> /\ Len(Append(c, g)) = Len(c) + 1
          /\ \A i \in 1 .. Len(c) : Append(c, g)[i] = c[i]
          /\ Append(c, g)[Len(c) + 1] = g
      <4>1. c \in Seq(Frames)
        BY <2>2
      <4> QED BY <3>1, <4>1, AppendProperties
    <3> QED BY <2>2, <2>3, <3>2
  <2>5. DOMAIN calls' = 1 .. 2
    BY <2>4, LenProperties
  <2> QED BY <2>2, <2>4, <2>5
<1> QED BY <1>1, <1>2, <1>3, <1>4, <1>5, <1>6, <1>7, <1>9 DEF f, g

LEMMA LogNoticeKeeps == CodecOK /\ LogNotice => CodecOK'
<1> SUFFICES ASSUME CodecOK, LogNotice
             PROVE  CodecOK'
  OBVIOUS
<1> DEFINE f == [Top EXCEPT !.noticed = TRUE]
           g == Frame(Notice)
<1>1. /\ calls' \in Seq(Frames) /\ Len(calls') = 2 /\ calls'[1] = f /\ calls'[2] = g
      /\ DOMAIN calls' = {1, 2} /\ calls' # << >>
      /\ Len(calls) = 1 /\ calls[1] = Top /\ FrameInv(f) /\ FrameInv(g)
      /\ f.msg = Top.msg /\ f.next = Top.next /\ f.ok = Top.ok /\ f.noticed = TRUE
      /\ Top.next > Len(Top.msg.args) /\ ~Top.ok /\ ~Top.noticed
      /\ UNCHANGED <<shared, sent, out, lines, logs>>
  BY LogNoticeIs
<1>2. TypeOK /\ CodecInv /\ AnnounceInv /\ calls # << >>
  BY DEF CodecOK, LogNotice, Packed
<1>3. g.msg = Notice /\ g.next = 1 /\ g.size = 0 /\ g.len = -1 /\ g.ok = TRUE /\ g.noticed = FALSE
  BY NoticeIs, FrameIs
<1> HIDE DEF f, g
<1>4. TypeOK'
  BY <1>1, <1>2 DEF TypeOK
<1>5. CodecInv'
  <2>1. (\A i \in DOMAIN calls : FrameInv(calls[i]))'
    BY <1>1
  <2> QED BY <1>1, <1>2, <2>1 DEF CodecInv, PrinterInv
<1>6. AnnounceInv'
  <2>1. ~Pending /\ calls[1].msg \in Messages
    BY <1>1, <1>2, Zenon DEF AnnounceInv
  <2>2. ~Pending'
    BY <1>1, <2>1 DEF Pending, LastLine
  <2>3. /\ \A i \in DOMAIN sent :
             /\ sent[i].msg = Notice => ~Cut(sent[i])
             /\ i > 1 => (Cut(sent[i]) <=> sent[i - 1].msg = Notice)
        /\ sent # << >> => (Cut(sent[1]) <=> lines # << >> /\ LastLine.msg = Notice)
        /\ \A i \in DOMAIN lines : lines[i].msg = Notice => ~Lacks(lines[i])
    BY <1>2, Zenon DEF AnnounceInv
  <2> QED BY <1>1, <1>3, <2>1, <2>2, <2>3 DEF AnnounceInv, LastLine
<1> QED BY <1>4, <1>5, <1>6 DEF CodecOK

LEMMA FrontIs ==
  ASSUME NEW T, NEW s \in Seq(T), s # << >>
  PROVE  /\ Front(s) \in Seq(T) /\ Len(Front(s)) = Len(s) - 1
         /\ \A i \in 1 .. Len(s) - 1 : Front(s)[i] = s[i]
<1>1. Len(s) \in Nat \ {0}
  BY EmptySeq
<1>2. 1 \in 1 .. Len(s) + 1 /\ Len(s) - 1 \in 0 .. Len(s)
  BY <1>1
<1>3. SubSeq(s, 1, Len(s) - 1) \in Seq(T) /\ Len(SubSeq(s, 1, Len(s) - 1)) = Len(s) - 1
  BY <1>1, <1>2
<1>4. \A i \in 1 .. Len(s) - 1 : SubSeq(s, 1, Len(s) - 1)[i] = s[i]
  BY <1>1, <1>2
<1> QED BY <1>3, <1>4 DEF Front

\* What push() hands over is the buffer, as it is.
LEMMA PushIs ==
  ASSUME CodecOK, Push
  PROVE  LET p == [msg |-> Top.msg, data |-> Top.data, size |-> Top.size, starts |-> Top.starts]
             n == Len(sent)
         IN /\ p \in Packets /\ p.msg = Top.msg /\ p.starts = Top.starts /\ p.size = Top.size /\ p.data = Top.data
            /\ Len(p.starts) <= Len(p.msg.args) /\ (Cut(p) <=> ~Top.ok)
            /\ WellFormed(p) /\ PacketInv(p)
            /\ n \in Nat /\ sent' \in Seq(Packets) /\ Len(sent') = n + 1 /\ sent' # << >> /\ sent'[n + 1] = p
            /\ \A i \in 1 .. n : sent'[i] = sent[i]
            /\ DOMAIN sent = 1 .. n /\ DOMAIN sent' = 1 .. n + 1
            /\ (sent = << >> <=> n = 0) /\ (n > 0 => Head(sent') = Head(sent) /\ Head(sent) = sent[1])
            /\ (n = 0 => Head(sent') = p)
            /\ calls' \in Seq(Frames) /\ Len(calls') = Len(calls) - 1
            /\ Len(calls) = 2 => calls'[1] = calls[1] /\ DOMAIN calls' = {1} /\ calls' # << >>
            /\ Len(calls) = 1 => calls' = << >> /\ DOMAIN calls' = {}
<1> DEFINE p == [msg |-> Top.msg, data |-> Top.data, size |-> Top.size, starts |-> Top.starts]
           n == Len(sent)
<1>1. /\ calls # << >> /\ Top.next > Len(Top.msg.args) /\ (~Top.ok => Top.noticed)
      /\ sent' = Append(sent, p) /\ calls' = Front(calls)
      /\ UNCHANGED <<shared, out, lines, logs>>
  BY NoticeIs DEF Push, Packed
<1>2. /\ Top \in Frames /\ FrameInv(Top) /\ TypeOK /\ CodecInv /\ AnnounceInv
      /\ Len(calls) \in {1, 2} /\ Len(Top.msg.args) \in Nat /\ Len(Top.starts) \in Nat /\ Top.next \in Nat
  BY <1>1, TopHolds DEF CodecOK
<1>3. p \in Packets /\ p.msg = Top.msg /\ p.starts = Top.starts /\ p.size = Top.size /\ p.data = Top.data
  BY <1>2 DEF Frames, Packets
<1>4. Len(p.starts) <= Len(p.msg.args) /\ (Cut(p) <=> ~Top.ok)
  <2>1. /\ Top.next <= Len(Top.msg.args) + 1 /\ Len(Top.starts) <= Top.next - 1
        /\ Top.ok <=> Len(Top.starts) = Top.next - 1
    BY <1>2 DEF FrameInv
  <2>2. Len(Top.starts) <= Len(Top.msg.args) /\ (Len(Top.starts) = Top.next - 1 <=> ~(Len(Top.starts) < Len(Top.msg.args)))
    <3> DEFINE a == Len(Top.msg.args)
               b == Len(Top.starts)
               c == Top.next
    <3>1. a \in Nat /\ b \in Nat /\ c \in Nat /\ c > a /\ c <= a + 1 /\ b <= c - 1
      BY <1>1, <1>2, <2>1
    <3> HIDE DEF a, b, c
    <3>2. b <= a /\ (b = c - 1 <=> ~(b < a))
      BY <3>1
    <3> QED BY <3>2 DEF a, b, c
  <2> HIDE DEF p
  <2>3. Cut(p) <=> Len(Top.starts) < Len(Top.msg.args)
    BY <1>3 DEF Cut
  <2> QED BY <1>3, <2>1, <2>2, <2>3
<1>5. WellFormed(p) /\ PacketInv(p)
  <2>1. WellFormed(p)
    BY <1>2, <1>3, WellFormedSame DEF FrameInv
  <2> QED BY <1>4, <2>1 DEF PacketInv
<1> HIDE DEF p
<1>6. /\ n \in Nat /\ sent' \in Seq(Packets) /\ Len(sent') = n + 1 /\ sent' # << >> /\ sent'[n + 1] = p
      /\ \A i \in 1 .. n : sent'[i] = sent[i]
      /\ DOMAIN sent = 1 .. n /\ DOMAIN sent' = 1 .. n + 1
      /\ (sent = << >> <=> n = 0) /\ (n > 0 => Head(sent') = Head(sent) /\ Head(sent) = sent[1])
      /\ (n = 0 => Head(sent') = p)
  BY <1>1, <1>2, <1>3, AppendProperties, LenProperties, EmptySeq DEF TypeOK
<1>7. /\ calls' \in Seq(Frames) /\ Len(calls') = Len(calls) - 1
      /\ Len(calls) = 2 => calls'[1] = calls[1] /\ DOMAIN calls' = {1} /\ calls' # << >>
      /\ Len(calls) = 1 => calls' = << >> /\ DOMAIN calls' = {}
  <2>1. calls \in Seq(Frames)
    BY <1>2 DEF TypeOK
  <2>2. calls' \in Seq(Frames) /\ Len(calls') = Len(calls) - 1 /\ \A i \in 1 .. Len(calls) - 1 : calls'[i] = calls[i]
    BY <1>1, <2>1, FrontIs
  <2>3. CASE Len(calls) = 2
    <3>1. Len(calls') = 1 /\ calls'[1] = calls[1]
      BY <2>2, <2>3
    <3>2. DOMAIN calls' = {1} /\ calls' # << >>
      <4>1. DOMAIN calls' = 1 .. 1
        BY <2>2, <3>1, LenProperties
      <4>2. calls' # << >>
        BY <3>1, EmptySeq
      <4> QED BY <4>1, <4>2
    <3> QED BY <2>2, <2>3, <3>1, <3>2
  <2>4. CASE Len(calls) = 1
    <3>1. Len(calls') = 0
      BY <2>2, <2>4
    <3>2. calls' = << >> /\ DOMAIN calls' = {}
      BY <2>2, <3>1, LenProperties, EmptySeq
    <3> QED BY <2>2, <2>4, <3>2
  <2> QED BY <1>2, <2>3, <2>4
<1> QED BY <1>3, <1>4, <1>5, <1>6, <1>7 DEF p

LEMMA PushKeeps == CodecOK /\ Push => CodecOK'
<1> SUFFICES ASSUME CodecOK, Push
             PROVE  CodecOK'
  OBVIOUS
<1> DEFINE p == [msg |-> Top.msg, data |-> Top.data, size |-> Top.size, starts |-> Top.starts]
           n == Len(sent)
<1>1. /\ calls # << >> /\ Top.next > Len(Top.msg.args) /\ (~Top.ok => Top.noticed)
      /\ sent' = Append(sent, p) /\ calls' = Front(calls)
      /\ UNCHANGED <<shared, out, lines, logs>>
  BY NoticeIs DEF Push, Packed
<1>2. /\ Top \in Frames /\ FrameInv(Top) /\ TypeOK /\ CodecInv /\ AnnounceInv
      /\ Len(calls) \in {1, 2} /\ Len(Top.msg.args) \in Nat /\ Len(Top.starts) \in Nat /\ Top.next \in Nat
  BY <1>1, TopHolds DEF CodecOK
<1>3. /\ p \in Packets /\ p.msg = Top.msg /\ p.starts = Top.starts /\ p.size = Top.size /\ p.data = Top.data
      /\ Len(p.starts) <= Len(p.msg.args) /\ (Cut(p) <=> ~Top.ok)
      /\ WellFormed(p) /\ PacketInv(p)
      /\ n \in Nat /\ sent' \in Seq(Packets) /\ Len(sent') = n + 1 /\ sent' # << >> /\ sent'[n + 1] = p
      /\ \A i \in 1 .. n : sent'[i] = sent[i]
      /\ DOMAIN sent = 1 .. n /\ DOMAIN sent' = 1 .. n + 1
      /\ (sent = << >> <=> n = 0) /\ (n > 0 => Head(sent') = Head(sent) /\ Head(sent) = sent[1])
      /\ (n = 0 => Head(sent') = p)
      /\ calls' \in Seq(Frames) /\ Len(calls') = Len(calls) - 1
      /\ Len(calls) = 2 => calls'[1] = calls[1] /\ DOMAIN calls' = {1} /\ calls' # << >>
      /\ Len(calls) = 1 => calls' = << >> /\ DOMAIN calls' = {}
  BY PushIs
<1> HIDE DEF p
<1>4. TypeOK'
  BY <1>1, <1>2, <1>3 DEF TypeOK
<1>5. CodecInv'
  <2>1. (\A i \in DOMAIN calls : FrameInv(calls[i]))'
    <3>1. Len(calls) = 2 => FrameInv(calls[1])
      BY <1>2, LenProperties DEF CodecInv, TypeOK
    <3> QED BY <1>2, <1>3, <3>1
  <2>2. (\A i \in DOMAIN sent : PacketInv(sent[i]))'
    <3>1. \A i \in 1 .. n : PacketInv(sent[i])
      BY <1>2, <1>3 DEF CodecInv
    <3>2. \A i \in 1 .. n + 1 : i \in 1 .. n \/ i = n + 1
      BY <1>3
    <3> QED BY <1>3, <3>1, <3>2
  <2>3. PrinterInv'
    <3>1. CASE n = 0
      <4>1. out = Nothing /\ out' = out /\ Head(sent') = p
        BY <1>1, <1>2, <1>3, <3>1 DEF CodecInv, PrinterInv
      <4>2. out'.pos = 0 /\ out'.shown = << >> /\ Len(<< >>) = 0
        BY <4>1 DEF Nothing
      <4>3. EndOf(p, 0) = 0
        <5>1. CASE p.starts = << >>
          BY <1>3, <5>1, EmptySeq DEF WellFormed, EndOf
        <5>2. CASE p.starts # << >>
          BY <1>2, <1>3, <5>2, EmptySeq DEF WellFormed, EndOf, Packets
        <5> QED BY <5>1, <5>2
      <4> QED BY <1>2, <1>3, <4>1, <4>2, <4>3 DEF PrinterInv
    <3>2. CASE n # 0
      BY <1>1, <1>2, <1>3, <3>2 DEF CodecInv, PrinterInv
    <3> QED BY <3>1, <3>2
  <2> QED BY <2>1, <2>2, <2>3 DEF CodecInv
<1>6. (Cut(p) <=> Pending) /\ (p.msg = Notice <=> Len(calls) = 2) /\ (p.msg = Notice => ~Cut(p))
  <2>1. CASE Len(calls) = 2
    <3>1. Top.msg = Notice /\ Top.ok
      BY <1>1, <2>1, TopHolds
    <3>2. ~Pending
      <4>1. ~(Len(calls) = 1)
        BY <2>1
      <4> QED BY <1>2, <4>1, Zenon DEF AnnounceInv
    <3> QED BY <1>3, <2>1, <3>1, <3>2
  <2>2. CASE Len(calls) = 1
    <3>1. calls[1] = Top
      BY <2>2 DEF Top
    <3>2. (Pending <=> Top.noticed) /\ Top.msg \in Messages /\ (Top.noticed => ~Top.ok)
      BY <1>1, <1>2, <2>2, <3>1, Zenon DEF AnnounceInv
    <3>3. p.msg # Notice
      BY <1>3, <3>2, NoticeAssumption
    <3>4. Cut(p) <=> Pending
      BY <1>1, <1>3, <3>2, Zenon
    <3> QED BY <2>2, <3>3, <3>4
  <2> QED BY <1>2, <2>1, <2>2
<1>7. AnnounceInv'
  <2>1. /\ \A i \in DOMAIN sent :
             /\ sent[i].msg = Notice => ~Cut(sent[i])
             /\ i > 1 => (Cut(sent[i]) <=> sent[i - 1].msg = Notice)
        /\ sent # << >> => (Cut(sent[1]) <=> lines # << >> /\ LastLine.msg = Notice)
        /\ \A i \in DOMAIN lines : lines[i].msg = Notice => ~Lacks(lines[i])
    BY <1>2, Zenon DEF AnnounceInv
  <2>2. Pending' <=> Len(calls) = 2
    <3>1. Pending' <=> p.msg = Notice
      BY <1>3 DEF Pending
    <3> QED BY <1>6, <3>1
  <2>3. Len(calls) = 2 =>
          /\ calls[1].msg \in Messages /\ calls[1].noticed
          /\ ~calls[1].ok /\ calls[1].next > Len(calls[1].msg.args)
    BY <1>1, <1>2, Zenon DEF AnnounceInv
  <2>4. (Pending <=> Len(calls) = 1 /\ calls[1].noticed)'
    BY <1>2, <1>3, <2>2, <2>3
  <2>5. (calls # << >> =>
           /\ calls[1].msg \in Messages
           /\ calls[1].noticed => ~calls[1].ok /\ calls[1].next > Len(calls[1].msg.args))'
    <3>1. CASE Len(calls) = 1
      BY <1>3, <3>1, Zenon
    <3>2. CASE Len(calls) = 2
      BY <1>3, <2>3, <3>2, Zenon
    <3> QED BY <1>2, <3>1, <3>2
  <2>6. Len(calls') <= 2 /\ ~(Len(calls') = 2)
    <3> DEFINE k == Len(calls)
               l == Len(calls')
    <3>1. k \in {1, 2} /\ l = k - 1
      BY <1>2, <1>3, Zenon
    <3> HIDE DEF k, l
    <3>2. l <= 2 /\ ~(l = 2)
      BY <3>1
    <3> QED BY <3>2 DEF l
  <2>7. (\A i \in DOMAIN sent : sent[i].msg = Notice => ~Cut(sent[i]))'
    <3>1. ASSUME NEW i \in 1 .. n + 1, sent'[i].msg = Notice
          PROVE  ~Cut(sent'[i])
      <4>1. CASE i = n + 1
        BY <1>3, <1>6, <3>1, <4>1
      <4>2. CASE i # n + 1
        <5>1. i \in DOMAIN sent /\ sent'[i] = sent[i]
          BY <1>3, <4>2
        <5> QED BY <2>1, <3>1, <5>1
      <4> QED BY <4>1, <4>2
    <3>2. \A i \in DOMAIN sent' : sent'[i].msg = Notice => ~Cut(sent'[i])
      BY <1>3, <3>1
    <3> QED BY <3>2 DEF Cut
  <2>8. (\A i \in DOMAIN sent : i > 1 => (Cut(sent[i]) <=> sent[i - 1].msg = Notice))'
    <3>1. ASSUME NEW i \in 1 .. n + 1, i > 1
          PROVE  Cut(sent'[i]) <=> sent'[i - 1].msg = Notice
      <4>1. CASE i = n + 1
        <5>1. sent'[i] = p /\ sent'[i - 1] = sent[n] /\ sent # << >>
          BY <1>3, <3>1, <4>1
        <5>2. Pending <=> sent[n].msg = Notice
          BY <5>1 DEF Pending
        <5> QED BY <1>6, <5>1, <5>2
      <4>2. CASE i # n + 1
        <5>1. i \in DOMAIN sent /\ sent'[i] = sent[i] /\ sent'[i - 1] = sent[i - 1]
          BY <1>3, <3>1, <4>2
        <5> QED BY <2>1, <3>1, <5>1
      <4> QED BY <4>1, <4>2
    <3>2. \A i \in DOMAIN sent' : i > 1 => (Cut(sent'[i]) <=> sent'[i - 1].msg = Notice)
      BY <1>3, <3>1
    <3> QED BY <3>2 DEF Cut
  <2>9. Cut(sent'[1]) <=> lines # << >> /\ LastLine.msg = Notice
    <3>1. CASE n = 0
      <4>1. sent'[1] = p /\ sent = << >>
        BY <1>3, <3>1
      <4>2. Pending <=> lines # << >> /\ LastLine.msg = Notice
        BY <4>1 DEF Pending
      <4> QED BY <1>6, <4>1, <4>2
    <3>2. CASE n # 0
      <4>1. sent'[1] = sent[1] /\ sent # << >>
        BY <1>3, <3>2
      <4> QED BY <2>1, <4>1
    <3> QED BY <3>1, <3>2
  <2>10. (sent # << >> => (Cut(sent[1]) <=> lines # << >> /\ LastLine.msg = Notice))'
    <3>1. Cut(sent'[1]) <=> lines' # << >> /\ LastLine'.msg = Notice
      BY <1>1, <2>9 DEF LastLine
    <3> QED BY <3>1 DEF Cut
  <2>11. (\A i \in DOMAIN lines : lines[i].msg = Notice => ~Lacks(lines[i]))'
    BY <1>1, <2>1
  <2>12. (\A i \in DOMAIN sent :
             /\ sent[i].msg = Notice => ~Cut(sent[i])
             /\ i > 1 => (Cut(sent[i]) <=> sent[i - 1].msg = Notice))'
    BY <2>7, <2>8, Zenon
  <2>13. (Len(calls) = 2 =>
           /\ calls[1].noticed
           /\ calls[2].msg = Notice /\ ~calls[2].noticed /\ calls[2].ok
           /\ calls[2].len \in {-1, NoticeLength}
           /\ calls[2].next = 1 => calls[2].size = 0)'
    BY <2>6
  <2> QED BY <2>4, <2>5, <2>6, <2>10, <2>11, <2>12, <2>13, Zenon DEF AnnounceInv
<1> QED BY <1>4, <1>5, <1>7 DEF CodecOK

(***************************************************************************)
(* print().                                                                *)
(***************************************************************************)

\* print() stands at the end of the message or at the beginning of an argument.
LEMMA AtArgument ==
  ASSUME CodecOK, Printing
  PROVE  LET m == Head(sent)
             j == Len(out.shown) + 1
         IN /\ m \in Packets /\ m = sent[1] /\ 1 \in DOMAIN sent /\ WellFormed(m)
            /\ out.pos \in Nat /\ out.shown \in Seq(Items) /\ Len(out.shown) \in Nat
            /\ m.size \in Nat /\ Len(m.starts) \in Nat
            /\ out.pos <= m.size /\ j <= Len(m.starts) + 1
            /\ out.pos < m.size => /\ j \in DOMAIN m.starts /\ out.pos = m.starts[j]
                                   /\ ArgumentAt(m, j) /\ EndOf(m, j) \in Nat
            /\ out.pos >= m.size => Len(out.shown) = Len(m.starts)
<1> DEFINE m == Head(sent)
           j == Len(out.shown) + 1
<1>1. /\ sent \in Seq(Packets) /\ sent # << >> /\ out \in [pos : Nat, shown : Seq(Items)]
      /\ \A i \in DOMAIN sent : PacketInv(sent[i])
      /\ j - 1 <= Len(m.starts) /\ out.pos = EndOf(m, j - 1)
  <2>1. TypeOK /\ CodecInv /\ sent # << >>
    BY DEF CodecOK, Printing
  <2>2. Len(out.shown) \in Nat
    BY <2>1, LenProperties DEF TypeOK
  <2> QED BY <2>1, <2>2 DEF TypeOK, CodecInv, PrinterInv
<1>2. m \in Packets /\ m = sent[1] /\ 1 \in DOMAIN sent
  BY <1>1
<1>3. /\ WellFormed(m) /\ m.size \in Nat /\ m.starts \in Seq(Nat) /\ Len(m.starts) \in Nat
      /\ DOMAIN m.starts = 1 .. Len(m.starts) /\ j \in Nat \ {0}
  BY <1>1, <1>2, LenProperties DEF PacketInv, Packets
<1> HIDE DEF m
<1>4. \A i \in 1 .. Len(m.starts) : ArgumentAt(m, i) /\ m.starts[i] < m.size /\ m.starts[i] \in Nat
  BY <1>3, ElementOfSeq DEF WellFormed, ArgumentAt
<1>5. out.pos = IF j <= Len(m.starts) THEN m.starts[j] ELSE m.size
  <2>1. j - 1 < Len(m.starts) <=> j <= Len(m.starts)
    BY <1>3
  <2>2. j - 1 + 1 = j
    BY <1>3
  <2> HIDE DEF j
  <2> QED BY <1>1, <2>1, <2>2 DEF EndOf
<1>6. out.pos <= m.size /\ j <= Len(m.starts) + 1 /\ out.shown \in Seq(Items) /\ Len(out.shown) \in Nat /\ out.pos \in Nat
  BY <1>1, <1>3, <1>4, <1>5
<1>7. out.pos < m.size => j \in 1 .. Len(m.starts)
  BY <1>3, <1>5
<1>8. out.pos >= m.size => Len(out.shown) = Len(m.starts)
  BY <1>1, <1>3, <1>4, <1>5
<1>9. j \in 1 .. Len(m.starts) => EndOf(m, j) \in Nat
  BY <1>3, <1>4 DEF EndOf
<1> QED BY <1>2, <1>3, <1>4, <1>5, <1>6, <1>7, <1>8, <1>9 DEF m

\* Printing an argument takes print() to its end.
LEMMA ShownKeeps ==
  ASSUME CodecOK, Printing, out.pos < Size, NEW item \in Items, NEW end \in Nat,
         end = EndOf(Head(sent), Len(out.shown) + 1),
         out' = [pos |-> end, shown |-> Append(out.shown, item)],
         UNCHANGED <<shared, calls, sent, lines, logs>>
  PROVE  CodecOK'
<1>1. sent # << >> /\ TypeOK /\ CodecInv /\ AnnounceInv
  BY DEF Printing, CodecOK
<1>2. /\ out.shown \in Seq(Items) /\ Len(out.shown) + 1 \in DOMAIN Head(sent).starts
      /\ Len(out.shown) \in Nat /\ Len(Head(sent).starts) \in Nat /\ Head(sent).starts \in Seq(Nat)
  BY AtArgument DEF Size, Packets
<1>3. Append(out.shown, item) \in Seq(Items) /\ Len(Append(out.shown, item)) = Len(out.shown) + 1
  BY <1>2, AppendProperties
<1>4. TypeOK'
  BY <1>1, <1>3 DEF TypeOK
<1>5. PrinterInv'
  <2>1. Len(out.shown) + 1 <= Len(Head(sent).starts)
    BY <1>2, LenProperties
  <2>2. sent' = sent /\ out'.pos = end /\ out'.shown = Append(out.shown, item)
    OBVIOUS
  <2> QED BY <1>1, <1>3, <2>1, <2>2 DEF PrinterInv
<1>6. CodecInv'
  BY <1>1, <1>5 DEF CodecInv
<1>7. AnnounceInv'
  BY <1>1 DEF AnnounceInv, Pending, LastLine
<1> QED BY <1>4, <1>6, <1>7 DEF CodecOK

\* What is read is cells.
LEMMA AtIs ==
  ASSUME CodecOK, Printing, NEW pos \in Nat, NEW n \in Nat
  PROVE  At(pos, n) \in Seq(Cell)
<1>1. Data \in Buffer /\ Capacity \in Nat
  BY AtArgument, CodecAssumption DEF Data, Packets
<1>2. ASSUME NEW k \in 1 .. n
      PROVE  (IF pos + k - 1 < Capacity THEN Data[pos + k - 1] ELSE <<"outside", k, 0>>) \in Cell
  <2>1. CASE pos + k - 1 < Capacity
    <3>1. pos + k - 1 \in 0 .. Capacity - 1
      BY <1>1, <2>1
    <3> QED BY <1>1, <2>1, <3>1 DEF Buffer
  <2>2. CASE ~(pos + k - 1 < Capacity)
    <3>1. <<"outside", k, 0>> \in Cell
      BY DEF Cell
    <3> QED BY <2>2, <3>1
  <2> QED BY <2>1, <2>2
<1> QED BY <1>2 DEF At

\* print() takes as many bytes of a value as were written.
LEMMA PrintValueIs ==
  ASSUME CodecOK, PrintValue
  PROVE  LET m == Head(sent)
             j == Len(out.shown) + 1
             w == ReadWidth(TagAt)
         IN /\ Printing /\ out.pos < Size /\ TagAt # "CString" /\ Shown(1, w) /\ TagAt \in ArgType
            /\ UNCHANGED <<shared, calls, sent, lines, logs>>
            /\ w \in Nat /\ out.pos \in Nat /\ EndOf(m, j) \in Nat /\ EndOf(m, j) = out.pos + 1 + w
<1> DEFINE m == Head(sent)
           j == Len(out.shown) + 1
           w == ReadWidth(TagAt)
<1>1. /\ Printing /\ out.pos < Size /\ TagAt # "CString" /\ Shown(1, w)
      /\ UNCHANGED <<shared, calls, sent, lines, logs>>
  BY DEF PrintValue
<1>2. ArgumentAt(m, j) /\ out.pos = m.starts[j] /\ EndOf(m, j) \in Nat /\ out.pos \in Nat
  BY <1>1, AtArgument DEF Size
<1>3. TagAt \in ArgType /\ TagAt = m.data[m.starts[j]][2]
  BY <1>2 DEF ArgumentAt, TagAt, Data
<1>4. EndOf(m, j) = out.pos + 1 + w
  BY <1>1, <1>2, <1>3 DEF ArgumentAt
<1>5. w \in Nat
  BY LongAssumption DEF ReadWidth
<1> HIDE DEF w
<1> QED BY <1>1, <1>2, <1>3, <1>4, <1>5 DEF w

LEMMA PrintValueKeeps == CodecOK /\ PrintValue => CodecOK'
<1> SUFFICES ASSUME CodecOK, PrintValue
             PROVE  CodecOK'
  OBVIOUS
<1> DEFINE m == Head(sent)
           j == Len(out.shown) + 1
           w == ReadWidth(TagAt)
           item == [type |-> TagAt, cells |-> At(out.pos + 1, w)]
<1>1. /\ Printing /\ out.pos < Size /\ TagAt # "CString" /\ Shown(1, w) /\ TagAt \in ArgType
      /\ UNCHANGED <<shared, calls, sent, lines, logs>>
      /\ w \in Nat /\ out.pos \in Nat /\ EndOf(m, j) \in Nat /\ EndOf(m, j) = out.pos + 1 + w
  BY PrintValueIs
<1> HIDE DEF w
<1>2. item \in Items
  <2>1. out.pos + 1 \in Nat
    BY <1>1
  <2> QED BY <1>1, <2>1, AtIs DEF Items
<1>3. out' = [pos |-> EndOf(m, j), shown |-> Append(out.shown, item)]
  BY <1>1 DEF Shown
<1> HIDE DEF item
<1> QED BY <1>1, <1>2, <1>3, ShownKeeps

\* The length print() reads is the one that was written.
LEMMA PrintStringIs ==
  ASSUME CodecOK, PrintString
  PROVE  LET m == Head(sent)
             j == Len(out.shown) + 1
             field == At(out.pos + 1, 2)[1]
             n == IF field[1] = "length" THEN field[2] ELSE 0
         IN /\ Printing /\ out.pos < Size /\ TagAt = "CString" /\ Shown(3, n)
            /\ UNCHANGED <<shared, calls, sent, lines, logs>>
            /\ n \in Nat /\ out.pos \in Nat /\ EndOf(m, j) \in Nat /\ EndOf(m, j) = out.pos + 3 + n
<1> DEFINE m == Head(sent)
           j == Len(out.shown) + 1
           field == At(out.pos + 1, 2)[1]
           n == IF field[1] = "length" THEN field[2] ELSE 0
<1>1. /\ Printing /\ out.pos < Size /\ TagAt = "CString" /\ Shown(3, n)
      /\ UNCHANGED <<shared, calls, sent, lines, logs>>
  BY DEF PrintString
<1>2. /\ ArgumentAt(m, j) /\ out.pos = m.starts[j] /\ EndOf(m, j) \in Nat /\ out.pos \in Nat
      /\ m.size \in Nat /\ WellFormed(m) /\ Len(m.starts) \in Nat /\ j \in DOMAIN m.starts /\ m.starts \in Seq(Nat)
  BY <1>1, AtArgument DEF Size, Packets
<1>3. TagAt = m.data[out.pos][2]
  BY <1>2 DEF ArgumentAt, TagAt, Data
<1>4. /\ m.data[out.pos + 1][1] = "length" /\ m.data[out.pos + 1][2] \in Nat
      /\ EndOf(m, j) = out.pos + 3 + m.data[out.pos + 1][2]
  BY <1>1, <1>2, <1>3 DEF ArgumentAt
<1>5. EndOf(m, j) <= m.size
  <2>1. CASE j < Len(m.starts)
    <3>1. j + 1 \in DOMAIN m.starts
      BY <1>2, <2>1, LenProperties
    <3>2. ArgumentAt(m, j + 1)
      BY <1>2, <3>1 DEF WellFormed
    <3>3. m.starts[j + 1] < m.size /\ m.starts[j + 1] \in Nat
      BY <1>2, <3>1, <3>2, ElementOfSeq, LenProperties DEF ArgumentAt
    <3> QED BY <1>2, <2>1, <3>3, SMTT(30) DEF EndOf
  <2>2. CASE ~(j < Len(m.starts))
    BY <1>2, <2>2 DEF EndOf
  <2> QED BY <2>1, <2>2
<1>6. out.pos + 1 < Capacity
  <2>1. m.size <= Capacity /\ Capacity \in Nat
    BY <1>2, CodecAssumption DEF WellFormed
  <2> DEFINE k == m.data[out.pos + 1][2]
             e == EndOf(m, j)
  <2>2. k \in Nat /\ e = out.pos + 3 + k /\ e <= m.size
    BY <1>4, <1>5
  <2>3. out.pos \in Nat /\ m.size \in Nat
    BY <1>2
  <2> HIDE DEF k, e, m
  <2> QED BY <2>1, <2>2, <2>3
<1>7. field = m.data[out.pos + 1]
  <2>1. field = IF out.pos + 1 + 1 - 1 < Capacity THEN Data[out.pos + 1 + 1 - 1] ELSE <<"outside", 1, 0>>
    BY DEF At
  <2>2. out.pos + 1 + 1 - 1 = out.pos + 1
    BY <1>2
  <2> HIDE DEF field
  <2> QED BY <1>6, <2>1, <2>2 DEF Data
<1>8. n \in Nat /\ EndOf(m, j) = out.pos + 3 + n
  <2> HIDE DEF field
  <2> QED BY <1>4, <1>7
<1> HIDE DEF field
<1> QED BY <1>1, <1>2, <1>8 DEF field

LEMMA PrintStringKeeps == CodecOK /\ PrintString => CodecOK'
<1> SUFFICES ASSUME CodecOK, PrintString
             PROVE  CodecOK'
  OBVIOUS
<1> DEFINE m == Head(sent)
           j == Len(out.shown) + 1
           field == At(out.pos + 1, 2)[1]
           n == IF field[1] = "length" THEN field[2] ELSE 0
<1>1. /\ Printing /\ out.pos < Size /\ TagAt = "CString" /\ Shown(3, n)
      /\ UNCHANGED <<shared, calls, sent, lines, logs>>
      /\ n \in Nat /\ out.pos \in Nat /\ EndOf(m, j) \in Nat /\ EndOf(m, j) = out.pos + 3 + n
  BY PrintStringIs
<1>2. At(out.pos + 3, n) \in Seq(Cell)
  <2>1. out.pos + 3 \in Nat
    BY <1>1
  <2> HIDE DEF n
  <2> QED BY <1>1, <2>1, AtIs
<1> DEFINE item == [type |-> TagAt, cells |-> At(out.pos + 3, n)]
<1>3. item \in Items
  <2>1. TagAt \in ArgType
    BY <1>1 DEF ArgType
  <2> HIDE DEF n
  <2> QED BY <1>2, <2>1 DEF Items
<1>4. out' = [pos |-> EndOf(m, j), shown |-> Append(out.shown, item)]
  <2> HIDE DEF n
  <2> QED BY <1>1 DEF Shown
<1> HIDE DEF item, n
<1> QED BY <1>1, <1>3, <1>4, ShownKeeps

\* What the end of a line does to the queue and to what has been printed.
LEMMA EndLineIs ==
  ASSUME CodecOK, EndLine
  PROVE  LET n == Len(sent)
             k == Len(lines)
             L == lines'[k + 1]
         IN /\ n \in Nat \ {0} /\ k \in Nat /\ DOMAIN sent = 1 .. n /\ DOMAIN lines = 1 .. k
            /\ sent' \in Seq(Packets) /\ Len(sent') = n - 1 /\ DOMAIN sent' = 1 .. n - 1
            /\ (sent' = << >> <=> n = 1)
            /\ \A i \in 1 .. n - 1 : sent'[i] = sent[i + 1]
            /\ lines' \in Seq(Printed) /\ Len(lines') = k + 1 /\ DOMAIN lines' = 1 .. k + 1
            /\ lines' # << >> /\ (lines = << >> <=> k = 0)
            /\ \A i \in 1 .. k : lines'[i] = lines[i]
            /\ L.msg = sent[1].msg /\ (Lacks(L) <=> Cut(sent[1]))
            /\ out' = Nothing /\ UNCHANGED <<shared, calls, logs>>
<1> DEFINE n == Len(sent)
           k == Len(lines)
           m == Head(sent)
           item == [msg |-> m.msg, shown |-> out.shown,
                    level |-> Lookup(LEVEL_LOOKUP, m.msg.level),
                    topic |-> Lookup(TOPIC_LOOKUP, m.msg.topic)]
<1>1. /\ Printing /\ sent # << >> /\ out.pos >= Size /\ lines' = Append(lines, item) /\ sent' = Tail(sent)
      /\ out' = Nothing /\ UNCHANGED <<shared, calls, logs>>
  BY DEF EndLine, Printing
<1>2. /\ m \in Packets /\ m = sent[1] /\ out.shown \in Seq(Items) /\ Len(out.shown) = Len(m.starts)
  BY <1>1, AtArgument DEF Size
<1>3. item \in Printed
  <2>1. Lookup(LEVEL_LOOKUP, m.msg.level) \in LEVEL \cup {"[?]"}
    BY LabelIs DEF LEVEL_LOOKUP
  <2>2. Lookup(TOPIC_LOOKUP, m.msg.topic) \in TOPIC \cup {"[?]"}
    BY LabelIs DEF TOPIC_LOOKUP
  <2>3. m.msg \in Sendable
    BY <1>2 DEF Packets
  <2> QED BY <1>2, <2>1, <2>2, <2>3 DEF Printed
<1>4. sent \in Seq(Packets) /\ lines \in Seq(Printed)
  BY DEF CodecOK, TypeOK
<1>5. /\ item.msg = sent[1].msg /\ (Lacks(item) <=> Cut(sent[1]))
  BY <1>2 DEF Lacks, Cut
<1> HIDE DEF item
<1>6. /\ n \in Nat \ {0} /\ DOMAIN sent = 1 .. n /\ sent' \in Seq(Packets) /\ Len(sent') = n - 1
      /\ \A i \in 1 .. n - 1 : sent'[i] = sent[i + 1]
  BY <1>1, <1>4, HeadTailProperties, LenProperties, EmptySeq
<1>7. DOMAIN sent' = 1 .. n - 1 /\ (sent' = << >> <=> n = 1)
  <2>1. DOMAIN sent' = 1 .. n - 1
    BY <1>6, LenProperties
  <2>2. sent' = << >> <=> Len(sent') = 0
    BY <1>6, EmptySeq
  <2> QED BY <1>6, <2>1, <2>2
<1>8. /\ k \in Nat /\ DOMAIN lines = 1 .. k /\ lines' \in Seq(Printed) /\ Len(lines') = k + 1
      /\ lines' # << >> /\ (lines = << >> <=> k = 0)
      /\ \A i \in 1 .. k : lines'[i] = lines[i]
      /\ lines'[k + 1] = item
  BY <1>1, <1>3, <1>4, AppendProperties, LenProperties, EmptySeq
<1>9. DOMAIN lines' = 1 .. k + 1
  BY <1>8, LenProperties
<1> HIDE DEF n, k
<1> QED BY <1>1, <1>5, <1>6, <1>7, <1>8, <1>9 DEF n, k

LEMMA EndLineKeeps == CodecOK /\ EndLine => CodecOK'
<1> SUFFICES ASSUME CodecOK, EndLine
             PROVE  CodecOK'
  OBVIOUS
<1> DEFINE n == Len(sent)
           k == Len(lines)
           L == lines'[k + 1]
<1>1. /\ n \in Nat \ {0} /\ k \in Nat /\ DOMAIN sent = 1 .. n /\ DOMAIN lines = 1 .. k
      /\ sent' \in Seq(Packets) /\ Len(sent') = n - 1 /\ DOMAIN sent' = 1 .. n - 1
      /\ (sent' = << >> <=> n = 1)
      /\ \A i \in 1 .. n - 1 : sent'[i] = sent[i + 1]
      /\ lines' \in Seq(Printed) /\ Len(lines') = k + 1 /\ DOMAIN lines' = 1 .. k + 1
      /\ lines' # << >> /\ (lines = << >> <=> k = 0)
      /\ \A i \in 1 .. k : lines'[i] = lines[i]
      /\ L.msg = sent[1].msg /\ (Lacks(L) <=> Cut(sent[1]))
      /\ out' = Nothing /\ UNCHANGED <<shared, calls, logs>>
  BY EndLineIs
<1>2. TypeOK /\ CodecInv /\ AnnounceInv
  BY DEF CodecOK
<1> HIDE DEF n, k, L
<1>3. TypeOK'
  <2>1. Nothing \in [pos : Nat, shown : Seq(Items)]
    BY EmptySeq DEF Nothing
  <2> QED BY <1>1, <1>2, <2>1 DEF TypeOK
<1>4. CodecInv'
  <2>1. \A i \in 1 .. n : PacketInv(sent[i])
    BY <1>1, <1>2 DEF CodecInv
  <2>2. \A i \in 1 .. n - 1 : PacketInv(sent'[i])
    <3>1. \A i \in 1 .. n - 1 : i + 1 \in 1 .. n
      BY <1>1
    <3> QED BY <1>1, <2>1, <3>1
  <2>3. (\A i \in DOMAIN sent : PacketInv(sent[i]))'
    BY <1>1, <2>2
  <2>4. PrinterInv'
    <3>1. CASE n = 1
      BY <1>1, <3>1 DEF PrinterInv
    <3>2. CASE n # 1
      <4> DEFINE m == sent'[1]
      <4>1. 1 \in 1 .. n - 1 /\ sent' # << >> /\ Head(sent') = m
        BY <1>1, <3>2
      <4>2. WellFormed(m) /\ m \in Packets
        BY <1>1, <2>2, <4>1, ElementOfSeq DEF PacketInv
      <4> HIDE DEF m
      <4>3. Len(m.starts) \in Nat /\ EndOf(m, 0) = 0
        <5>1. m.starts \in Seq(Nat) /\ Len(m.starts) \in Nat
          BY <4>2, LenProperties DEF Packets
        <5>2. CASE m.starts = << >>
          BY <4>2, <5>1, <5>2, EmptySeq DEF WellFormed, EndOf
        <5>3. CASE m.starts # << >>
          BY <4>2, <5>1, <5>3, EmptySeq DEF WellFormed, EndOf
        <5> QED BY <5>1, <5>2, <5>3
      <4>4. out'.pos = 0 /\ out'.shown = << >> /\ Len(<< >>) = 0
        BY <1>1 DEF Nothing
      <4> QED BY <4>1, <4>3, <4>4 DEF PrinterInv
    <3> QED BY <3>1, <3>2
  <2>5. (\A i \in DOMAIN calls : FrameInv(calls[i]))'
    BY <1>1, <1>2 DEF CodecInv
  <2> QED BY <2>3, <2>4, <2>5 DEF CodecInv
<1>5. AnnounceInv'
  <2>1. /\ \A i \in DOMAIN sent :
             /\ sent[i].msg = Notice => ~Cut(sent[i])
             /\ i > 1 => (Cut(sent[i]) <=> sent[i - 1].msg = Notice)
        /\ sent # << >> => (Cut(sent[1]) <=> lines # << >> /\ LastLine.msg = Notice)
        /\ \A i \in DOMAIN lines : lines[i].msg = Notice => ~Lacks(lines[i])
    BY <1>2, Zenon DEF AnnounceInv
  <2>2. LastLine' = L
    BY <1>1 DEF LastLine, L
  <2>3. sent # << >>
    BY <1>1, EmptySeq DEF n
  <2>4. Pending' <=> Pending
    <3>1. Pending <=> sent[n].msg = Notice
      BY <2>3 DEF Pending, n
    <3>2. CASE n = 1
      BY <1>1, <2>2, <3>1, <3>2 DEF Pending
    <3>3. CASE n # 1
      <4>1. n - 1 \in 1 .. n - 1 /\ n - 1 + 1 = n
        BY <1>1, <3>3
      <4>2. sent'[Len(sent')] = sent[n]
        BY <1>1, <4>1
      <4> QED BY <1>1, <3>1, <3>3, <4>2 DEF Pending
    <3> QED BY <3>2, <3>3
  <2>5. (/\ Len(calls) <= 2
         /\ Pending <=> Len(calls) = 1 /\ calls[1].noticed
         /\ calls # << >> =>
              /\ calls[1].msg \in Messages
              /\ calls[1].noticed => ~calls[1].ok /\ calls[1].next > Len(calls[1].msg.args)
         /\ Len(calls) = 2 =>
              /\ calls[1].noticed
              /\ calls[2].msg = Notice /\ ~calls[2].noticed /\ calls[2].ok
              /\ calls[2].len \in {-1, NoticeLength}
              /\ calls[2].next = 1 => calls[2].size = 0)'
    <3>1. calls' = calls
      BY <1>1
    <3> QED BY <1>2, <2>4, <3>1 DEF AnnounceInv
  <2>6. ASSUME NEW i \in 1 .. n - 1
        PROVE  /\ sent'[i].msg = Notice => ~Cut(sent'[i])
               /\ i > 1 => (Cut(sent'[i]) <=> sent'[i - 1].msg = Notice)
    <3>1. sent'[i] = sent[i + 1] /\ i + 1 \in DOMAIN sent /\ i + 1 > 1 /\ i + 1 - 1 = i
      BY <1>1
    <3>2. i > 1 => sent'[i - 1] = sent[i]
      <4>1. i > 1 => i - 1 \in 1 .. n - 1 /\ i - 1 + 1 = i
        BY <1>1
      <4> QED BY <1>1, <4>1
    <3> QED BY <2>1, <3>1, <3>2
  <2>7. (\A i \in DOMAIN sent :
             /\ sent[i].msg = Notice => ~Cut(sent[i])
             /\ i > 1 => (Cut(sent[i]) <=> sent[i - 1].msg = Notice))'
    <3>1. \A i \in DOMAIN sent' :
             /\ sent'[i].msg = Notice => ~Cut(sent'[i])
             /\ i > 1 => (Cut(sent'[i]) <=> sent'[i - 1].msg = Notice)
      BY <1>1, <2>6
    <3> QED BY <3>1 DEF Cut
  <2>8. (sent # << >> => (Cut(sent[1]) <=> lines # << >> /\ LastLine.msg = Notice))'
    <3>1. CASE n = 1
      BY <1>1, <3>1
    <3>2. CASE n # 1
      <4>1. sent'[1] = sent[2] /\ 2 \in DOMAIN sent /\ 2 > 1 /\ 2 - 1 = 1
        BY <1>1, <3>2
      <4>2. Cut(sent'[1]) <=> sent[1].msg = Notice
        BY <2>1, <4>1
      <4>3. Cut(sent'[1]) <=> lines' # << >> /\ LastLine'.msg = Notice
        BY <1>1, <2>2, <4>2
      <4> QED BY <4>3 DEF Cut
    <3> QED BY <3>1, <3>2
  <2>9. (\A i \in DOMAIN lines : lines[i].msg = Notice => ~Lacks(lines[i]))'
    <3>1. ASSUME NEW i \in 1 .. k + 1, lines'[i].msg = Notice
          PROVE  ~Lacks(lines'[i])
      <4>1. CASE i = k + 1
        <5>1. L.msg = Notice /\ 1 \in DOMAIN sent
          BY <1>1, <3>1, <4>1 DEF L
        <5> QED BY <1>1, <2>1, <4>1, <5>1 DEF L
      <4>2. CASE i # k + 1
        <5>1. i \in DOMAIN lines /\ lines'[i] = lines[i]
          BY <1>1, <4>2
        <5> QED BY <2>1, <3>1, <5>1
      <4> QED BY <4>1, <4>2
    <3>2. \A i \in DOMAIN lines' : lines'[i].msg = Notice => ~Lacks(lines'[i])
      BY <1>1, <3>1
    <3> QED BY <3>2 DEF Lacks
  <2> QED BY <2>5, <2>7, <2>8, <2>9, Zenon DEF AnnounceInv
<1> QED BY <1>3, <1>4, <1>5 DEF CodecOK

LEMMA CodecKeeps == CodecOK /\ Next => CodecOK'
<1> SUFFICES ASSUME CodecOK, Next
             PROVE  CodecOK'
  OBVIOUS
<1> QED BY LogKeeps, WriteValueKeeps, MeasureKeeps, WriteStringKeeps, LogNoticeKeeps, PushKeeps,
           PrintValueKeeps, PrintStringKeeps, EndLineKeeps DEF Next, LogStep, PrintStep

\* A line that lacks an argument follows its notice.
LEMMA AnnouncedKeeps == CodecOK /\ CutIsAnnounced /\ Next => CutIsAnnounced'
<1> SUFFICES ASSUME CodecOK, CutIsAnnounced, Next
             PROVE  CutIsAnnounced'
  OBVIOUS
<1>1. CASE UNCHANGED lines
  BY <1>1 DEF CutIsAnnounced
<1>2. CASE EndLine
  <2> DEFINE k == Len(lines)
             L == lines'[k + 1]
  <2>1. /\ k \in Nat /\ DOMAIN lines = 1 .. k /\ Len(lines') = k + 1 /\ DOMAIN lines' = 1 .. k + 1
        /\ (lines = << >> <=> k = 0) /\ sent # << >>
        /\ \A i \in 1 .. k : lines'[i] = lines[i]
        /\ L.msg = sent[1].msg /\ (Lacks(L) <=> Cut(sent[1]))
    BY <1>2, EndLineIs, EmptySeq DEF EndLine, Printing
  <2>2. /\ Cut(sent[1]) <=> lines # << >> /\ lines[k].msg = Notice
        /\ \A i \in DOMAIN lines : lines[i].msg = Notice => ~Lacks(lines[i])
    <3>1. AnnounceInv
      BY DEF CodecOK
    <3> QED BY <2>1, <3>1, Zenon DEF AnnounceInv, LastLine
  <2> HIDE DEF k, L
  <2>3. ASSUME NEW l \in 1 .. k + 1
        PROVE  /\ Lacks(lines'[l]) => l > 1 /\ lines'[l - 1].msg = Notice /\ ~Lacks(lines'[l - 1])
               /\ lines'[l].msg = Notice /\ l < k + 1 => Lacks(lines'[l + 1])
    <3>1. CASE l = k + 1
      <4>1. Lacks(lines'[l]) => k > 0 /\ lines[k].msg = Notice /\ ~Lacks(lines[k])
        <5>1. Lacks(lines'[l]) => lines # << >> /\ lines[k].msg = Notice
          BY <2>1, <2>2, <3>1 DEF L
        <5>2. lines # << >> => k > 0 /\ k \in DOMAIN lines
          BY <2>1
        <5> QED BY <2>2, <5>1, <5>2
      <4>2. k > 0 => lines'[l - 1] = lines[k] /\ l > 1
        BY <2>1, <3>1
      <4>3. ~(l < k + 1)
        BY <2>1, <3>1
      <4> QED BY <4>1, <4>2, <4>3
    <3>2. CASE l # k + 1
      <4>1. l \in DOMAIN lines /\ lines'[l] = lines[l] /\ (l > 1 => lines'[l - 1] = lines[l - 1])
        BY <2>1, <3>2
      <4>2. Lacks(lines[l]) => l > 1 /\ lines[l - 1].msg = Notice /\ ~Lacks(lines[l - 1])
        BY <4>1 DEF CutIsAnnounced
      <4>3. lines[l].msg = Notice => Lacks(lines'[l + 1])
        <5>1. CASE l = k
          <6>1. lines[l].msg = Notice => Cut(sent[1])
            BY <2>1, <2>2, <4>1, <5>1
          <6> QED BY <2>1, <5>1, <6>1 DEF L
        <5>2. CASE l # k
          <6>1. l < Len(lines) /\ lines'[l + 1] = lines[l + 1]
            BY <2>1, <4>1, <5>2 DEF k
          <6> QED BY <4>1, <6>1 DEF CutIsAnnounced
        <5> QED BY <5>1, <5>2
      <4> QED BY <4>1, <4>2, <4>3
    <3> QED BY <3>1, <3>2
  <2>4. \A l \in DOMAIN lines' :
          /\ Lacks(lines'[l]) => l > 1 /\ lines'[l - 1].msg = Notice /\ ~Lacks(lines'[l - 1])
          /\ lines'[l].msg = Notice /\ l < Len(lines') => Lacks(lines'[l + 1])
    BY <2>1, <2>3
  <2> QED BY <2>4 DEF CutIsAnnounced, Lacks
<1> QED BY <1>1, <1>2 DEF Next, LogStep, PrintStep, Log, WriteValue, Measure, WriteString,
                          LogNotice, Push, PrintValue, PrintString

\* Neither side leaves the buffer, and print() does not leave what was written.
LEMMA StaysInBounds == CodecOK => InBounds
<1> SUFFICES ASSUME CodecOK
             PROVE  InBounds
  OBVIOUS
<1>1. \A i \in DOMAIN calls : calls[i].size <= Capacity
  BY DEF CodecOK, CodecInv, FrameInv, WellFormed
<1>2. Printing => Size <= Capacity /\ out.pos <= Size
  BY AtArgument DEF Size, WellFormed
<1> QED BY <1>1, <1>2 DEF InBounds

(***************************************************************************)
(* What is in a buffer, argument by argument.                              *)
(***************************************************************************)

\* Induction over the naturals, for a set: a subset of Nat that lacks a number lacks a least one.
LEMMA NatSetInduction ==
  ASSUME NEW S, 0 \in S, \A n \in Nat : n \in S => n + 1 \in S
  PROVE  Nat \subseteq S
<1> DEFINE T == Nat \ S
           R == OpToRel(<, Nat)
<1>1. IsWellFoundedOn(R, Nat)
  BY NatLessThanWellFounded
<1>2. SUFFICES ASSUME T # {} PROVE FALSE
  OBVIOUS
<1>3. T \subseteq Nat
  OBVIOUS
<1>4. PICK x \in T : \A y \in T : ~(<<y, x>> \in R)
  <2> HIDE DEF T, R
  <2> QED BY <1>1, <1>2, <1>3, WFMin
<1>5. x - 1 \in T /\ x - 1 < x
  OBVIOUS
<1>6. <<x - 1, x>> \in R
  BY <1>5 DEF OpToRel
<1> QED BY <1>4, <1>5, <1>6

\* What is kept of the first i arguments follows from what is kept of those before.
LEMMA PackingIs ==
  ASSUME NEW args, Len(args) \in Nat
  PROVE  \A i \in 0 .. Len(args) :
           Packing(args)[i] = IF i = 0 THEN [used |-> 0, which |-> << >>]
                              ELSE KeptNext(Packing(args)[i - 1], args[i], i)
<1> DEFINE First == [used |-> 0, which |-> << >>]
           Step(f, i) == IF i = 0 THEN First ELSE KeptNext(f[i - 1], args[i], i)
           S == {n \in Nat : \E f : f = [i \in 0 .. n |-> Step(f, i)]}
<1>1. 0 \in S
  <2> DEFINE f == [i \in 0 .. 0 |-> First]
  <2>1. f = [i \in 0 .. 0 |-> Step(f, i)]
    <3>1. \A i \in 0 .. 0 : Step(f, i) = First
      OBVIOUS
    <3> HIDE DEF Step, First
    <3> QED BY <3>1
  <2> QED BY <2>1
<1>2. ASSUME NEW n \in Nat, n \in S
      PROVE  n + 1 \in S
  <2>1. PICK f : f = [i \in 0 .. n |-> Step(f, i)]
    BY <1>2
  <2> DEFINE g == [i \in 0 .. n + 1 |-> IF i <= n THEN f[i] ELSE Step(f, i)]
  <2>2. ASSUME NEW i \in 0 .. n + 1
        PROVE  g[i] = Step(g, i)
    <3>1. Step(g, i) = Step(f, i)
      <4>1. i # 0 => i - 1 \in 0 .. n + 1 /\ i - 1 <= n
        OBVIOUS
      <4>2. i # 0 => g[i - 1] = f[i - 1]
        BY <4>1
      <4> HIDE DEF g
      <4> QED BY <4>2
    <3>2. i <= n => f[i] = Step(f, i)
      <4>1. i <= n => i \in 0 .. n
        OBVIOUS
      <4> HIDE DEF Step
      <4> QED BY <2>1, <4>1
    <3> HIDE DEF Step
    <3> QED BY <3>1, <3>2
  <2>3. g = [i \in 0 .. n + 1 |-> Step(g, i)]
    <3>1. g = [i \in 0 .. n + 1 |-> g[i]]
      OBVIOUS
    <3> HIDE DEF Step, g
    <3> QED BY <2>2, <3>1
  <2> HIDE DEF Step, g
  <2> QED BY <2>3
<1>3. Len(args) \in S
  <2> HIDE DEF S
  <2>1. Nat \subseteq S
    BY <1>1, <1>2, NatSetInduction
  <2> QED BY <2>1
<1>4. \E f : f = [i \in 0 .. Len(args) |-> Step(f, i)]
  <2> HIDE DEF Step
  <2> QED BY <1>3
<1>5. Packing(args) = CHOOSE f : f = [i \in 0 .. Len(args) |-> Step(f, i)]
  BY Zenon DEF Packing
<1>6. Packing(args) = [i \in 0 .. Len(args) |-> Step(Packing(args), i)]
  <2> HIDE DEF Step
  <2> QED BY <1>4, <1>5, Zenon
<1>7. ASSUME NEW i \in 0 .. Len(args)
      PROVE  Packing(args)[i] = Step(Packing(args), i)
  <2> DEFINE p == Packing(args)
  <2> HIDE DEF Step
  <2>1. p = [j \in 0 .. Len(args) |-> Step(p, j)]
    BY <1>6
  <2> HIDE DEF p
  <2> QED BY <2>1 DEF p
<1> QED BY <1>7, Zenon
\* The arguments of a buffer lie inside what is written.
LEMMA ArgumentsInside ==
  ASSUME NEW m, WellFormed(m), m.starts \in Seq(Nat), m.size \in Nat, NEW j \in DOMAIN m.starts
  PROVE  /\ m.starts[j] \in Nat /\ m.starts[j] < EndOf(m, j)
         /\ EndOf(m, j) \in Nat /\ EndOf(m, j) <= m.size /\ m.starts[j] < m.size
         /\ m.data[m.starts[j]][2] = "CString" => m.starts[j] + 3 <= EndOf(m, j)
<1>1. Len(m.starts) \in Nat /\ DOMAIN m.starts = 1 .. Len(m.starts)
  BY LenProperties
<1>2. \A i \in 1 .. Len(m.starts) : m.starts[i] \in Nat /\ m.starts[i] < m.size
  BY <1>1, ElementOfSeq DEF WellFormed, ArgumentAt
<1>3. EndOf(m, j) \in Nat /\ EndOf(m, j) <= m.size
  <2>1. CASE j < Len(m.starts)
    <3>1. j + 1 \in 1 .. Len(m.starts)
      BY <1>1, <2>1
    <3> QED BY <1>2, <2>1, <3>1 DEF EndOf
  <2>2. CASE ~(j < Len(m.starts))
    BY <2>2 DEF EndOf
  <2> QED BY <2>1, <2>2
<1> DEFINE at == m.starts[j]
           tag == m.data[at][2]
<1>4. ArgumentAt(m, j) /\ at \in Nat /\ at < m.size
  BY <1>1, <1>2 DEF WellFormed
<1>5. CASE tag = "CString"
  <2>1. PICK n \in Nat : EndOf(m, j) = at + 3 + n
    BY <1>4, <1>5 DEF ArgumentAt
  <2> HIDE DEF at, tag
  <2>2. at < EndOf(m, j) /\ at + 3 <= EndOf(m, j)
    BY <1>4, <2>1
  <2> QED BY <1>3, <1>4, <2>2 DEF at
<1>6. CASE tag # "CString"
  <2>1. EndOf(m, j) = at + 1 + ReadWidth(tag)
    BY <1>4, <1>6 DEF ArgumentAt
  <2>2. ReadWidth(tag) \in Nat
    BY LongAssumption DEF ReadWidth
  <2> DEFINE w == ReadWidth(tag)
  <2>3. at < EndOf(m, j)
    <3>1. EndOf(m, j) = at + 1 + w /\ w \in Nat
      BY <2>1, <2>2
    <3> HIDE DEF at, tag, w
    <3> QED BY <1>4, <3>1
  <2> HIDE DEF at, w
  <2> QED BY <1>3, <1>4, <1>6, <2>3 DEF at, tag
<1> QED BY <1>5, <1>6

\* An argument that is written leaves those before it as they are, and is the next one.
LEMMA WrittenItems ==
  ASSUME TypeOK, calls # << >>, WellFormed(Top), NEW cells \in Seq(Cell), NEW tag \in ArgType,
         Top.size + Len(cells) <= Capacity,
         Len(cells) > 0, cells[1] = <<"tag", tag>>,
         tag = "CString" => Len(cells) >= 3
  PROVE  LET h == IF tag = "CString" THEN 3 ELSE 1
         IN /\ \A j \in 1 .. Len(Top.starts) : ItemAt(Written(cells), j) = ItemAt(Top, j)
            /\ ItemAt(Written(cells), Len(Top.starts) + 1)
                 = [type |-> tag, cells |-> [k \in 1 .. Len(cells) - h |-> cells[h + k]]]
<1> DEFINE f == Top
           g == Written(cells)
           h == IF tag = "CString" THEN 3 ELSE 1
           n == Len(f.starts)
<1>1. /\ f.size \in Nat /\ f.starts \in Seq(Nat) /\ f.size <= Capacity
      /\ n \in Nat /\ Len(cells) \in Nat /\ Capacity \in Nat /\ DOMAIN f.starts = 1 .. n
      /\ f.size + Len(cells) <= Capacity
  BY TopIs, LenProperties, CodecAssumption DEF Frames, WellFormed
<1>2. /\ g.size = f.size + Len(cells) /\ g.starts = Append(f.starts, f.size)
      /\ g.data = [i \in 0 .. Capacity - 1 |-> IF i >= f.size /\ i < f.size + Len(cells)
                                               THEN cells[i - f.size + 1] ELSE f.data[i]]
  BY TopIs DEF Written, Frames
<1>3. \A i \in 0 .. Capacity - 1 :
         (i >= f.size /\ i < f.size + Len(cells) => g.data[i] = cells[i - f.size + 1])
         /\ (i < f.size => g.data[i] = f.data[i])
  BY <1>1, <1>2
<1>4. /\ g.starts \in Seq(Nat) /\ Len(g.starts) = n + 1
      /\ \A j \in 1 .. n : g.starts[j] = f.starts[j]
      /\ g.starts[n + 1] = f.size
  BY <1>1, <1>2, AppendProperties
<1>5. ASSUME NEW j \in 1 .. n
      PROVE  ItemAt(g, j) = ItemAt(f, j)
  <2> DEFINE at == f.starts[j]
             end == EndOf(f, j)
             from == at + IF f.data[at][2] = "CString" THEN 3 ELSE 1
  <2>1. /\ at \in Nat /\ at < end /\ end \in Nat /\ end <= f.size
        /\ f.data[at][2] = "CString" => at + 3 <= end
    BY <1>1, ArgumentsInside
  <2>2. EndOf(g, j) = end
    <3>1. EndOf(g, j) = g.starts[j + 1]
      BY <1>1, <1>4 DEF EndOf
    <3>2. CASE j < n
      <4>1. j + 1 \in 1 .. n
        BY <1>1, <3>2
      <4>2. end = f.starts[j + 1]
        BY <3>2 DEF EndOf
      <4> QED BY <1>4, <3>1, <4>1, <4>2
    <3>3. CASE ~(j < n)
      <4>1. j = n
        BY <1>1, <3>3
      <4>2. end = f.size
        BY <3>3 DEF EndOf
      <4> QED BY <1>4, <3>1, <4>1, <4>2
    <3> QED BY <3>2, <3>3
  <2>3. g.starts[j] = at /\ g.data[at] = f.data[at]
    <3>1. at \in 0 .. Capacity - 1 /\ at < f.size
      <4> HIDE DEF at, end, f
      <4> QED BY <1>1, <2>1
    <3> HIDE DEF at, g
    <3> QED BY <1>3, <1>4, <3>1 DEF at
  <2>4. from \in Nat
    <3> HIDE DEF at
    <3> QED BY <2>1
  <2>5. \A k \in 1 .. end - from : g.data[from + k - 1] = f.data[from + k - 1]
    <3> TAKE k \in 1 .. end - from
    <3>1. from + k - 1 \in 0 .. Capacity - 1 /\ from + k - 1 < f.size
      <4> HIDE DEF from, end, f
      <4> QED BY <1>1, <2>1, <2>4, SMTT(30)
    <3> HIDE DEF from, g
    <3> QED BY <1>3, <3>1
  <2>6. ItemAt(f, j) = [type |-> f.data[at][2], cells |-> [k \in 1 .. end - from |-> f.data[from + k - 1]]]
    BY DEF ItemAt
  <2>7. ItemAt(g, j) = [type |-> f.data[at][2], cells |-> [k \in 1 .. end - from |-> g.data[from + k - 1]]]
    <3> HIDE DEF f, g
    <3> QED BY <2>2, <2>3 DEF ItemAt, f
  <2> HIDE DEF from, end, at, f, g
  <2> QED BY <2>5, <2>6, <2>7
<1>6. ItemAt(g, n + 1) = [type |-> tag, cells |-> [k \in 1 .. Len(cells) - h |-> cells[h + k]]]
  <2> DEFINE at == f.size
             from == at + h
  <2>1. at \in 0 .. Capacity - 1 /\ at < at + Len(cells)
    <3> HIDE DEF f
    <3> QED BY <1>1
  <2>2. g.data[at] = <<"tag", tag>>
    <3>1. g.data[at] = cells[at - at + 1] /\ at - at + 1 = 1
      <4> HIDE DEF g, f
      <4> QED BY <1>1, <1>3, <2>1
    <3> QED BY <3>1
  <2>3. EndOf(g, n + 1) = at + Len(cells)
    BY <1>1, <1>2, <1>4 DEF EndOf
  <2>4. EndOf(g, n + 1) - from = Len(cells) - h /\ h \in {1, 3} /\ at \in Nat
    <3> HIDE DEF f, g, n
    <3> QED BY <1>1, <2>1, <2>3
  <2>5. \A k \in 1 .. Len(cells) - h : g.data[from + k - 1] = cells[h + k]
    <3> TAKE k \in 1 .. Len(cells) - h
    <3> DEFINE i == from + k - 1
    <3>1. i = at + h + k - 1 /\ k <= Len(cells) - h /\ k \in Nat \ {0} /\ h \in Nat \ {0} /\ at \in Nat
      <4> HIDE DEF at, h
      <4> QED BY <1>1, <2>4
    <3>2. i \in 0 .. Capacity - 1 /\ i >= f.size /\ i < f.size + Len(cells) /\ i - f.size + 1 = h + k
      <4>1. at + Len(cells) <= Capacity /\ Len(cells) \in Nat /\ Capacity \in Nat
        BY <1>1
      <4> HIDE DEF i, h, at
      <4>2. i \in 0 .. Capacity - 1 /\ i >= at /\ i < at + Len(cells) /\ i - at + 1 = h + k
        BY <3>1, <4>1
      <4> QED BY <4>2 DEF at
    <3> HIDE DEF g, f, h, i
    <3>3. g.data[i] = cells[i - f.size + 1]
      BY <1>3, <3>2
    <3>4. g.data[i] = cells[h + k]
      BY <3>2, <3>3
    <3> HIDE DEF at, from
    <3> QED BY <3>4 DEF i
  <2>6. ItemAt(g, n + 1) = [type |-> tag, cells |-> [k \in 1 .. EndOf(g, n + 1) - from |-> g.data[from + k - 1]]]
    <3>1. g.starts[n + 1] = at /\ g.data[at][2] = tag
      BY <1>4, <2>2
    <3> HIDE DEF g, f, n
    <3> QED BY <3>1 DEF ItemAt
  <2> HIDE DEF f, g, h, n, from
  <2> QED BY <2>4, <2>5, <2>6
<1> QED BY <1>5, <1>6 DEF f, g, h, n
\* Bytes that are not read are not shown.
LEMMA ItemsSame ==
  ASSUME NEW m, NEW k, k.size = m.size, k.starts = m.starts, k.data = m.data
  PROVE  /\ \A j : ItemAt(k, j) = ItemAt(m, j)
         /\ \A n : k.msg = m.msg /\ PackedInv(m, n) => PackedInv(k, n)
<1>1. \A j : ItemAt(k, j) = ItemAt(m, j)
  BY DEF ItemAt, EndOf
<1> QED BY <1>1 DEF PackedInv

LEMMA NeedIs ==
  ASSUME NEW a \in Args
  PROVE  Need(a) \in Nat \ {0}
<1>1. CASE IsString(a.type)
  <2>1. a.length \in Nat /\ LenRange \in Nat \ {0}
    BY CodecAssumption DEF Args
  <2>2. a.length % LenRange \in Nat
    BY <2>1, Z3
  <2>3. Need(a) = 3 + (a.length % LenRange)
    BY <1>1 DEF Need
  <2> QED BY <2>2, <2>3
<1>2. CASE ~IsString(a.type)
  <2>1. SizeOf(a.type) \in Nat \ {0}
    BY <1>2, TagWidth DEF Args
  <2>2. Need(a) = 1 + SizeOf(a.type)
    BY <1>2 DEF Need
  <2> QED BY <2>1, <2>2
<1> QED BY <1>1, <1>2

\* What is kept fits, whatever is logged.
LEMMA PackingFits ==
  ASSUME NEW args \in Seq(Args)
  PROVE  \A i \in 0 .. Len(args) :
           Packing(args)[i].used \in 0 .. Capacity /\ Packing(args)[i].which \in Seq(Nat)
<1> DEFINE p == Packing(args)
           S == {i \in Nat : i <= Len(args) => p[i].used \in 0 .. Capacity /\ p[i].which \in Seq(Nat)}
<1>1. Len(args) \in Nat /\ Capacity \in Nat
  BY LenProperties, CodecAssumption
<1>2. \A i \in 0 .. Len(args) :
        p[i] = IF i = 0 THEN [used |-> 0, which |-> << >>] ELSE KeptNext(p[i - 1], args[i], i)
  BY <1>1, PackingIs
<1> HIDE DEF p
<1>3. 0 \in S
  <2>1. p[0] = [used |-> 0, which |-> << >>]
    BY <1>1, <1>2
  <2>2. p[0].used = 0 /\ p[0].which = << >> /\ << >> \in Seq(Nat)
    BY <2>1, EmptySeq
  <2>3. p[0].used \in 0 .. Capacity /\ p[0].which \in Seq(Nat)
    BY <1>1, <2>2
  <2> QED BY <2>3
<1>4. ASSUME NEW i \in Nat, i \in S
      PROVE  i + 1 \in S
  <2> SUFFICES ASSUME i + 1 <= Len(args)
               PROVE  p[i + 1].used \in 0 .. Capacity /\ p[i + 1].which \in Seq(Nat)
    OBVIOUS
  <2>1. i + 1 \in 1 .. Len(args) /\ p[i].used \in 0 .. Capacity /\ p[i].which \in Seq(Nat)
    BY <1>1, <1>4
  <2>2. p[i + 1] = KeptNext(p[i], args[i + 1], i + 1)
    <3>1. i + 1 \in 0 .. Len(args) /\ i + 1 # 0 /\ i + 1 - 1 = i
      BY <2>1
    <3> QED BY <1>2, <3>1
  <2>3. Need(args[i + 1]) \in Nat
    BY <2>1, ElementOfSeq, NeedIs
  <2>4. Append(p[i].which, i + 1) \in Seq(Nat)
    BY <2>1, AppendProperties
  <2>5. CASE p[i].used + Need(args[i + 1]) <= Capacity
    BY <1>1, <2>1, <2>2, <2>3, <2>4, <2>5 DEF KeptNext
  <2>6. CASE ~(p[i].used + Need(args[i + 1]) <= Capacity)
    BY <2>1, <2>2, <2>6 DEF KeptNext
  <2> QED BY <2>5, <2>6
<1>5. Nat \subseteq S
  <2> HIDE DEF S
  <2> QED BY <1>3, <1>4, NatSetInduction
<1>6. \A i \in 0 .. Len(args) : i \in S /\ i <= Len(args)
  BY <1>1, <1>5
<1> QED BY <1>6 DEF p

\* What log() has come to, and what is kept of it.
LEMMA KeptHere ==
  ASSUME CodecOK, HasArg
  PROVE  LET p == Packing(Top.msg.args)
         IN /\ Top.next \in 1 .. Len(Top.msg.args) /\ Arg \in Args /\ Need(Arg) \in Nat
            /\ p[Top.next] = KeptNext(p[Top.next - 1], Arg, Top.next)
            /\ p[Top.next - 1].which \in Seq(Nat)
            /\ Top.size \in Nat /\ Capacity \in Nat
            /\ Len(Top.starts) \in Nat /\ DOMAIN Top.starts = 1 .. Len(Top.starts)
<1>1. /\ calls # << >> /\ Top \in Frames /\ Top.next \in Nat \ {0} /\ Top.next <= Len(Top.msg.args)
      /\ Top.msg.args \in Seq(Args) /\ Len(Top.msg.args) \in Nat /\ Arg \in Args
      /\ Top.size \in Nat /\ Capacity \in Nat
  BY TopHolds, CodecAssumption DEF HasArg
<1>2. Need(Arg) \in Nat
  BY <1>1, NeedIs
<1> DEFINE i == Top.next
           args == Top.msg.args
           p == Packing(args)
<1>3. i \in 1 .. Len(args) /\ i \in 0 .. Len(args) /\ i # 0 /\ i - 1 \in 0 .. Len(args)
  BY <1>1
<1>4. p[i] = KeptNext(p[i - 1], args[i], i)
  <2> HIDE DEF i, p, args
  <2> QED BY <1>1, <1>3, PackingIs DEF p, args
<1>5. p[i - 1].which \in Seq(Nat)
  <2> HIDE DEF i, args
  <2> QED BY <1>1, <1>3, PackingFits DEF args
<1>6. Len(Top.starts) \in Nat /\ DOMAIN Top.starts = 1 .. Len(Top.starts)
  BY <1>1, LenProperties DEF Frames
<1> QED BY <1>1, <1>2, <1>3, <1>4, <1>5, <1>6 DEF Arg

LEMMA PackedSkips ==
  ASSUME CodecOK, HasArg, PackedInv(Top, Top.next - 1),
         NoText(Top.msg) => Top.size + Need(Arg) > Capacity
  PROVE  PackedInv(Accepted(Top, FALSE), Top.next)
<1> DEFINE g == Accepted(Top, FALSE)
           i == Top.next
           p == Packing(Top.msg.args)
<1>1. g.msg = Top.msg /\ g.size = Top.size /\ g.starts = Top.starts /\ g.data = Top.data
  BY TopHolds DEF Accepted, Frames, HasArg
<1>2. /\ Need(Arg) \in Nat /\ Top.size \in Nat /\ Capacity \in Nat
      /\ p[i] = KeptNext(p[i - 1], Arg, i)
  BY KeptHere
<1>3. NoText(Top.msg) => p[i - 1].used = Top.size
  BY DEF PackedInv
<1>4. NoText(Top.msg) => p[i] = p[i - 1]
  <2> HIDE DEF i, p
  <2> QED BY <1>2, <1>3 DEF KeptNext
<1>5. PackedInv(Top, i)
  <2> HIDE DEF i
  <2> QED BY <1>4 DEF PackedInv, i
<1> HIDE DEF g, i
<1> QED BY <1>1, <1>5, ItemsSame DEF g, i

LEMMA PackedFits ==
  ASSUME CodecOK, HasArg, PackedInv(Top, Top.next - 1),
         NEW cells \in Seq(Cell), NEW tag \in ArgType,
         Top.size + Len(cells) <= Capacity,
         Len(cells) > 0, cells[1] = <<"tag", tag>>,
         tag = "CString" => Len(cells) >= 3,
         NoText(Top.msg) => Len(cells) = Need(Arg) /\ Item(tag, cells) = Meant(Top.msg.args, Top.next)
  PROVE  LET g == Accepted(Written(cells), TRUE)
         IN /\ g.starts \in Seq(Nat) /\ Len(g.starts) = Len(Top.starts) + 1
            /\ \A j \in 1 .. Len(Top.starts) : ItemAt(g, j) = ItemAt(Top, j)
            /\ ItemAt(g, Len(Top.starts) + 1) = Item(tag, cells)
            /\ PackedInv(g, Top.next)
<1> DEFINE f == Written(cells)
           g == Accepted(f, TRUE)
           i == Top.next
           args == Top.msg.args
           p == Packing(args)
           n == Len(Top.starts)
<1>1. calls # << >> /\ TypeOK /\ WellFormed(Top) /\ Top \in Frames /\ Top.starts \in Seq(Nat)
  BY TopHolds DEF HasArg, CodecOK, Frames
<1>2. /\ \A j \in 1 .. n : ItemAt(f, j) = ItemAt(Top, j)
      /\ ItemAt(f, n + 1) = Item(tag, cells)
  <2> HIDE DEF f
  <2> QED BY <1>1, WrittenItems DEF Item, f
<1>3. /\ f.msg = Top.msg /\ f.starts = Append(Top.starts, Top.size)
      /\ f.size = Top.size + Len(cells)
      /\ g.msg = f.msg /\ g.size = f.size /\ g.starts = f.starts /\ g.data = f.data
  BY <1>1 DEF Written, Accepted, Frames
<1>4. /\ Need(Arg) \in Nat /\ Top.size \in Nat /\ Capacity \in Nat /\ p[i - 1].which \in Seq(Nat)
      /\ p[i] = KeptNext(p[i - 1], Arg, i)
      /\ n \in Nat /\ DOMAIN Top.starts = 1 .. n /\ i \in Nat
  BY KeptHere
<1>5. /\ g.starts \in Seq(Nat) /\ Len(g.starts) = n + 1 /\ DOMAIN g.starts = 1 .. n + 1
  <2>1. Append(Top.starts, Top.size) \in Seq(Nat) /\ Len(Append(Top.starts, Top.size)) = n + 1
    BY <1>1, <1>4, AppendProperties
  <2> HIDE DEF g, f, n
  <2> QED BY <1>3, <2>1, LenProperties
<1>6. \A j : ItemAt(g, j) = ItemAt(f, j)
  <2> HIDE DEF g, f
  <2> QED BY <1>3, ItemsSame
<1>7. ASSUME NoText(Top.msg)
      PROVE  /\ g.size = p[i].used /\ Len(g.starts) = Len(p[i].which)
             /\ \A j \in 1 .. n + 1 : ItemAt(g, j) = Meant(args, p[i].which[j])
  <2>1. /\ Top.size = p[i - 1].used /\ n = Len(p[i - 1].which)
        /\ \A j \in 1 .. n : ItemAt(Top, j) = Meant(args, p[i - 1].which[j])
    BY <1>4, <1>7 DEF PackedInv
  <2>2. Len(cells) = Need(Arg) /\ Item(tag, cells) = Meant(args, i)
    BY <1>7
  <2> HIDE DEF f, g, n, p, i, args
  <2>3. p[i].used = Top.size + Len(cells) /\ p[i].which = Append(p[i - 1].which, i)
    BY <1>4, <2>1, <2>2 DEF KeptNext
  <2>4. /\ Len(p[i].which) = n + 1 /\ p[i].which[n + 1] = i
        /\ \A j \in 1 .. n : p[i].which[j] = p[i - 1].which[j]
    BY <1>4, <2>1, <2>3, AppendProperties, SMTT(30)
  <2>5. \A j \in 1 .. n + 1 : j = n + 1 \/ j \in 1 .. n
    BY <1>4
  <2> QED BY <1>2, <1>3, <1>5, <1>6, <2>1, <2>2, <2>3, <2>4, <2>5
<1>8. PackedInv(g, i)
  <2> HIDE DEF g, f, i, p
  <2> QED BY <1>3, <1>5, <1>7 DEF PackedInv, p
<1> HIDE DEF f, g
<1> QED BY <1>2, <1>4, <1>5, <1>6, <1>8 DEF f, g

\* What print() shows is the argument it stands at.
LEMMA ShownIs ==
  ASSUME CodecOK, Printing, out.pos < Size, NEW n \in Nat,
         NEW w, w = IF TagAt = "CString" THEN 3 ELSE 1,
         EndOf(Head(sent), Len(out.shown) + 1) = out.pos + w + n
  PROVE  [type |-> TagAt, cells |-> At(out.pos + w, n)] = ItemAt(Head(sent), Len(out.shown) + 1)
<1> DEFINE m == Head(sent)
           j == Len(out.shown) + 1
           from == out.pos + w
<1>1. /\ m \in Packets /\ WellFormed(m) /\ m.starts \in Seq(Nat) /\ m.size \in Nat
      /\ j \in DOMAIN m.starts /\ out.pos = m.starts[j] /\ ArgumentAt(m, j) /\ out.pos \in Nat
  BY AtArgument DEF Size, Packets
<1>2. TagAt = m.data[m.starts[j]][2]
  BY <1>1 DEF ArgumentAt, TagAt, Data
<1>3. from + n <= Capacity /\ from \in Nat /\ Capacity \in Nat
  <2>1. EndOf(m, j) <= m.size /\ m.size <= Capacity /\ EndOf(m, j) \in Nat /\ Capacity \in Nat
    BY <1>1, ArgumentsInside, CodecAssumption DEF WellFormed
  <2>2. EndOf(m, j) = from + n
    OBVIOUS
  <2>3. from \in Nat
    <3>1. w \in {1, 3} /\ out.pos \in Nat
      BY <1>1
    <3> QED BY <3>1
  <2> HIDE DEF from
  <2> QED BY <1>1, <2>1, <2>2, <2>3
<1>4. At(from, n) = [k \in 1 .. n |-> m.data[from + k - 1]]
  <2>1. \A k \in 1 .. n : from + k - 1 < Capacity
    <3> HIDE DEF from
    <3> QED BY <1>3
  <2> HIDE DEF from
  <2> QED BY <2>1 DEF At, Data
<1>5. EndOf(m, j) - from = n
  <2>1. EndOf(m, j) = from + n
    OBVIOUS
  <2> HIDE DEF from, j, m
  <2> QED BY <1>3, <2>1
<1>6. ItemAt(m, j) = [type |-> TagAt, cells |-> [k \in 1 .. EndOf(m, j) - from |-> m.data[from + k - 1]]]
  <2>1. from = m.starts[j] + IF m.data[m.starts[j]][2] = "CString" THEN 3 ELSE 1
    BY <1>1, <1>2
  <2> HIDE DEF from, j, m
  <2> QED BY <1>2, <2>1 DEF ItemAt
<1> HIDE DEF from, j, m
<1> QED BY <1>4, <1>5, <1>6 DEF from, j, m

\* One more argument is shown as it is in the buffer.
LEMMA ShownPrinted ==
  ASSUME CodecOK, ShownInv, PrintValue \/ PrintString
  PROVE  ShownInv'
<1> DEFINE m == Head(sent)
           j == Len(out.shown) + 1
<1>1. Printing /\ sent' = sent /\ out'.shown = Append(out.shown, ItemAt(m, j))
  <2>1. CASE PrintValue
    <3> DEFINE w == ReadWidth(TagAt)
    <3>1. /\ Printing /\ out.pos < Size /\ TagAt # "CString" /\ Shown(1, w) /\ sent' = sent
          /\ w \in Nat /\ EndOf(m, j) = out.pos + 1 + w
      BY <2>1, PrintValueIs
    <3> HIDE DEF w
    <3>2. [type |-> TagAt, cells |-> At(out.pos + 1, w)] = ItemAt(m, j)
      BY <3>1, ShownIs
    <3> QED BY <3>1, <3>2 DEF Shown
  <2>2. CASE PrintString
    <3> DEFINE field == At(out.pos + 1, 2)[1]
               n == IF field[1] = "length" THEN field[2] ELSE 0
    <3>1. /\ Printing /\ out.pos < Size /\ TagAt = "CString" /\ Shown(3, n) /\ sent' = sent
          /\ n \in Nat /\ EndOf(m, j) = out.pos + 3 + n
      BY <2>2, PrintStringIs
    <3> HIDE DEF n
    <3>2. [type |-> TagAt, cells |-> At(out.pos + 3, n)] = ItemAt(m, j)
      BY <3>1, ShownIs
    <3> QED BY <3>1, <3>2 DEF Shown
  <2> QED BY <2>1, <2>2
<1>2. \A k \in DOMAIN out.shown : out.shown[k] = ItemAt(m, k)
  BY <1>1 DEF ShownInv, Printing
<1>3. out.shown \in Seq(Items) /\ DOMAIN out.shown = 1 .. Len(out.shown) /\ Len(out.shown) \in Nat
  BY LenProperties DEF CodecOK, TypeOK
<1>4. /\ DOMAIN Append(out.shown, ItemAt(m, j)) = 1 .. j
      /\ \A k \in 1 .. j : Append(out.shown, ItemAt(m, j))[k] = IF k = j THEN ItemAt(m, j) ELSE out.shown[k]
  BY <1>3
<1> HIDE DEF j
<1>5. \A k \in DOMAIN out'.shown : out'.shown[k] = ItemAt(m, k)
  BY <1>1, <1>2, <1>3, <1>4 DEF j
<1> QED BY <1>1, <1>5, ZenonT(30) DEF ShownInv, ItemAt, EndOf

\* The line that is ended shows every argument of its message as it is in the buffer.
LEMMA ShownAtEnd ==
  ASSUME CodecOK, ShownInv, EndLine
  PROVE  /\ Head(sent) = sent[1] /\ Len(out.shown) = Len(Head(sent).starts) /\ out.shown \in Seq(Items)
         /\ Head(sent).starts \in Seq(Nat)
         /\ \A k \in DOMAIN out.shown : out.shown[k] = ItemAt(Head(sent), k)
         /\ lines'[Len(lines) + 1].shown = out.shown /\ lines'[Len(lines) + 1].msg = Head(sent).msg
         /\ ShownInv'
<1>1. Printing /\ out.pos >= Size /\ out' = Nothing
  BY DEF EndLine
<1>2. lines \in Seq(Printed)
  BY DEF CodecOK, TypeOK
<1>3. /\ Head(sent) = sent[1] /\ Len(out.shown) = Len(Head(sent).starts) /\ out.shown \in Seq(Items)
      /\ Head(sent).starts \in Seq(Nat)
  BY <1>1, AtArgument DEF Size, Packets
<1>4. lines'[Len(lines) + 1].shown = out.shown /\ lines'[Len(lines) + 1].msg = Head(sent).msg
  <2> DEFINE item == [msg |-> Head(sent).msg, shown |-> out.shown,
                      level |-> Lookup(LEVEL_LOOKUP, Head(sent).msg.level),
                      topic |-> Lookup(TOPIC_LOOKUP, Head(sent).msg.topic)]
  <2>1. lines' = Append(lines, item)
    BY DEF EndLine
  <2>2. item.shown = out.shown /\ item.msg = Head(sent).msg
    OBVIOUS
  <2> HIDE DEF item
  <2>3. Append(lines, item)[Len(lines) + 1] = item
    BY <1>2
  <2> QED BY <2>1, <2>2, <2>3
<1>5. ShownInv'
  <2>1. out'.shown = << >>
    BY <1>1 DEF Nothing
  <2> QED BY <2>1 DEF ShownInv
<1> QED BY <1>1, <1>3, <1>4, <1>5 DEF ShownInv, Printing
=============================================================================
