---------------------------- MODULE StaticString ----------------------------
(***************************************************************************)
(* typ::StaticString<N>, byte by byte: N - 1 characters and a last byte    *)
(* that counts the free ones and, when none is free, is the terminator.    *)
(*                                                                         *)
(* Every byte is written by a step of its own, since another task may read *)
(* c_str() at any moment; memcpy and fill promise no order.  Characters    *)
(* are non-zero bytes.  char is unsigned on the device (RISC-V).           *)
(***************************************************************************)
EXTENDS Naturals, Sequences

CONSTANTS
  N,          \* template argument
  CharRange,  \* 256
  Letters,    \* the characters in use
  Strings     \* the arguments

\* What a module that uses this one assumes.
StringAssumption ==
  /\ N \in Nat /\ N > 1 /\ CharRange \in Nat /\ N < CharRange - 1
  /\ Letters \subseteq 1 .. CharRange - 1
  /\ Strings \subseteq Seq(Letters)

VARIABLES
  buffer,   \* buffer_
  pc,       \* the mutator that runs
  source,   \* what it is to leave in the string
  todo      \* bytes it has still to write

stringVars == <<buffer, pc, source, todo>>

MAX_SIZE == N - 1
SIZE_BIT == N - 1
Bytes == 0 .. CharRange - 1

\* static_cast<char>.
Char(n) == n % CharRange

\* StaticString::size, capacity and view.
Size == MAX_SIZE - buffer[SIZE_BIT]
View == [i \in 1 .. Size |-> buffer[i - 1]]

\* strlen(c_str()) = n; n = N if it runs out of the object.
StrLenIs(n) ==
  /\ \A i \in 0 .. n - 1 : buffer[i] # 0
  /\ n < N => buffer[n] = 0
-----------------------------------------------------------------------------
\* The test with which assign(str) begins, before anything is written.
Fits(str) == Len(str) <= MAX_SIZE

\* buffer_ of a string that holds str.
Holding(str) ==
  [i \in 0 .. N - 1 |->
     IF i < Len(str) THEN str[i + 1] ELSE IF i = SIZE_BIT THEN Char(MAX_SIZE - Len(str)) ELSE 0]

\* The constructors, for a literal that fits.
Init ==
  /\ \E str \in Strings : Fits(str) /\ buffer = Holding(str)
  /\ pc = "ready"
  /\ source = << >>
  /\ todo = {}

\* assign(str).
Assign(str) ==
  /\ pc = "ready"
  /\ Fits(str)
  /\ pc' = "copy"
  /\ source' = str
  /\ todo' = 0 .. Len(str) - 1
  /\ UNCHANGED buffer

\* memcpy.
CopyByte(i) ==
  /\ pc = "copy" /\ i \in todo
  /\ buffer' = [buffer EXCEPT ![i] = source[i + 1]]
  /\ todo' = todo \ {i}
  /\ UNCHANGED <<pc, source>>

\* freeSpaceAfterInsert; nothing is filled if there is none.
BeginFill ==
  /\ pc = "copy" /\ todo = {}
  /\ pc' = "fill"
  /\ todo' = Len(source) .. MAX_SIZE - 1
  /\ UNCHANGED <<buffer, source>>

\* Mutated: nothing is filled.
FillByteNot(i) ==
  /\ pc = "fill" /\ i \in todo
  /\ todo' = todo \ {i}
  /\ UNCHANGED <<buffer, pc, source>>

\* std::fill.
FillByte(i) ==
  /\ pc = "fill" /\ i \in todo
  /\ buffer' = [buffer EXCEPT ![i] = 0]
  /\ todo' = todo \ {i}
  /\ UNCHANGED <<pc, source>>

\* Mutated: the size is stored, not the room.
StoreFreeAsSize ==
  /\ pc = "fill" /\ todo = {}
  /\ buffer' = [buffer EXCEPT ![SIZE_BIT] = Char(Len(source))]
  /\ pc' = "ready"
  /\ UNCHANGED <<source, todo>>

\* buffer_[SIZE_BIT] = freeSpaceAfterInsert.
StoreFree ==
  /\ pc = "fill" /\ todo = {}
  /\ buffer' = [buffer EXCEPT ![SIZE_BIT] = Char(MAX_SIZE - Len(source))]
  /\ pc' = "ready"
  /\ UNCHANGED <<source, todo>>

\* push_back(c): refused if the string is full.
PushBack(c) ==
  /\ pc = "ready"
  /\ Size < MAX_SIZE
  /\ source' = Append(View, c)
  /\ buffer' = [buffer EXCEPT ![Size] = c]
  /\ pc' = "pushed"
  /\ UNCHANGED todo

\* --buffer_[SIZE_BIT].
CountDown ==
  /\ pc = "pushed"
  /\ buffer' = [buffer EXCEPT ![SIZE_BIT] = Char(@ + CharRange - 1)]
  /\ pc' = "ready"
  /\ UNCHANGED <<source, todo>>

\* timestamp2string: every byte of a new string through get<i>(), the last of them the
\* terminator, which is also the count of a full string.
Stamp(str) ==
  /\ pc = "ready" /\ Size = 0
  /\ Len(str) = MAX_SIZE
  /\ pc' = "stamp"
  /\ source' = str
  /\ todo' = 0 .. N - 1
  /\ UNCHANGED buffer

StampByte(i) ==
  /\ pc = "stamp" /\ i \in todo
  /\ buffer' = [buffer EXCEPT ![i] = IF i = N - 1 THEN 0 ELSE source[i + 1]]
  /\ todo' = todo \ {i}
  /\ UNCHANGED <<pc, source>>

Stamped ==
  /\ pc = "stamp" /\ todo = {}
  /\ pc' = "ready"
  /\ UNCHANGED <<buffer, source, todo>>

Step ==
  \/ \E i \in todo : CopyByte(i) \/ FillByte(i) \/ StampByte(i)
  \/ BeginFill \/ StoreFree \/ CountDown \/ Stamped

Call ==
  \/ \E str \in Strings : Assign(str) \/ Stamp(str)
  \/ \E c \in Letters : PushBack(c)

Next == Call \/ Step

Spec == Init /\ [][Next]_stringVars
-----------------------------------------------------------------------------
StringTypeOK ==
  /\ buffer \in [0 .. N - 1 -> Bytes]
  /\ pc \in {"ready", "copy", "fill", "pushed", "stamp"}
  /\ source \in Seq(Letters) /\ Len(source) <= MAX_SIZE
  /\ todo \subseteq 0 .. N - 1

\* StaticString.hpp:31 "The buffer is always null-terminated": also while another task
\* writes it, unless what is written fills the string.
ReadersStayInside ==
  ~StrLenIs(N) \/ (pc # "ready" /\ Len(source) = MAX_SIZE)

\* Between calls c_str() and view() are the same text.
SameText == pc = "ready" => StrLenIs(Size)

\* Why they hold: what is written, and what is left of the text before.
Written(i) == buffer[i] = source[i + 1]
Zero(i) == buffer[i] = 0

StringInv ==
  /\ StringTypeOK
  /\ pc = "ready" =>
       /\ buffer[SIZE_BIT] <= MAX_SIZE
       /\ \A i \in 0 .. MAX_SIZE - 1 : IF i < Size THEN buffer[i] \in Letters ELSE Zero(i)
  /\ pc = "copy" =>
       todo \subseteq 0 .. Len(source) - 1 /\ \A i \in (0 .. Len(source) - 1) \ todo : Written(i)
  /\ pc = "fill" =>
       /\ todo \subseteq Len(source) .. MAX_SIZE - 1
       /\ \A i \in 0 .. MAX_SIZE - 1 :
            IF i < Len(source) THEN Written(i) ELSE i \notin todo => Zero(i)
  /\ pc = "pushed" =>
       /\ Len(source) > 0 /\ buffer[SIZE_BIT] = MAX_SIZE - Len(source) + 1
       /\ \A i \in 0 .. MAX_SIZE - 1 : IF i < Len(source) THEN Written(i) ELSE Zero(i)
  /\ pc = "stamp" =>
       /\ Len(source) = MAX_SIZE
       /\ \A i \in (0 .. N - 1) \ todo : IF i = N - 1 THEN Zero(i) ELSE Written(i)
  /\ pc \in {"copy", "fill"} /\ Len(source) < MAX_SIZE => Zero(MAX_SIZE - 1) \/ Zero(SIZE_BIT)

\* A mutator takes effect when it begins.
Value == IF pc = "ready" THEN View ELSE source

\* The string is the bounded string: an argument is taken whole or refused.
Op == CASE pc = "ready" -> "none" [] pc = "pushed" -> "append" [] OTHER -> "assign"
B == INSTANCE BoundedString WITH N <- MAX_SIZE, value <- Value, op <- Op
Bounded == B!Spec
=============================================================================
