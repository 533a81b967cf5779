----------------------------- MODULE MCTextPath -----------------------------
(***************************************************************************)
(* TextPath for TLC.                                                       *)
(***************************************************************************)
EXTENDS TextPath

Value1(T) == [type |-> T, length |-> 0, shared |-> FALSE]
Literal(n) == [type |-> "const_char_ptr", length |-> n, shared |-> FALSE]
SharedText == [type |-> "char_ptr", length |-> 0, shared |-> TRUE]

Message(args) == [level |-> {"WARN"}, topic |-> {"TASK"}, args |-> args]

\* Every type alone; no argument; what the filter holds back or the tables do not know.
Plain ==
  {Message(<<Value1(T)>>) : T \in {U \in CppTypes : ~IsString(U)}}
  \cup {Message(<< >>),
        [Message(<< >>) EXCEPT !.level = {}], [Message(<< >>) EXCEPT !.topic = {"LED", "PERF"}]}

\* Triples that fill the buffer to the last byte, run over it, or leave room for what
\* comes after the argument that is skipped; LenRange + 1 wraps.
Parts == {Value1("bool"), Value1("int"), Value1("double"),
          Literal(0), Literal(3), Literal(LenRange + 1)}
Triples == {Message(<<a, b, c>>) : a, b, c \in Parts}

\* The string, alone, before and behind a value.
WithText ==
  {Message(<<SharedText>>), Message(<<SharedText, Value1("int")>>), Message(<<Value1("short"), SharedText>>)}

MCMessages == Plain \cup Triples \cup WithText

MCUnnamed == <<1, 1>>
MCNames == {<< >>, <<2>>, <<2, 2>>}
MCStrings == UNION {[1 .. n -> Letters] : n \in 0 .. SharedBytes}
=============================================================================
