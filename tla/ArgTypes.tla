------------------------------ MODULE ArgTypes ------------------------------
(***************************************************************************)
(* The constants of a log message: what types its arguments may have, the  *)
(* tag that stands for each (Debugger/Types.hpp), how many bytes are       *)
(* written for one and read for the other, and the levels and topics with  *)
(* their filter and their labels (Debugger/Constants.hpp).                 *)
(***************************************************************************)
EXTENDS Naturals

CONSTANT LongBytes   \* sizeof(long): 4 on the device

ASSUME LongAssumption == LongBytes \in {4, 8}

\* enum class ArgType.
ArgType ==
  {"Bool", "Char", "SignedChar", "UnsignedChar", "Int16", "UInt16", "Int32", "UInt32",
   "Int64", "UInt64", "Float32", "Float64", "CString", "Level", "Topic"}

\* ArgTraits<T>::type, the integers.
IntegerTag ==
  [bool |-> "Bool", char |-> "Char", signed_char |-> "SignedChar",
   unsigned_char |-> "UnsignedChar", short |-> "Int16", unsigned_short |-> "UInt16",
   int |-> "Int32", unsigned_int |-> "UInt32",
   long |-> IF LongBytes = 4 THEN "Int32" ELSE "Int64",
   unsigned_long |-> IF LongBytes = 4 THEN "UInt32" ELSE "UInt64",
   long_long |-> "Int64", unsigned_long_long |-> "UInt64"]

\* ArgTraits<T>::type, the others.
OtherTag ==
  [float |-> "Float32", double |-> "Float64", const_char_ptr |-> "CString",
   char_ptr |-> "CString", LEVEL |-> "Level", TOPIC |-> "Topic"]

\* SerializableArg.
CppTypes == DOMAIN IntegerTag \cup DOMAIN OtherTag
TagOf(T) == IF T \in DOMAIN IntegerTag THEN IntegerTag[T] ELSE OtherTag[T]
IsString(T) == TagOf(T) = "CString"

\* sizeof(T), for what is not a string.
SizeOf(T) ==
  CASE T \in {"bool", "char", "signed_char", "unsigned_char"}   -> 1
    [] T \in {"short", "unsigned_short"}                        -> 2
    [] T \in {"int", "unsigned_int", "float"}                   -> 4
    [] T \in {"long", "unsigned_long", "LEVEL", "TOPIC"}        -> LongBytes
    [] T \in {"long_long", "unsigned_long_long", "double"}      -> 8

\* Mutated: 32 bits are read for 64.
ReadWidthShort(tag) ==
  CASE tag \in {"Bool", "Char", "SignedChar", "UnsignedChar"}       -> 1
    [] tag \in {"Int16", "UInt16"}                                  -> 2
    [] tag \in {"Int32", "UInt32", "Int64", "UInt64", "Float32"}    -> 4
    [] tag \in {"Level", "Topic"}                                   -> LongBytes
    [] tag = "Float64"                                              -> 8
    [] OTHER                                                        -> 0

\* The bytes print() takes for a tag: sizeof(v) of the branch, for what is not a string;
\* none for what is no tag.
ReadWidth(tag) ==
  CASE tag \in {"Bool", "Char", "SignedChar", "UnsignedChar"} -> 1
    [] tag \in {"Int16", "UInt16"}                            -> 2
    [] tag \in {"Int32", "UInt32", "Float32"}                 -> 4
    [] tag \in {"Level", "Topic"}                             -> LongBytes
    [] tag \in {"Int64", "UInt64", "Float64"}                 -> 8
    [] OTHER                                                  -> 0
-----------------------------------------------------------------------------
\* enum class LEVEL and TOPIC are bit masks: sets of bits.
LEVEL == {"INFO", "WARN", "ERROR"}
TOPIC == {"MQTT", "BOOT", "DEBUG", "TASK", "WIFI", "WIFIPROV", "LED", "PERF"}

\* isSet: any bit of probe.
IsSet(mask, probe) == mask \cap probe # {}

\* glob::LogLevel and glob::LogTopicMask.
LogLevel == {"INFO", "WARN", "ERROR"}
LogTopicMask == {"MQTT", "BOOT", "DEBUG", "WIFI", "WIFIPROV", "LED", "PERF", "TASK"}

\* LEVEL_LOOKUP and TOPIC_LOOKUP: a label for no bit and for every single one.
Labels(bits) == [v \in {{}} \cup {{b} : b \in bits} |-> IF v = {} THEN "[?]" ELSE CHOOSE b \in v : TRUE]
LEVEL_LOOKUP == Labels(LEVEL)
TOPIC_LOOKUP == Labels(TOPIC)

\* lookup(map, key).
Lookup(map, key) == IF key \in DOMAIN map THEN map[key] ELSE "[?]"
=============================================================================
