--------------------------- MODULE TextPathProofs ---------------------------
EXTENDS TextPath, MessageCodecProofs

LEMMA SizesOk ==
  /\ SharedBytes \in Nat /\ SharedBytes > 1 /\ CharRange \in Nat /\ SharedBytes < CharRange - 1
  /\ S!MAX_SIZE = SharedBytes - 1 /\ S!SIZE_BIT = SharedBytes - 1
  /\ \A c \in Letters : c \in 1 .. CharRange - 1
  /\ \A str \in Strings : str \in Seq(Letters)
BY PathAssumption DEF S!StringAssumption, S!MAX_SIZE, S!SIZE_BIT

LEMMA CharIs ==
  ASSUME NEW n \in 0 .. CharRange - 1
  PROVE  S!Char(n) = n /\ S!Char(n + CharRange) = n
<1>1. CharRange \in Nat /\ CharRange > 0
  BY SizesOk
<1>2. n % CharRange = n /\ (n + CharRange) % CharRange = n
  BY <1>1, Z3
<1> QED BY <1>2 DEF S!Char

LEMMA LettersOf ==
  ASSUME NEW str \in Seq(Letters)
  PROVE  \A i \in 0 .. Len(str) - 1 : str[i + 1] \in Letters /\ str[i + 1] \in 1 .. CharRange - 1
<1> TAKE i \in 0 .. Len(str) - 1
<1>1. i + 1 \in 1 .. Len(str)
  BY LenProperties
<1>2. str[i + 1] \in Letters
  BY <1>1, ElementOfSeq
<1> QED BY <1>2, SizesOk

\* A string that has just been built holds what it was built from.
LEMMA HoldingIs ==
  ASSUME NEW str \in Seq(Letters), S!Fits(str), shared = S!Holding(str)
  PROVE  /\ shared \in [0 .. SharedBytes - 1 -> S!Bytes]
         /\ shared[SharedBytes - 1] = SharedBytes - 1 - Len(str) /\ S!Size = Len(str)
         /\ \A i \in 0 .. SharedBytes - 2 : shared[i] = IF i < Len(str) THEN str[i + 1] ELSE 0
         /\ S!View = str
<1> USE SizesOk DEF S!Fits
<1>1. Len(str) \in 0 .. SharedBytes - 1 /\ \A i \in 1 .. Len(str) : str[i] \in Letters
  OBVIOUS
<1>2. S!Char(S!MAX_SIZE - Len(str)) = SharedBytes - 1 - Len(str)
  BY <1>1, CharIs
<1>3. \A i \in 0 .. SharedBytes - 1 : shared[i] =
        IF i < Len(str) THEN str[i + 1] ELSE IF i = SharedBytes - 1 THEN SharedBytes - 1 - Len(str) ELSE 0
  BY <1>2 DEF S!Holding
<1>4. S!Size = Len(str)
  BY <1>1, <1>3 DEF S!Size
<1>5. \A i \in 0 .. SharedBytes - 1 : shared[i] \in 0 .. CharRange - 1
  BY <1>1, <1>3, LettersOf, SMTT(30)
<1>6. shared \in [0 .. SharedBytes - 1 -> S!Bytes]
  <2>1. shared = [i \in 0 .. SharedBytes - 1 |-> shared[i]]
    BY DEF S!Holding
  <2> QED BY <2>1, <1>5 DEF S!Bytes
<1>7. S!View = str
  <2>1. S!View = [i \in 1 .. Len(str) |-> shared[i - 1]]
    BY <1>4 DEF S!View
  <2>2. \A i \in 1 .. Len(str) : shared[i - 1] = str[i]
    BY <1>1, <1>3
  <2>3. S!View \in Seq(Letters) /\ Len(S!View) = Len(str) /\ \A i \in 1 .. Len(str) : S!View[i] = str[i]
    BY <2>1, <2>2, <1>1
  <2> QED BY <2>3, SeqEqual
<1> QED BY <1>1, <1>3, <1>4, <1>6, <1>7

LEMMA StringHolds ==
  ASSUME NEW str \in Seq(Letters), S!Fits(str), shared = S!Holding(str), pc = "ready",
         source \in Seq(Letters), Len(source) <= S!MAX_SIZE, todo = {}
  PROVE  S!StringInv
<1> USE SizesOk DEF S!Fits
<1>1. Len(str) \in 0 .. SharedBytes - 1 /\ \A i \in 1 .. Len(str) : str[i] \in Letters
  OBVIOUS
<1>2. S!StringTypeOK
  BY HoldingIs DEF S!StringTypeOK
<1>3. \A i \in 0 .. SharedBytes - 2 : IF i < S!Size THEN shared[i] \in Letters ELSE shared[i] = 0
  <2>1. \A i \in 0 .. Len(str) - 1 : str[i + 1] \in Letters
    BY LettersOf
  <2>2. \A i \in 0 .. SharedBytes - 2 : shared[i] = IF i < Len(str) THEN str[i + 1] ELSE 0
    BY HoldingIs
  <2>3. S!Size = Len(str)
    BY HoldingIs
  <2> QED BY <1>1, <2>1, <2>2, <2>3, SMTT(30)
<1>4. shared[SharedBytes - 1] <= SharedBytes - 1
  BY <1>1, HoldingIs
<1> QED BY <1>2, <1>3, <1>4 DEF S!StringInv, S!Zero

\* Between calls view() is what the bytes say.
LEMMA ViewIs ==
  ASSUME S!StringInv, pc = "ready"
  PROVE  /\ S!Size \in 0 .. SharedBytes - 1 /\ S!View \in Seq(Letters) /\ Len(S!View) = S!Size
         /\ \A i \in 1 .. S!Size : S!View[i] = shared[i - 1]
<1> USE SizesOk
<1>1. shared[SharedBytes - 1] \in 0 .. SharedBytes - 1
  BY DEF S!StringInv, S!StringTypeOK, S!Bytes
<1>2. S!Size \in 0 .. SharedBytes - 1
  BY <1>1 DEF S!Size
<1>3. \A i \in 1 .. S!Size : shared[i - 1] \in Letters
  BY <1>2 DEF S!StringInv
<1> QED BY <1>2, <1>3 DEF S!View

LEMMA AssignKeeps ==
  ASSUME S!StringInv, NEW str \in Seq(Letters), S!Assign(str)
  PROVE  S!StringInv'
<1> USE SizesOk
<1>1. /\ pc = "ready" /\ pc' = "copy" /\ source' = str /\ todo' = 0 .. Len(str) - 1 /\ shared' = shared
      /\ Len(str) <= SharedBytes - 1
  BY DEF S!Assign, S!Fits
<1>2. S!StringTypeOK'
  BY <1>1, SMTT(30) DEF S!StringInv, S!StringTypeOK, S!Bytes
<1>3. shared[SharedBytes - 2] = 0 \/ shared[SharedBytes - 1] = 0
  <2>1. shared[SharedBytes - 1] \in 0 .. SharedBytes - 1
    BY <1>1 DEF S!StringInv, S!StringTypeOK, S!Bytes
  <2>2. CASE shared[SharedBytes - 1] # 0
    <3>1. ~(SharedBytes - 2 < S!Size) /\ SharedBytes - 2 \in 0 .. SharedBytes - 2
      BY <2>1, <2>2 DEF S!Size
    <3> QED BY <1>1, <3>1 DEF S!StringInv, S!Zero
  <2> QED BY <2>2
<1>4. (S!Zero(S!MAX_SIZE - 1) \/ S!Zero(S!SIZE_BIT))'
  BY <1>1, <1>3 DEF S!Zero
<1> QED BY <1>1, <1>2, <1>4 DEF S!StringInv

\* Every step of a mutator keeps what it has written.
LEMMA StringCallKeeps ==
  ASSUME S!StringInv, S!Call
  PROVE  S!StringInv'
<1> USE SizesOk
<1>1. ASSUME NEW str \in Seq(Letters), S!Assign(str)
      PROVE  S!StringInv'
  BY <1>1, AssignKeeps
<1>2. ASSUME NEW str \in Seq(Letters), S!Stamp(str)
      PROVE  S!StringInv'
  BY <1>2 DEF S!Stamp, S!StringInv, S!StringTypeOK, S!Written, S!Zero
<1>3. ASSUME NEW c \in Letters, S!PushBack(c)
      PROVE  S!StringInv'
  <2>1. S!Size \in 0 .. SharedBytes - 2
    BY <1>3, ViewIs DEF S!PushBack
  <2> DEFINE k == S!Size
  <2>2. /\ source' = Append(S!View, c) /\ source' \in Seq(Letters) /\ Len(source') = k + 1
        /\ \A i \in 1 .. k : source'[i] = shared[i - 1]
        /\ source'[k + 1] = c
    BY <1>3, <2>1, ViewIs, AppendProperties DEF S!PushBack
  <2>3. shared' = [shared EXCEPT ![k] = c] /\ pc' = "pushed" /\ todo' = todo /\ pc = "ready"
    BY <1>3 DEF S!PushBack
  <2>4. /\ shared \in [0 .. SharedBytes - 1 -> S!Bytes] /\ todo \subseteq 0 .. SharedBytes - 1
        /\ shared[SharedBytes - 1] = SharedBytes - 1 - k
        /\ \A i \in 0 .. SharedBytes - 2 : i >= k => shared[i] = 0
    <3>1. S!StringTypeOK /\ \A i \in 0 .. SharedBytes - 2 : i >= k => shared[i] = 0
      BY <2>1, <2>3 DEF S!StringInv, S!Zero
    <3>2. shared[SharedBytes - 1] \in Nat
      BY <3>1 DEF S!StringTypeOK, S!Bytes
    <3> QED BY <3>1, <3>2 DEF S!StringTypeOK, S!Size
  <2>5. c \in S!Bytes
    BY DEF S!Bytes
  <2>6. shared' \in [0 .. SharedBytes - 1 -> S!Bytes]
    BY <2>1, <2>3, <2>4, <2>5
  <2>7. S!StringTypeOK'
    BY <2>1, <2>2, <2>3, <2>4, <2>6 DEF S!StringTypeOK
  <2>8. \A i \in 0 .. SharedBytes - 2 : shared'[i] = IF i < k + 1 THEN source'[i + 1] ELSE 0
    BY <2>1, <2>2, <2>3, <2>4
  <2>9. shared'[SharedBytes - 1] = SharedBytes - 1 - (k + 1) + 1
    BY <2>1, <2>3, <2>4
  <2> HIDE DEF k
  <2> QED BY <2>1, <2>2, <2>3, <2>7, <2>8, <2>9 DEF S!StringInv, S!Written, S!Zero
<1> QED BY <1>1, <1>2, <1>3 DEF S!Call

LEMMA StringStepKeeps ==
  ASSUME S!StringInv, S!Step
  PROVE  S!StringInv'
<1> USE SizesOk
<1>0. /\ shared \in [0 .. SharedBytes - 1 -> 0 .. CharRange - 1]
      /\ source \in Seq(Letters) /\ Len(source) \in 0 .. SharedBytes - 1
      /\ todo \subseteq 0 .. SharedBytes - 1
      /\ \A i \in 0 .. Len(source) - 1 : source[i + 1] \in 1 .. CharRange - 1
  BY LettersOf DEF S!StringInv, S!StringTypeOK, S!Bytes
<1>01. \A i \in 0 .. Len(source) - 1 : source[i + 1] \in Letters
  BY <1>0, LettersOf
<1>1. ASSUME NEW i \in todo, S!CopyByte(i)
      PROVE  S!StringInv'
  <2>1. i \in 0 .. Len(source) - 1 /\ i \in 0 .. SharedBytes - 2 /\ source[i + 1] \in 0 .. CharRange - 1
    BY <1>0, <1>1, SMTT(30) DEF S!CopyByte, S!StringInv
  <2>2. shared' \in [0 .. SharedBytes - 1 -> 0 .. CharRange - 1] /\ shared'[i] = source[i + 1]
        /\ \A j \in 0 .. SharedBytes - 1 : j # i => shared'[j] = shared[j]
    BY <1>0, <1>1, <2>1 DEF S!CopyByte
  <2>3. S!StringTypeOK'
    BY <1>0, <1>1, <2>2, SMTT(30) DEF S!CopyByte, S!StringTypeOK, S!Bytes
  <2>4. pc = "copy" /\ pc' = "copy" /\ source' = source /\ todo' = todo \ {i}
    BY <1>1 DEF S!CopyByte
  <2>5. /\ todo' \subseteq 0 .. Len(source) - 1
        /\ \A j \in (0 .. Len(source) - 1) \ todo' : shared'[j] = source[j + 1]
    <3>1. todo \subseteq 0 .. Len(source) - 1 /\ \A j \in (0 .. Len(source) - 1) \ todo : shared[j] = source[j + 1]
      BY <2>4 DEF S!StringInv, S!Written
    <3>2. ASSUME NEW j \in (0 .. Len(source) - 1) \ todo'
          PROVE  shared'[j] = source[j + 1]
      <4>1. j \in 0 .. SharedBytes - 1
        BY <1>0
      <4>2. CASE j = i
        BY <2>2, <4>2
      <4>3. CASE j # i
        BY <2>2, <2>4, <3>1, <4>1, <4>3
      <4> QED BY <4>2, <4>3
    <3> QED BY <2>4, <3>1, <3>2
  <2>6. Len(source) < SharedBytes - 1 => shared'[SharedBytes - 2] = 0 \/ shared'[SharedBytes - 1] = 0
    <3>1. Len(source) < SharedBytes - 1 => shared[SharedBytes - 2] = 0 \/ shared[SharedBytes - 1] = 0
      BY <2>4 DEF S!StringInv, S!Zero
    <3> QED BY <1>0, <2>1, <2>2, <3>1, SMTT(30)
  <2> QED BY <2>3, <2>4, <2>5, <2>6 DEF S!StringInv, S!Written, S!Zero
<1>2. ASSUME NEW i \in todo, S!FillByte(i)
      PROVE  S!StringInv'
  <2>1. i \in 0 .. SharedBytes - 2 /\ ~(i < Len(source))
    BY <1>0, <1>2 DEF S!FillByte, S!StringInv
  <2>2. shared' \in [0 .. SharedBytes - 1 -> 0 .. CharRange - 1] /\ shared'[i] = 0
        /\ \A j \in 0 .. SharedBytes - 1 : j # i => shared'[j] = shared[j]
    BY <1>0, <1>2, <2>1 DEF S!FillByte
  <2>3. S!StringTypeOK'
    BY <1>0, <1>2, <2>2 DEF S!FillByte, S!StringTypeOK, S!Bytes
  <2> QED BY <1>0, <1>2, <2>1, <2>2, <2>3 DEF S!FillByte, S!StringInv, S!Written, S!Zero
<1>3. ASSUME NEW i \in todo, S!StampByte(i)
      PROVE  S!StringInv'
  <2>1. i \in 0 .. SharedBytes - 1 /\ Len(source) = SharedBytes - 1
    BY <1>0, <1>3 DEF S!StampByte, S!StringInv
  <2>2. (IF i = SharedBytes - 1 THEN 0 ELSE source[i + 1]) \in 0 .. CharRange - 1
    BY <1>0, <2>1
  <2>3. shared' \in [0 .. SharedBytes - 1 -> 0 .. CharRange - 1]
        /\ shared'[i] = (IF i = SharedBytes - 1 THEN 0 ELSE source[i + 1])
        /\ \A j \in 0 .. SharedBytes - 1 : j # i => shared'[j] = shared[j]
    BY <1>0, <1>3, <2>1, <2>2 DEF S!StampByte
  <2>4. S!StringTypeOK'
    BY <1>0, <1>3, <2>3 DEF S!StampByte, S!StringTypeOK, S!Bytes
  <2>5. pc = "stamp" /\ pc' = "stamp" /\ source' = source /\ todo' = todo \ {i}
    BY <1>3, <1>0 DEF S!StampByte
  <2>6. \A j \in (0 .. SharedBytes - 1) \ todo :
          IF j = SharedBytes - 1 THEN shared[j] = 0 ELSE shared[j] = source[j + 1]
    BY <2>5 DEF S!StringInv, S!Written, S!Zero
  <2>7. \A j \in (0 .. SharedBytes - 1) \ todo' :
          IF j = SharedBytes - 1 THEN shared'[j] = 0 ELSE shared'[j] = source[j + 1]
    BY <2>3, <2>5, <2>6
  <2> QED BY <2>1, <2>4, <2>5, <2>7 DEF S!StringInv, S!Written, S!Zero
<1>4. CASE S!BeginFill
  BY <1>0, <1>4, SMTT(30) DEF S!BeginFill, S!StringInv, S!StringTypeOK, S!Written, S!Zero
<1>5. CASE S!StoreFree
  <2>1. S!Char(S!MAX_SIZE - Len(source)) = SharedBytes - 1 - Len(source)
    BY <1>0, CharIs
  <2>2. shared' \in [0 .. SharedBytes - 1 -> 0 .. CharRange - 1]
        /\ shared'[SharedBytes - 1] = SharedBytes - 1 - Len(source)
        /\ \A j \in 0 .. SharedBytes - 2 : shared'[j] = shared[j]
    BY <1>0, <1>5, <2>1 DEF S!StoreFree
  <2>3. S!StringTypeOK'
    BY <1>0, <1>5, <2>2 DEF S!StoreFree, S!StringTypeOK, S!Bytes
  <2>4. S!Size' = Len(source)
    BY <1>0, <2>2 DEF S!Size
  <2>5. \A j \in 0 .. SharedBytes - 2 : IF j < Len(source) THEN shared[j] = source[j + 1] ELSE shared[j] = 0
    BY <1>5 DEF S!StoreFree, S!StringInv, S!Written, S!Zero
  <2>6. ASSUME NEW j \in 0 .. SharedBytes - 2
        PROVE  IF j < S!Size' THEN shared'[j] \in Letters ELSE shared'[j] = 0
    <3>1. CASE j < Len(source)
      <4>1. j \in 0 .. Len(source) - 1
        BY <1>0, <3>1
      <4>2. shared'[j] = source[j + 1]
        BY <3>1, <2>2, <2>4, <2>5
      <4> QED BY <3>1, <4>1, <4>2, <1>01, <2>4
    <3>2. CASE ~(j < Len(source))
      BY <3>2, <2>2, <2>4, <2>5
    <3> QED BY <3>1, <3>2
  <2>7. pc' = "ready"
    BY <1>5 DEF S!StoreFree
  <2>8. shared'[SharedBytes - 1] <= SharedBytes - 1
    BY <1>0, <2>2
  <2> QED BY <2>3, <2>6, <2>7, <2>8 DEF S!StringInv, S!Zero
<1>6. CASE S!CountDown
  <2>1. Len(source) > 0 /\ shared[SharedBytes - 1] = SharedBytes - 1 - Len(source) + 1
        /\ \A j \in 0 .. SharedBytes - 2 : IF j < Len(source) THEN shared[j] = source[j + 1] ELSE shared[j] = 0
    BY <1>6 DEF S!CountDown, S!StringInv, S!Written, S!Zero
  <2>2. S!Char(shared[SharedBytes - 1] + CharRange - 1) = SharedBytes - 1 - Len(source)
    <3>1. shared[SharedBytes - 1] + CharRange - 1 = (SharedBytes - 1 - Len(source)) + CharRange
      BY <1>0, <2>1
    <3> QED BY <1>0, <3>1, CharIs
  <2>3. shared' \in [0 .. SharedBytes - 1 -> 0 .. CharRange - 1]
        /\ shared'[SharedBytes - 1] = SharedBytes - 1 - Len(source)
        /\ \A j \in 0 .. SharedBytes - 2 : shared'[j] = shared[j]
    BY <1>0, <1>6, <2>2 DEF S!CountDown
  <2>4. S!StringTypeOK'
    BY <1>0, <1>6, <2>3 DEF S!CountDown, S!StringTypeOK, S!Bytes
  <2>5. S!Size' = Len(source)
    BY <1>0, <2>3 DEF S!Size
  <2>6. ASSUME NEW j \in 0 .. SharedBytes - 2
        PROVE  IF j < S!Size' THEN shared'[j] \in Letters ELSE shared'[j] = 0
    <3>1. CASE j < Len(source)
      <4>1. j \in 0 .. Len(source) - 1
        BY <1>0, <3>1
      <4>2. shared'[j] = source[j + 1]
        BY <3>1, <2>1, <2>3, <2>5
      <4> QED BY <3>1, <4>1, <4>2, <1>01, <2>5
    <3>2. CASE ~(j < Len(source))
      BY <3>2, <2>1, <2>3, <2>5
    <3> QED BY <3>1, <3>2
  <2>7. pc' = "ready"
    BY <1>6 DEF S!CountDown
  <2>8. shared'[SharedBytes - 1] <= SharedBytes - 1
    BY <1>0, <2>3
  <2> QED BY <2>4, <2>6, <2>7, <2>8 DEF S!StringInv, S!Zero
<1>7. CASE S!Stamped
  <2>1. shared[SharedBytes - 1] = 0 /\ Len(source) = SharedBytes - 1
        /\ \A j \in 0 .. SharedBytes - 2 : shared[j] = source[j + 1]
    BY <1>7 DEF S!Stamped, S!StringInv, S!Written, S!Zero
  <2>2. S!Size = SharedBytes - 1
    BY <2>1 DEF S!Size
  <2>3. ASSUME NEW j \in 0 .. SharedBytes - 2
        PROVE  shared[j] \in Letters
    <3>1. j \in 0 .. Len(source) - 1
      BY <2>1
    <3> QED BY <2>1, <3>1, <1>01
  <2> QED BY <1>0, <1>7, <2>1, <2>2, <2>3 DEF S!Stamped, S!StringInv, S!StringTypeOK, S!Zero, S!Size, S!Bytes
<1> QED BY <1>1, <1>2, <1>3, <1>4, <1>5, <1>6, <1>7 DEF S!Step

LEMMA StringInit == PathInit => S!StringInv
<1> SUFFICES ASSUME PathInit
             PROVE  S!StringInv
  OBVIOUS
<1>1. CASE role = "name"
  <2>1. shared = S!Holding(Unnamed) /\ pc = "ready" /\ source = Unnamed /\ todo = {}
    BY <1>1 DEF PathInit
  <2>2. Unnamed \in Seq(Letters) /\ Len(Unnamed) < SharedBytes - 1
    BY PathAssumption
  <2>3. Len(Unnamed) \in Nat /\ S!Fits(Unnamed)
    BY <2>2, SizesOk DEF S!Fits
  <2> QED BY <2>1, <2>2, <2>3, StringHolds DEF S!Fits
<1>2. CASE role # "name"
  <2>1. S!Init
    BY <1>2 DEF PathInit
  <2>2. PICK str \in Strings : S!Fits(str) /\ shared = S!Holding(str)
    BY <2>1 DEF S!Init
  <2>3. pc = "ready" /\ source = << >> /\ todo = {} /\ str \in Seq(Letters)
    BY <2>1, SizesOk DEF S!Init
  <2>4. << >> \in Seq(Letters) /\ Len(<< >>) <= S!MAX_SIZE
    BY SizesOk, EmptySeq
  <2> QED BY <2>2, <2>3, <2>4, StringHolds
<1> QED BY <1>1, <1>2

LEMMA StringKeeps == S!StringInv /\ [PathNext]_pathVars => S!StringInv'
<1> SUFFICES ASSUME S!StringInv, [PathNext]_pathVars
             PROVE  S!StringInv'
  OBVIOUS
<1>1. CASE AssignName
  <2>1. PICK n \in Names : S!Assign(n)
    BY <1>1 DEF AssignName
  <2>2. n \in Seq(Letters)
    BY PathAssumption
  <2> QED BY <2>1, <2>2, AssignKeeps
<1>2. CASE BuildLocal
  BY <1>2, StringCallKeeps DEF BuildLocal
<1>3. CASE StringStep
  BY <1>3, StringStepKeeps DEF StringStep
<1>4. CASE UNCHANGED <<shared, pc, source, todo>>
  BY <1>4 DEF S!StringInv, S!StringTypeOK, S!Written, S!Zero, S!Size
<1>5. CASE CodecStep
  <2>1. UNCHANGED shared
    BY <1>5 DEF CodecStep, LogStep, PrintStep, Log, WriteValue, Measure, WriteString,
                LogNotice, Push, PrintValue, PrintString, EndLine
  <2>2. UNCHANGED <<pc, source, todo>>
    BY <1>5 DEF CodecStep, stringVars
  <2> QED BY <1>4, <2>1, <2>2
<1>6. CASE UNCHANGED pathVars
  BY <1>4, <1>6 DEF pathVars, vars, stringVars
<1> QED BY <1>1, <1>2, <1>3, <1>5, <1>6 DEF PathNext

(***************************************************************************)
(* The bytes implement the bounded string.                                 *)
(***************************************************************************)

\* The text of a string whose bytes are those of str.
LEMMA TextOf ==
  ASSUME NEW b, NEW str \in Seq(Letters), \A i \in 0 .. Len(str) - 1 : b[i] = str[i + 1]
  PROVE  [i \in 1 .. Len(str) |-> b[i - 1]] = str
<1> DEFINE v == [i \in 1 .. Len(str) |-> b[i - 1]]
<1>1. Len(str) \in Nat /\ str \in [1 .. Len(str) -> Letters]
  BY LenProperties
<1>2. \A i \in 1 .. Len(str) : b[i - 1] = str[i]
  <2>1. \A i \in 1 .. Len(str) : i - 1 \in 0 .. Len(str) - 1 /\ i - 1 + 1 = i
    BY <1>1
  <2> QED BY <2>1
<1>3. v \in Seq(Letters) /\ Len(v) = Len(str) /\ \A i \in 1 .. Len(v) : v[i] = str[i]
  <2>1. \A i \in 1 .. Len(str) : b[i - 1] \in Letters
    BY <1>1, <1>2
  <2> QED BY <1>1, <1>2, <2>1
<1> QED BY <1>3, SeqEqual

LEMMA BoundedInit == PathInit => S!B!Init
<1> SUFFICES ASSUME PathInit
             PROVE  S!B!Init
  OBVIOUS
<1>1. S!StringInv /\ pc = "ready"
  BY StringInit DEF PathInit, S!Init
<1>2. S!Value = S!View /\ S!Op = "none"
  BY <1>1 DEF S!Value, S!Op
<1>3. S!View \in Seq(Letters) /\ Len(S!View) <= S!MAX_SIZE
  BY <1>1, ViewIs, SizesOk
<1> QED BY <1>2, <1>3 DEF S!B!Init

LEMMA BoundedStep == S!StringInv /\ [PathNext]_pathVars => [S!B!Next]_<<S!Value, S!Op>>
<1> SUFFICES ASSUME S!StringInv, [PathNext]_pathVars
             PROVE  S!B!Next \/ (S!Value' = S!Value /\ S!Op' = S!Op)
  BY DEF S!B!Next
<1> USE SizesOk
<1>1. /\ shared \in [0 .. SharedBytes - 1 -> 0 .. CharRange - 1]
      /\ source \in Seq(Letters) /\ Len(source) \in 0 .. SharedBytes - 1
      /\ pc \in {"ready", "copy", "fill", "pushed", "stamp"}
  BY DEF S!StringInv, S!StringTypeOK, S!Bytes
\* A whole new text.
<1>2. ASSUME NEW str \in Seq(Letters), S!Assign(str) \/ S!Stamp(str)
      PROVE  S!B!Next
  <2>1. /\ pc = "ready" /\ pc' \in {"copy", "stamp"} /\ source' = str /\ Len(str) <= SharedBytes - 1
    BY <1>2 DEF S!Assign, S!Stamp, S!Fits
  <2>2. S!Op = "none" /\ S!Op' = "assign" /\ S!Value' = str
    BY <2>1 DEF S!Op, S!Value
  <2> QED BY <2>1, <2>2 DEF S!B!Next, S!B!Assign
\* One more character.
<1>3. ASSUME NEW c \in Letters, S!PushBack(c)
      PROVE  S!B!Next
  <2>1. pc = "ready" /\ pc' = "pushed" /\ source' = Append(S!View, c) /\ S!Size < SharedBytes - 1
    BY <1>3 DEF S!PushBack
  <2>2. S!Op = "none" /\ S!Op' = "append" /\ S!Value = S!View /\ S!Value' = Append(S!View, c)
    BY <2>1 DEF S!Op, S!Value
  <2>3. Len(S!View) < S!MAX_SIZE
    BY <2>1, ViewIs
  <2> QED BY <2>2, <2>3 DEF S!B!Next, S!B!PushBack
\* A mutator returns: the bytes are its text.
<1>4. ASSUME pc \in {"fill", "pushed", "stamp"}, pc' = "ready", S!Size' = Len(source),
             \A i \in 0 .. Len(source) - 1 : shared'[i] = source[i + 1]
      PROVE  S!B!Next
  <2>1. S!View' = [i \in 1 .. Len(source) |-> shared'[i - 1]]
    BY <1>4 DEF S!View
  <2>2. S!View' = source
    BY <1>1, <1>4, <2>1, TextOf
  <2>3. S!Value = source /\ S!Value' = source /\ S!Op # "none" /\ S!Op' = "none"
    BY <1>4, <2>2 DEF S!Value, S!Op
  <2> QED BY <2>3 DEF S!B!Next, S!B!Return
<1>5. ASSUME S!Step
      PROVE  S!B!Next \/ (S!Value' = S!Value /\ S!Op' = S!Op)
  <2>1. ASSUME NEW i \in todo, S!CopyByte(i) \/ S!FillByte(i) \/ S!StampByte(i)
        PROVE  S!Value' = S!Value /\ S!Op' = S!Op
    BY <2>1 DEF S!CopyByte, S!FillByte, S!StampByte, S!Value, S!Op
  <2>2. CASE S!BeginFill
    BY <2>2 DEF S!BeginFill, S!Value, S!Op
  <2>3. CASE S!StoreFree
    <3>1. S!Char(S!MAX_SIZE - Len(source)) = SharedBytes - 1 - Len(source)
      BY <1>1, CharIs
    <3>2. /\ shared'[SharedBytes - 1] = SharedBytes - 1 - Len(source)
          /\ \A j \in 0 .. SharedBytes - 2 : shared'[j] = shared[j]
      BY <1>1, <2>3, <3>1 DEF S!StoreFree
    <3>3. S!Size' = Len(source)
      BY <1>1, <3>2 DEF S!Size
    <3>4. \A i \in 0 .. Len(source) - 1 : shared'[i] = source[i + 1]
      <4>1. \A i \in 0 .. SharedBytes - 2 : i < Len(source) => shared[i] = source[i + 1]
        BY <2>3 DEF S!StoreFree, S!StringInv, S!Written
      <4>2. \A i \in 0 .. Len(source) - 1 : i \in 0 .. SharedBytes - 2 /\ i < Len(source)
        BY <1>1
      <4> QED BY <3>2, <4>1, <4>2
    <3> QED BY <2>3, <1>4, <3>3, <3>4 DEF S!StoreFree
  <2>4. CASE S!CountDown
    <3>1. Len(source) > 0 /\ shared[SharedBytes - 1] = SharedBytes - 1 - Len(source) + 1
          /\ \A j \in 0 .. SharedBytes - 2 : j < Len(source) => shared[j] = source[j + 1]
      BY <2>4 DEF S!CountDown, S!StringInv, S!Written
    <3>2. S!Char(shared[SharedBytes - 1] + CharRange - 1) = SharedBytes - 1 - Len(source)
      <4>1. shared[SharedBytes - 1] + CharRange - 1 = (SharedBytes - 1 - Len(source)) + CharRange
        BY <1>1, <3>1
      <4> QED BY <1>1, <4>1, CharIs
    <3>3. shared'[SharedBytes - 1] = SharedBytes - 1 - Len(source)
          /\ \A j \in 0 .. SharedBytes - 2 : shared'[j] = shared[j]
      BY <1>1, <2>4, <3>2 DEF S!CountDown
    <3>4. S!Size' = Len(source)
      BY <1>1, <3>3 DEF S!Size
    <3>5. \A i \in 0 .. Len(source) - 1 : shared'[i] = source[i + 1]
      <4>1. \A i \in 0 .. Len(source) - 1 : i \in 0 .. SharedBytes - 2 /\ i < Len(source)
        BY <1>1
      <4> QED BY <3>1, <3>3, <4>1
    <3> QED BY <2>4, <1>4, <3>4, <3>5 DEF S!CountDown
  <2>5. CASE S!Stamped
    <3>1. shared[SharedBytes - 1] = 0 /\ Len(source) = SharedBytes - 1
          /\ \A j \in 0 .. SharedBytes - 2 : shared[j] = source[j + 1]
      BY <2>5 DEF S!Stamped, S!StringInv, S!Written, S!Zero
    <3>2. shared' = shared /\ pc = "stamp" /\ pc' = "ready"
      BY <2>5 DEF S!Stamped
    <3>3. S!Size' = Len(source)
      BY <3>1, <3>2 DEF S!Size
    <3>4. \A i \in 0 .. Len(source) - 1 : shared'[i] = source[i + 1]
      BY <3>1, <3>2
    <3> QED BY <1>4, <3>2, <3>3, <3>4
  <2> QED BY <1>5, <2>1, <2>2, <2>3, <2>4, <2>5 DEF S!Step
<1>6. CASE AssignName
  <2>1. PICK n \in Names : S!Assign(n)
    BY <1>6 DEF AssignName
  <2>2. n \in Seq(Letters)
    BY PathAssumption
  <2> QED BY <1>2, <2>1, <2>2
<1>7. CASE BuildLocal
  <2>1. S!Call
    BY <1>7 DEF BuildLocal
  <2>2. \A str \in Strings : str \in Seq(Letters)
    OBVIOUS
  <2> QED BY <1>2, <1>3, <2>1, <2>2 DEF S!Call
<1>8. CASE StringStep
  BY <1>5, <1>8 DEF StringStep
<1>9. CASE UNCHANGED <<shared, pc, source, todo>>
  BY <1>9 DEF S!Value, S!Op, S!View, S!Size
<1>10. CASE CodecStep
  <2>1. UNCHANGED shared
    BY <1>10 DEF CodecStep, LogStep, PrintStep, Log, WriteValue, Measure, WriteString,
                 LogNotice, Push, PrintValue, PrintString, EndLine
  <2>2. UNCHANGED <<pc, source, todo>>
    BY <1>10 DEF CodecStep, stringVars
  <2> QED BY <1>9, <2>1, <2>2
<1>11. CASE UNCHANGED pathVars
  BY <1>9, <1>11 DEF pathVars, vars, stringVars
<1> QED BY <1>6, <1>7, <1>8, <1>10, <1>11 DEF PathNext

(***************************************************************************)
(* The invariant.                                                          *)
(***************************************************************************)

LEMMA SharedIs ==
  ASSUME S!StringInv
  PROVE  shared \in [0 .. SharedBytes - 1 -> Nat]
<1>1. shared \in [0 .. SharedBytes - 1 -> 0 .. CharRange - 1] /\ CharRange \in Nat
  BY SizesOk DEF S!StringInv, S!StringTypeOK, S!Bytes
<1> QED BY <1>1

LEMMA CodecInit == PathInit => CodecOK /\ CutIsAnnounced
<1> SUFFICES ASSUME PathInit
             PROVE  CodecOK /\ CutIsAnnounced
  OBVIOUS
<1>1. calls = << >> /\ sent = << >> /\ lines = << >> /\ out = Nothing /\ logs = 0
  BY DEF PathInit
<1>2. shared \in [0 .. SharedBytes - 1 -> Nat]
  BY StringInit, SharedIs
<1>3. TypeOK
  <2>1. Nothing \in [pos : Nat, shown : Seq(Items)]
    BY EmptySeq DEF Nothing
  <2>2. 0 \in 0 .. MaxLogs
    BY CodecAssumption
  <2> QED BY <1>1, <1>2, <2>1, <2>2, EmptySeq DEF TypeOK
<1>4. CodecInv
  BY <1>1 DEF CodecInv, PrinterInv
<1>5. AnnounceInv
  BY <1>1 DEF AnnounceInv, Pending
<1>6. CutIsAnnounced
  BY <1>1 DEF CutIsAnnounced
<1> QED BY <1>3, <1>4, <1>5, <1>6 DEF CodecOK

LEMMA PathKeepsCodec ==
  CodecOK /\ CutIsAnnounced /\ S!StringInv /\ [PathNext]_pathVars => (CodecOK /\ CutIsAnnounced)'
<1> SUFFICES ASSUME CodecOK, CutIsAnnounced, S!StringInv, [PathNext]_pathVars
             PROVE  CodecOK' /\ CutIsAnnounced'
  OBVIOUS
<1>1. CASE CodecStep
  BY <1>1, CodecKeeps, AnnouncedKeeps DEF CodecStep, Next
<1>2. CASE UNCHANGED codecVars
  <2>1. UNCHANGED <<calls, sent, out, lines, logs>>
    BY <1>2 DEF codecVars
  <2>2. shared' \in [0 .. SharedBytes - 1 -> Nat]
    <3>1. S!StringInv'
      BY StringKeeps
    <3>2. (shared \in [0 .. SharedBytes - 1 -> 0 .. CharRange - 1])'
      BY <3>1 DEF S!StringInv, S!StringTypeOK, S!Bytes
    <3> QED BY <3>2, SizesOk
  <2>3. TypeOK'
    BY <2>1, <2>2 DEF CodecOK, TypeOK
  <2>4. CodecInv'
    BY <2>1 DEF CodecOK, CodecInv, PrinterInv
  <2>5. AnnounceInv'
    BY <2>1 DEF CodecOK, AnnounceInv, Pending, LastLine
  <2>6. CutIsAnnounced'
    BY <2>1 DEF CutIsAnnounced
  <2> QED BY <2>3, <2>4, <2>5, <2>6 DEF CodecOK
<1>3. CASE UNCHANGED pathVars
  BY <1>2, <1>3 DEF pathVars, vars, codecVars
<1> QED BY <1>1, <1>2, <1>3 DEF PathNext, AssignName, BuildLocal, StringStep

\* The bytes of a name are those of the old one or of the new.
LEMMA NameInit ==
  ASSUME PathInit, role = "name"
  PROVE  NameInv
<1> USE SizesOk
<1>1. shared = S!Holding(Unnamed) /\ pc = "ready" /\ source = Unnamed
  BY DEF PathInit
<1>2. Unnamed \in Seq(Letters) /\ Len(Unnamed) \in Nat /\ Len(Unnamed) < SharedBytes - 1
  BY PathAssumption, LenProperties
<1>3. /\ \A i \in 0 .. SharedBytes - 2 : shared[i] = IF i < Len(Unnamed) THEN Unnamed[i + 1] ELSE 0
      /\ S!View = Unnamed
  BY <1>1, <1>2, HoldingIs DEF S!Fits
<1>4. \A i \in 0 .. SharedBytes - 2 : shared[i] = At1(Unnamed, i + 1)
  <2>1. \A i \in 0 .. SharedBytes - 2 : i < Len(Unnamed) <=> i + 1 <= Len(Unnamed)
    BY <1>2
  <2> QED BY <1>3, <2>1 DEF At1
<1> QED BY <1>1, <1>3, <1>4 DEF NameInv, S!Value

LEMMA NameAssigned ==
  ASSUME NameInv, AssignName
  PROVE  NameInv'
<1>1. PICK n \in Names : source \in {Unnamed, n} /\ S!Assign(n)
  BY DEF AssignName
<1>2. pc' = "copy" /\ source' = n /\ shared' = shared
  BY <1>1 DEF S!Assign
<1>3. S!Value' = source'
  BY <1>2 DEF S!Value
<1>4. \A i \in 0 .. SharedBytes - 2 : shared'[i] \in {At1(Unnamed, i + 1), At1(source', i + 1)}
  BY <1>1, <1>2 DEF NameInv
<1> QED BY <1>2, <1>3, <1>4 DEF NameInv, At1

LEMMA NameWritten ==
  ASSUME S!StringInv, NameInv, StringStep
  PROVE  NameInv' /\ UNCHANGED source
<1> USE SizesOk
<1>1. S!Step /\ pc \in {"copy", "fill"} /\ source' = source /\ pc' \in {"ready", "copy", "fill"}
  BY DEF StringStep, NameInv, S!Step, S!CopyByte, S!FillByte, S!StampByte, S!BeginFill, S!StoreFree,
         S!CountDown, S!Stamped
<1>2. S!Value' = source'
  <2>1. [S!B!Next]_<<S!Value, S!Op>>
    BY BoundedStep DEF PathNext
  <2>2. S!Op # "none"
    BY <1>1 DEF S!Op
  <2>3. S!Value' = S!Value
    BY <2>1, <2>2 DEF S!B!Next, S!B!Assign, S!B!PushBack, S!B!Return
  <2> QED BY <1>1, <2>3 DEF NameInv
<1>3. /\ shared \in [0 .. SharedBytes - 1 -> 0 .. CharRange - 1]
      /\ source \in Seq(Letters) /\ Len(source) \in 0 .. SharedBytes - 1
  BY DEF S!StringInv, S!StringTypeOK, S!Bytes
<1>4. \A i \in 0 .. SharedBytes - 2 : shared'[i] \in {shared[i], At1(source, i + 1)}
  <2>1. ASSUME NEW i \in todo, S!CopyByte(i)
        PROVE  \A j \in 0 .. SharedBytes - 2 : shared'[j] \in {shared[j], At1(source, j + 1)}
    <3>1. i \in 0 .. Len(source) - 1 /\ shared' = [shared EXCEPT ![i] = source[i + 1]]
      BY <2>1 DEF S!CopyByte, S!StringInv
    <3>2. At1(source, i + 1) = source[i + 1]
      <4>1. i + 1 <= Len(source)
        BY <1>3, <3>1
      <4> QED BY <4>1 DEF At1
    <3> QED BY <1>3, <3>1, <3>2
  <2>2. ASSUME NEW i \in todo, S!FillByte(i)
        PROVE  \A j \in 0 .. SharedBytes - 2 : shared'[j] \in {shared[j], At1(source, j + 1)}
    <3>1. i \in Len(source) .. SharedBytes - 2 /\ shared' = [shared EXCEPT ![i] = 0]
      BY <1>3, <2>2 DEF S!FillByte, S!StringInv
    <3>2. At1(source, i + 1) = 0
      <4>1. ~(i + 1 <= Len(source))
        BY <1>3, <3>1
      <4> QED BY <4>1 DEF At1
    <3> QED BY <1>3, <3>1, <3>2
  <2>3. CASE S!BeginFill
    BY <2>3 DEF S!BeginFill
  <2>4. CASE S!StoreFree
    <3>1. shared' = [shared EXCEPT ![SharedBytes - 1] = S!Char(S!MAX_SIZE - Len(source))]
      BY <2>4 DEF S!StoreFree
    <3> QED BY <1>3, <3>1
  <2> QED BY <1>1, <2>1, <2>2, <2>3, <2>4 DEF S!Step, S!StampByte, S!CountDown, S!Stamped
<1>5. \A i \in 0 .. SharedBytes - 2 : shared'[i] \in {At1(Unnamed, i + 1), At1(source', i + 1)}
  BY <1>1, <1>4 DEF NameInv
<1>6. source' \in Names \cup {Unnamed}
  BY <1>1 DEF NameInv
<1> QED BY <1>1, <1>2, <1>5, <1>6 DEF NameInv, At1

\* A step of log() or of print() leaves the string alone.
LEMMA CodecStepIs ==
  ASSUME CodecStep
  PROVE  /\ role' = role /\ pc' = pc /\ source' = source /\ todo' = todo /\ shared' = shared
         /\ torn' = (torn \/ (Reading /\ pc # "ready"))
         /\ role = "local" => pc = "ready"
         /\ S!Size' = S!Size /\ S!View' = S!View /\ S!Value' = S!Value
<1>1. /\ role' = role /\ pc' = pc /\ source' = source /\ todo' = todo
      /\ torn' = (torn \/ (Reading /\ pc # "ready"))
      /\ role = "local" => pc = "ready"
  BY DEF CodecStep, stringVars
<1>2. shared' = shared
  BY DEF CodecStep, LogStep, PrintStep, Log, WriteValue, Measure, WriteString, LogNotice, Push,
         PrintValue, PrintString, EndLine
<1>3. S!Size' = S!Size /\ S!View' = S!View
  BY <1>2 DEF S!Size, S!View
<1> QED BY <1>1, <1>2, <1>3 DEF S!Value

LEMMA RoleInit == PathInit => RoleInv
<1> SUFFICES ASSUME PathInit
             PROVE  RoleInv
  OBVIOUS
<1>1. role = "name" => NameInv
  BY NameInit
<1> QED BY <1>1 DEF PathInit, RoleInv

LEMMA RoleKeeps == TypeOK /\ S!StringInv /\ RoleInv /\ [PathNext]_pathVars => RoleInv'
<1> SUFFICES ASSUME TypeOK, S!StringInv, RoleInv, [PathNext]_pathVars
             PROVE  RoleInv'
  OBVIOUS
<1>1. CASE AssignName
  <2>1. role = "name" /\ role' = role /\ UNCHANGED codecVars
    BY <1>1 DEF AssignName
  <2>2. NameInv'
    BY <1>1, <2>1, NameAssigned DEF RoleInv
  <2> QED BY <2>1, <2>2 DEF RoleInv, codecVars
<1>2. CASE BuildLocal
  BY <1>2 DEF BuildLocal, RoleInv, codecVars
<1>3. CASE StringStep
  <2>1. role' = role /\ UNCHANGED codecVars /\ pc # "ready"
    BY <1>3 DEF StringStep, S!Step, S!CopyByte, S!FillByte, S!StampByte, S!BeginFill, S!StoreFree,
                S!CountDown, S!Stamped
  <2>2. role = "name" => NameInv'
    BY <1>3, NameWritten DEF RoleInv
  <2> QED BY <2>1, <2>2 DEF RoleInv, codecVars
<1>4. CASE CodecStep
  <2>1. role' = role /\ pc' = pc /\ source' = source /\ shared' = shared /\ S!Value' = S!Value
        /\ (role = "local" => pc = "ready")
    BY <1>4, CodecStepIs
  <2>2. NameInv => NameInv'
    BY <2>1 DEF NameInv, At1
  <2>3. logs' # 0
    <3>1. logs \in Nat
      BY CodecAssumption DEF TypeOK
    <3>2. CASE logs = 0
      <4>1. calls = << >> /\ sent = << >>
        BY <3>2 DEF RoleInv
      <4>2. \E m \in Messages : Log(m)
        BY <1>4, <4>1 DEF CodecStep, LogStep, PrintStep, WriteValue, Measure, WriteString, LogNotice, Push,
                        PrintValue, PrintString, EndLine, HasArg, Packed, Printing
      <4> QED BY <3>1, <4>2 DEF Log
    <3>3. CASE logs # 0
      <4>1. logs' = logs \/ logs' = logs + 1
        BY <1>4 DEF CodecStep, LogStep, PrintStep, Log, WriteValue, Measure, WriteString, LogNotice, Push,
                    PrintValue, PrintString, EndLine
      <4> QED BY <3>1, <3>3, <4>1
    <3> QED BY <3>2, <3>3
  <2> QED BY <2>1, <2>2, <2>3 DEF RoleInv
<1>5. CASE UNCHANGED pathVars
  <2>1. UNCHANGED <<shared, role, pc, source, todo, logs, calls, sent, lines>>
    BY <1>5 DEF pathVars, vars, codecVars, stringVars
  <2>2. NameInv => NameInv'
    BY <2>1 DEF NameInv, At1, S!Value, S!View, S!Size
  <2> QED BY <2>1, <2>2 DEF RoleInv
<1> QED BY <1>1, <1>2, <1>3, <1>4, <1>5 DEF PathNext

LEMMA ReadersInside ==
  ASSUME S!StringInv, RoleInv
  PROVE  ReadersStayInside
<1> USE SizesOk
<1>1. S!StrLenIs(SharedBytes) => pc # "ready" /\ Len(source) = SharedBytes - 1
  <2>1. SUFFICES ASSUME \A i \in 0 .. SharedBytes - 1 : shared[i] # 0
                 PROVE  pc # "ready" /\ Len(source) = SharedBytes - 1
    BY DEF S!StrLenIs
  <2>2. shared[SharedBytes - 1] # 0 /\ shared[SharedBytes - 2] # 0 /\ shared[SharedBytes - 1] \in Nat
    BY <2>1 DEF S!StringInv, S!StringTypeOK, S!Bytes
  <2>3. Len(source) \in 0 .. SharedBytes - 1 /\ pc \in {"ready", "copy", "fill", "pushed", "stamp"}
    BY DEF S!StringInv, S!StringTypeOK
  <2>4. pc # "ready"
    <3>1. SUFFICES ASSUME pc = "ready"
                   PROVE  FALSE
      OBVIOUS
    <3>2. shared[SharedBytes - 1] <= SharedBytes - 1 /\ \A i \in 0 .. SharedBytes - 2 : i >= S!Size => shared[i] = 0
      <4>1. shared[SharedBytes - 1] <= SharedBytes - 1
        BY <3>1 DEF S!StringInv
      <4>2. \A i \in 0 .. SharedBytes - 2 : i >= S!Size => shared[i] = 0
        BY <2>3, <3>1, ViewIs DEF S!StringInv, S!Zero
      <4> QED BY <4>1, <4>2
    <3>3. S!Size \in 0 .. SharedBytes - 2
      BY <2>2, <3>2 DEF S!Size
    <3> QED BY <2>1, <3>2, <3>3
  <2>5. CASE pc \in {"copy", "fill"}
    BY <2>2, <2>3, <2>5 DEF S!StringInv, S!Zero
  <2>6. CASE pc = "pushed"
    <3>1. \A i \in 0 .. SharedBytes - 2 : i >= Len(source) => shared[i] = 0
      BY <2>3, <2>6 DEF S!StringInv, S!Zero
    <3>2. SharedBytes - 2 \in 0 .. SharedBytes - 2
      OBVIOUS
    <3> QED BY <2>2, <2>3, <2>6, <3>1, <3>2
  <2>7. CASE pc = "stamp"
    BY <2>7 DEF S!StringInv
  <2> QED BY <2>3, <2>4, <2>5, <2>6, <2>7
<1>2. role = "name" => Len(source) < SharedBytes - 1
  BY PathAssumption DEF RoleInv, NameInv
<1>3. SharedLenIs(SharedBytes) => S!StrLenIs(SharedBytes)
  BY DEF SharedLenIs, S!StrLenIs
<1> QED BY <1>1, <1>2, <1>3 DEF ReadersStayInside, S!ReadersStayInside

LEMMA SameTextHolds ==
  ASSUME S!StringInv, pc = "ready"
  PROVE  S!StrLenIs(S!Size)
<1> USE SizesOk
<1>1. S!Size \in 0 .. SharedBytes - 1 /\ shared[SharedBytes - 1] \in Nat
  BY ViewIs DEF S!StringInv, S!StringTypeOK, S!Bytes
<1>2. \A i \in 0 .. SharedBytes - 2 : IF i < S!Size THEN shared[i] \in Letters ELSE shared[i] = 0
  BY DEF S!StringInv, S!Zero
<1>3. \A i \in 0 .. S!Size - 1 : shared[i] # 0
  BY <1>1, <1>2
<1>4. shared[S!Size] = 0
  <2>1. CASE S!Size = SharedBytes - 1
    <3>1. shared[SharedBytes - 1] = 0
      BY <1>1, <2>1 DEF S!Size
    <3> QED BY <2>1, <3>1
  <2>2. CASE S!Size # SharedBytes - 1
    BY <1>1, <1>2, <2>2
  <2> QED BY <2>1, <2>2
<1> QED BY <1>3, <1>4 DEF S!StrLenIs

(***************************************************************************)
(* What is in the buffers and on the lines.                                *)
(***************************************************************************)

\* What may become of the string while a message is on its way.
Later(a, b) ==
  /\ b.role = a.role
  /\ a.role = "local" => b.view = a.view
  /\ a.role = "name" => a.source \in {Unnamed, b.source} /\ (a.torn => b.torn)

\* What shows an argument goes on to show it.
LEMMA LaterShows ==
  ASSUME NEW a, NEW b, Later(a, b), NEW args, NEW i, NEW item, Shows(args, i, item, a)
  PROVE  Shows(args, i, item, b)
<1>1. ASSUME NEW cells, ReadsAs(cells, a)
      PROVE  ReadsAs(cells, b)
  <2> DEFINE text == [k \in DOMAIN cells |-> cells[k][3]]
  <2>1. /\ a.role = "local" => text = a.view
        /\ a.role = "name" /\ ~a.torn => text \in {Unnamed, a.source}
        /\ a.role = "name" => \A k \in DOMAIN cells :
             cells[k] \in {<<"shared", k, At1(Unnamed, k)>>, <<"shared", k, At1(a.source, k)>>}
    BY <1>1 DEF ReadsAs
  <2> HIDE DEF text
  <2>2. /\ b.role = "local" => text = b.view
        /\ b.role = "name" /\ ~b.torn => text \in {Unnamed, b.source}
    BY <2>1 DEF Later
  <2>3. b.role = "name" => \A k \in DOMAIN cells :
          cells[k] \in {<<"shared", k, At1(Unnamed, k)>>, <<"shared", k, At1(b.source, k)>>}
    BY <2>1 DEF Later
  <2> QED BY <2>2, <2>3 DEF ReadsAs, text
<1> QED BY <1>1 DEF Shows

LEMMA LaterHolds ==
  ASSUME NEW a, NEW b, Later(a, b), NEW m
  PROVE  /\ PacketContent(m, a) => PacketContent(m, b)
         /\ FrameContent(m, a) /\ MeasuredInv(m, b) => FrameContent(m, b)
<1>1. \A n : WholeInv(m, n, a) => WholeInv(m, n, b)
  BY LaterShows DEF WholeInv
<1> QED BY <1>1 DEF PacketContent, FrameContent

LEMMA LinesLater ==
  ASSUME PrintsTheText, Later(Now, Now'), lines' = lines
  PROVE  PrintsTheText'
<1> DEFINE a == Now
           b == Now'
<1>1. \A l \in DOMAIN lines : ~Lacks(lines[l]) =>
        \A i \in DOMAIN lines[l].msg.args : Shows(lines[l].msg.args, i, lines[l].shown[i], a)
  BY DEF PrintsTheText
<1> HIDE DEF a, b
<1>2. \A l \in DOMAIN lines : ~Lacks(lines[l]) =>
        \A i \in DOMAIN lines[l].msg.args : Shows(lines[l].msg.args, i, lines[l].shown[i], b)
  BY <1>1, LaterShows DEF a, b
<1>3. \A l \in DOMAIN lines' : ~Lacks(lines'[l]) =>
        \A i \in DOMAIN lines'[l].msg.args : Shows(lines'[l].msg.args, i, lines'[l].shown[i], b)
  BY <1>2
<1> QED BY <1>3 DEF PrintsTheText, b, Lacks

\* A name is assigned, always to the same text, and a local string does not change any
\* more once it is logged.
LEMMA NowLater ==
  ASSUME S!StringInv, RoleInv, logs \in Nat \ {0}, [PathNext]_pathVars
  PROVE  Later(Now, Now')
<1>0. /\ Now.role = role /\ Now.torn = torn /\ Now.view = S!View /\ Now.source = source
      /\ Now'.role = role' /\ Now'.torn = torn' /\ Now'.view = S!View' /\ Now'.source = source'
  BY DEF Now
<1>1. CASE AssignName
  <2>1. role = "name" /\ role' = role /\ source \in {Unnamed, source'} /\ (torn => torn')
    BY <1>1 DEF AssignName, S!Assign
  <2> QED BY <1>0, <2>1 DEF Later
<1>2. CASE BuildLocal
  BY <1>2 DEF BuildLocal
<1>3. CASE StringStep
  <2>1. pc # "ready" /\ role' = role /\ torn' = torn
    BY <1>3 DEF StringStep, S!Step, S!CopyByte, S!FillByte, S!StampByte, S!BeginFill, S!StoreFree,
                S!CountDown, S!Stamped
  <2>2. role = "name" /\ NameInv
    BY <2>1 DEF RoleInv
  <2>3. source' = source
    BY <1>3, <2>2, NameWritten
  <2> QED BY <1>0, <2>1, <2>2, <2>3 DEF Later
<1>4. CASE CodecStep
  BY <1>0, <1>4, CodecStepIs DEF Later
<1>5. CASE UNCHANGED pathVars
  <2>1. role' = role /\ torn' = torn /\ source' = source /\ shared' = shared
    BY <1>5 DEF pathVars, vars, stringVars
  <2>2. S!View' = S!View
    BY <2>1 DEF S!View, S!Size
  <2> QED BY <1>0, <2>1, <2>2 DEF Later
<1> QED BY <1>1, <1>2, <1>3, <1>4, <1>5 DEF PathNext

\* A length that was measured stays that of the string, unless the call is torn.
LEMMA MeasuredLater ==
  ASSUME CodecStep, NEW f, MeasuredInv(f, Now)
  PROVE  MeasuredInv(f, Now')
<1> DEFINE a == Now
           b == Now'
<1>1. b.role = a.role /\ b.view = a.view /\ b.ready = a.ready /\ (a.torn => b.torn)
  BY CodecStepIs DEF Now
<1> HIDE DEF a, b
<1>2. MeasuredInv(f, a)
  BY DEF a
<1>3. MeasuredInv(f, b)
  BY <1>1, <1>2 DEF MeasuredInv
<1> QED BY <1>3 DEF b

LEMMA MeasuredMoves ==
  ASSUME CodecOK, RoleInv, AssignName \/ StringStep, NEW i \in DOMAIN calls,
         MeasuredInv(calls[i], Now)
  PROVE  MeasuredInv(calls[i], Now')
<1> SUFFICES ASSUME calls[i].len # -1
             PROVE  MeasuredInv(calls[i], Now')
  BY DEF MeasuredInv
<1>1. /\ Now.role = role /\ Now.torn = torn /\ Now.ready = (pc = "ready") /\ Now.view = S!View
      /\ Now'.role = role' /\ Now'.torn = torn' /\ Now'.ready = (pc' = "ready") /\ Now'.view = S!View'
  BY DEF Now
<1>2. calls[i].next <= Len(calls[i].msg.args) /\ IsString(calls[i].msg.args[calls[i].next].type)
  BY DEF MeasuredInv
<1>3. calls[i] = Top /\ HasArg
  <2>1. calls # << >> /\ calls \in Seq(Frames)
    BY DEF CodecOK, TypeOK
  <2>2. Len(calls) \in {1, 2} /\ DOMAIN calls = 1 .. Len(calls)
    BY <2>1, TopHolds, LenProperties
  <2>3. CASE i = Len(calls)
    <3>1. calls[i] = Top
      BY <2>3 DEF Top
    <3> QED BY <1>2, <2>1, <3>1 DEF HasArg
  <2>4. CASE i # Len(calls)
    <3>1. i = 1 /\ Len(calls) = 2
      <4>1. i \in 1 .. Len(calls)
        BY <2>2
      <4>2. Len(calls) = 2
        BY <2>2, <2>4, <4>1
      <4> QED BY <2>4, <4>1, <4>2
    <3>2. calls[1].noticed /\ calls[1].next > Len(calls[1].msg.args)
      BY <2>1, <3>1 DEF CodecOK, AnnounceInv
    <3>3. calls[1].next \in Nat /\ Len(calls[1].msg.args) \in Nat
      <4>1. calls[1] \in Frames
        BY <2>1, <3>1, ElementOfSeq
      <4> QED BY <4>1, ArgIs, LenProperties DEF Frames
    <3> QED BY <1>2, <3>1, <3>2, <3>3
  <2> QED BY <2>3, <2>4
<1>4. CASE AssignName
  <2>1. role' = "name" /\ torn' = (torn \/ (Reading /\ Top.len # -1))
    BY <1>4 DEF AssignName
  <2>2. CASE Arg.shared
    <3>1. torn'
      BY <1>3, <2>1, <2>2 DEF Reading
    <3> QED BY <1>1, <1>3, <2>1, <2>2, <3>1 DEF MeasuredInv, Arg
  <2>3. CASE ~Arg.shared
    BY <1>3, <2>3 DEF MeasuredInv, Arg
  <2> QED BY <2>2, <2>3
<1>5. CASE StringStep
  <2>1. pc # "ready" /\ role' = role /\ torn' = torn
    BY <1>5 DEF StringStep, S!Step, S!CopyByte, S!FillByte, S!StampByte, S!BeginFill, S!StoreFree,
                S!CountDown, S!Stamped
  <2>2. CASE Arg.shared
    <3>1. role # "local" /\ torn
      BY <1>1, <1>3, <2>1, <2>2 DEF MeasuredInv, Arg
    <3> QED BY <1>1, <1>3, <2>1, <2>2, <3>1 DEF MeasuredInv, Arg
  <2>3. CASE ~Arg.shared
    BY <1>3, <2>3 DEF MeasuredInv, Arg
  <2> QED BY <2>2, <2>3
<1> QED BY <1>4, <1>5

LEMMA ContentMoves ==
  ASSUME CodecOK, S!StringInv, RoleInv, ContentInv,
         AssignName \/ BuildLocal \/ StringStep \/ UNCHANGED pathVars
  PROVE  ContentInv'
<1>1. calls' = calls /\ sent' = sent /\ out' = out /\ lines' = lines
  BY DEF AssignName, BuildLocal, StringStep, pathVars, vars, codecVars
<1>2. ShownInv' /\ PrintsWhatFits'
  BY <1>1 DEF ContentInv, ShownInv, PrintsWhatFits
<1>3. CASE logs = 0
  <2>1. calls' = << >> /\ sent' = << >> /\ lines' = << >>
    BY <1>1, <1>3 DEF RoleInv
  <2> QED BY <1>2, <2>1 DEF ContentInv, PrintsTheText
<1>4. CASE logs # 0
  <2>1. Later(Now, Now')
    <3>1. logs \in Nat \ {0}
      BY <1>4, CodecAssumption DEF CodecOK, TypeOK
    <3> QED BY <3>1, NowLater DEF PathNext
  <2>2. PrintsTheText'
    BY <1>1, <2>1, LinesLater DEF ContentInv
  <2>3. \A i \in DOMAIN sent : PacketContent(sent[i], Now')
    BY <2>1, LaterHolds DEF ContentInv
  <2>4. ASSUME NEW i \in DOMAIN calls
        PROVE  FrameContent(calls[i], Now')
    <3>1. FrameContent(calls[i], Now) /\ MeasuredInv(calls[i], Now)
      BY DEF ContentInv, FrameContent
    <3>2. MeasuredInv(calls[i], Now')
      <4>1. CASE AssignName \/ StringStep
        BY <3>1, <4>1, MeasuredMoves
      <4>2. CASE BuildLocal
        BY <1>4, <4>2 DEF BuildLocal
      <4>3. CASE UNCHANGED pathVars
        <5>1. role' = role /\ torn' = torn /\ pc' = pc /\ source' = source /\ shared' = shared
          BY <4>3 DEF pathVars, vars, stringVars
        <5>2. S!View' = S!View
          BY <5>1 DEF S!View, S!Size
        <5>3. Now' = Now
          BY <5>1, <5>2 DEF Now
        <5> QED BY <3>1, <5>3
      <4> QED BY <4>1, <4>2, <4>3
    <3> QED BY <2>1, <3>1, <3>2, LaterHolds
  <2> QED BY <1>1, <1>2, <2>2, <2>3, <2>4 DEF ContentInv
<1> QED BY <1>3, <1>4

\* A step of log() or print() leaves what it does not touch as it is.
LEMMA CodecLater ==
  ASSUME CodecOK, S!StringInv, RoleInv, ContentInv, CodecStep
  PROVE  /\ \A i \in DOMAIN calls : FrameContent(calls[i], Now')
         /\ \A i \in DOMAIN sent : PacketContent(sent[i], Now')
         /\ \A l \in DOMAIN lines : ~Lacks(lines[l]) =>
              \A i \in DOMAIN lines[l].msg.args : Shows(lines[l].msg.args, i, lines[l].shown[i], Now')
         /\ lines' = lines => PrintsTheText' /\ PrintsWhatFits'
<1>1. CASE logs = 0
  BY <1>1 DEF RoleInv, PrintsTheText, PrintsWhatFits
<1>2. CASE logs # 0
  <2>1. Later(Now, Now')
    <3>1. logs \in Nat \ {0}
      BY <1>2, CodecAssumption DEF CodecOK, TypeOK
    <3> QED BY <3>1, NowLater DEF PathNext
  <2>2. ASSUME NEW i \in DOMAIN calls
        PROVE  FrameContent(calls[i], Now')
    <3>1. FrameContent(calls[i], Now) /\ MeasuredInv(calls[i], Now)
      BY DEF ContentInv, FrameContent
    <3>2. MeasuredInv(calls[i], Now')
      BY <3>1, MeasuredLater
    <3> QED BY <2>1, <3>1, <3>2, LaterHolds
  <2>3. \A i \in DOMAIN sent : PacketContent(sent[i], Now')
    BY <2>1, LaterHolds DEF ContentInv
  <2>4. \A l \in DOMAIN lines : ~Lacks(lines[l]) =>
          \A i \in DOMAIN lines[l].msg.args : Shows(lines[l].msg.args, i, lines[l].shown[i], Now')
    <3>1. \A l \in DOMAIN lines : ~Lacks(lines[l]) =>
            \A i \in DOMAIN lines[l].msg.args : Shows(lines[l].msg.args, i, lines[l].shown[i], Now)
      BY DEF ContentInv, PrintsTheText
    <3> QED BY <2>1, <3>1, LaterShows
  <2>5. lines' = lines => PrintsTheText' /\ PrintsWhatFits'
    BY <2>1, LinesLater DEF ContentInv, PrintsWhatFits
  <2> QED BY <2>2, <2>3, <2>4, <2>5
<1> QED BY <1>1, <1>2

\* An argument is dealt with, or measured: the rest is what it was.
LEMMA TopReplaced ==
  ASSUME CodecOK, S!StringInv, RoleInv, ContentInv, CodecStep, HasArg,
         NEW f, SetTop(f), FrameContent(f, Now'), UNCHANGED <<sent, out, lines>>
  PROVE  ContentInv'
<1>1. \A i \in DOMAIN calls' : FrameContent(calls'[i], Now')
  <2>1. DOMAIN calls' = DOMAIN calls /\ \A i \in DOMAIN calls : calls'[i] = f \/ calls'[i] = calls[i]
    BY DEF SetTop
  <2> QED BY <2>1, CodecLater
<1>2. ShownInv'
  BY DEF ContentInv, ShownInv
<1> QED BY <1>1, <1>2, CodecLater DEF ContentInv

LEMMA ArgKept ==
  ASSUME CodecOK, HasArg, NEW now, PackedInv(Top, Top.next - 1), WholeInv(Top, Top.next - 1, now),
         NEW cells \in Seq(Cell), NEW tag \in ArgType,
         Top.size + Len(cells) <= Capacity,
         Len(cells) > 0, cells[1] = <<"tag", tag>>,
         tag = "CString" => Len(cells) >= 3,
         NoText(Top.msg) => Len(cells) = Need(Arg),
         Shows(Top.msg.args, Top.next, Item(tag, cells), now)
  PROVE  FrameContent(Accepted(Written(cells), TRUE), now)
<1> DEFINE g == Accepted(Written(cells), TRUE)
           i == Top.next
           args == Top.msg.args
           n == Len(Top.starts)
<1>0. /\ Top \in Frames /\ i \in Nat \ {0} /\ i <= Len(args) /\ args \in Seq(Args) /\ Len(args) \in Nat
      /\ n \in Nat /\ FrameInv(Top)
  BY TopHolds DEF HasArg
<1>1. g.next = i + 1 /\ g.len = -1 /\ g.msg = Top.msg
  BY <1>0 DEF Accepted, Written, Frames
<1>2. i \in DOMAIN args
  BY <1>0, LenProperties
<1>3. NoText(Top.msg) => Item(tag, cells) = Meant(args, i)
  BY <1>2 DEF NoText, Shows
<1>4. /\ Len(g.starts) = n + 1
      /\ \A j \in 1 .. n : ItemAt(g, j) = ItemAt(Top, j)
      /\ ItemAt(g, n + 1) = Item(tag, cells)
      /\ PackedInv(g, i)
  BY <1>3, PackedFits
<1> HIDE DEF g
<1>5. WholeInv(g, i, now)
  <2>0. SUFFICES ASSUME Len(g.starts) = i, NEW j \in 1 .. i
                 PROVE  Shows(g.msg.args, j, ItemAt(g, j), now)
    BY DEF WholeInv
  <2>1. n + 1 = i /\ g.msg.args = args
    BY <1>1, <1>4, <2>0
  <2>2. CASE j = i
    BY <1>4, <2>1, <2>2
  <2>3. CASE j # i
    <3>1. j \in 1 .. n /\ j \in 1 .. i - 1 /\ n = i - 1
      <4>1. n \in Nat /\ i \in Nat /\ n + 1 = i /\ j \in 1 .. i /\ j # i
        BY <1>0, <2>1, <2>3
      <4> HIDE DEF n, i
      <4> QED BY <4>1
    <3>2. Shows(args, j, ItemAt(Top, j), now)
      BY <3>1 DEF WholeInv
    <3> QED BY <1>4, <2>1, <3>1, <3>2
  <2> QED BY <2>2, <2>3
<1>6. g.next - 1 = i
  BY <1>0, <1>1
<1> QED BY <1>1, <1>4, <1>5, <1>6 DEF FrameContent, MeasuredInv, g

LEMMA ArgDropped ==
  ASSUME CodecOK, HasArg, NEW now, PackedInv(Top, Top.next - 1),
         NoText(Top.msg) => Top.size + Need(Arg) > Capacity
  PROVE  FrameContent(Accepted(Top, FALSE), now)
<1> DEFINE g == Accepted(Top, FALSE)
           i == Top.next
<1>0. Top \in Frames /\ i \in Nat \ {0} /\ Len(Top.starts) \in Nat /\ Len(Top.starts) <= i - 1
  BY TopHolds DEF HasArg, FrameInv
<1>1. g.next = i + 1 /\ g.len = -1 /\ g.starts = Top.starts
  BY <1>0 DEF Accepted, Frames
<1>2. PackedInv(g, i)
  BY PackedSkips
<1> HIDE DEF g
<1>3. WholeInv(g, i, now) /\ g.next - 1 = i
  BY <1>0, <1>1 DEF WholeInv
<1> QED BY <1>1, <1>2, <1>3 DEF FrameContent, MeasuredInv, g

LEMMA TopContent ==
  ASSUME CodecOK, S!StringInv, RoleInv, ContentInv, CodecStep, HasArg
  PROVE  /\ FrameContent(Top, Now) /\ FrameContent(Top, Now') /\ Top.next \in DOMAIN Top.msg.args
         /\ Top \in Frames /\ Top.msg \in Sendable /\ TypeOK /\ WellFormed(Top)
<1>1. Len(calls) \in DOMAIN calls /\ Top \in Frames /\ TypeOK
  BY TopIs DEF CodecOK, HasArg
<1>2. FrameContent(Top, Now) /\ FrameContent(Top, Now')
  BY <1>1, CodecLater DEF ContentInv, Top
<1>3. Top.next \in DOMAIN Top.msg.args /\ Top.msg \in Sendable /\ WellFormed(Top)
  BY TopHolds, LenProperties DEF HasArg
<1> QED BY <1>1, <1>2, <1>3

LEMMA WriteValueContent ==
  ASSUME CodecOK, S!StringInv, RoleInv, ContentInv, CodecStep, WriteValue
  PROVE  ContentInv'
<1> DEFINE T == Arg.type
           tag == TagOf(T)
           i == Top.next
           cells == ValueArg(i, T)
<1>1. HasArg /\ calls # << >> /\ ~IsString(T) /\ UNCHANGED <<sent, out, lines>>
  BY DEF WriteValue, HasArg
<1>2. /\ FrameContent(Top, Now') /\ i \in DOMAIN Top.msg.args /\ Top \in Frames /\ TypeOK /\ WellFormed(Top)
      /\ T \in CppTypes /\ i \in Nat /\ Top.size \in Nat /\ Capacity \in Nat
      /\ Arg = Top.msg.args[i] /\ Top.msg \in Sendable
  BY <1>1, TopContent, TopHolds, CodecAssumption DEF Args, Arg
<1>3. tag \in ArgType \ {"CString"} /\ SizeOf(T) \in Nat \ {0} /\ SizeOf(T) = ReadWidth(tag)
  BY <1>1, <1>2, TagWidth
<1>4. /\ cells \in Seq(Cell) /\ Len(cells) = 1 + SizeOf(T) /\ cells[1] = <<"tag", tag>>
      /\ Item(tag, cells) = [type |-> tag, cells |-> Value(i, T)]
  BY <1>1, <1>2, ValueCells
<1>5. Need(Arg) = Len(cells)
  BY <1>1, <1>4 DEF Need
<1>6. ~Arg.shared
  <2>1. CASE Top.msg \in Messages
    BY <1>1, <1>2, <2>1, CodecAssumption
  <2>2. CASE Top.msg = Notice
    <3>1. i = 1
      <4>1. DOMAIN Notice.args = {1}
        BY DEF Notice
      <4> QED BY <1>2, <2>2, <4>1
    <3> QED BY <1>2, <2>2, <3>1, NoticeIs
  <2> QED BY <1>2, <2>1, <2>2 DEF Sendable
<1>7. Shows(Top.msg.args, i, Item(tag, cells), Now')
  BY <1>1, <1>2, <1>4, <1>6 DEF Shows, Meant
<1>8. PackedInv(Top, i - 1) /\ WholeInv(Top, i - 1, Now')
  BY <1>2 DEF FrameContent
<1>9. CASE Fits(1 + SizeOf(T))
  <2> DEFINE g == Accepted(Written(cells), TRUE)
  <2>1. Top.size + Len(cells) <= Capacity /\ Len(cells) > 0
    <3> HIDE DEF cells
    <3> QED BY <1>2, <1>3, <1>4, <1>9, SMTT(30) DEF Fits
  <2>2. FrameContent(g, Now')
    <3> HIDE DEF cells, tag, i
    <3> QED BY <1>1, <1>3, <1>4, <1>5, <1>7, <1>8, <2>1, ArgKept DEF i
  <2>3. SetTop(g)
    BY <1>9 DEF WriteValue, ValueArg
  <2> HIDE DEF g
  <2> QED BY <1>1, <2>2, <2>3, TopReplaced
<1>10. CASE ~Fits(1 + SizeOf(T))
  <2>1. Top.size + Need(Arg) > Capacity
    <3> HIDE DEF cells
    <3> QED BY <1>2, <1>3, <1>4, <1>5, <1>10, SMTT(30) DEF Fits
  <2>2. FrameContent(Accepted(Top, FALSE), Now')
    BY <1>1, <1>8, <2>1, ArgDropped
  <2>3. SetTop(Accepted(Top, FALSE))
    BY <1>10 DEF WriteValue
  <2> QED BY <1>1, <2>2, <2>3, TopReplaced
<1> QED BY <1>9, <1>10

\* What strlen finds: it ends inside the string, and a string nobody writes has that length.
LEMMA StringLength ==
  ASSUME S!StringInv, RoleInv, CodecStep, NEW n \in Nat, SharedLenIs(n)
  PROVE  n < SharedBytes /\ (pc = "ready" => n = Len(S!View))
<1> USE SizesOk
<1>1. \A i \in 0 .. n - 1 : shared[i] # 0
  BY DEF SharedLenIs
<1>2. n < SharedBytes
  <2>1. SUFFICES ASSUME n >= SharedBytes
                 PROVE  FALSE
    OBVIOUS
  <2>2. \A i \in 0 .. SharedBytes - 1 : shared[i] # 0
    BY <1>1, <2>1
  <2>3. S!StrLenIs(SharedBytes) /\ SharedLenIs(SharedBytes)
    BY <2>2 DEF S!StrLenIs, SharedLenIs
  <2>4. pc = "ready"
    BY <2>3, ReadersInside, CodecStepIs DEF ReadersStayInside, RoleInv
  <2> QED BY <2>3, <2>4, ReadersInside DEF ReadersStayInside, S!ReadersStayInside
<1>3. ASSUME pc = "ready"
      PROVE  n = Len(S!View)
  <2>1. S!Size \in 0 .. SharedBytes - 1 /\ Len(S!View) = S!Size
    BY <1>3, ViewIs
  <2>2. (\A i \in 0 .. S!Size - 1 : shared[i] # 0) /\ shared[S!Size] = 0
    BY <1>3, <2>1, SameTextHolds DEF S!StrLenIs
  <2>3. shared[n] = 0
    BY <1>2 DEF SharedLenIs
  <2>4. ~(n < S!Size)
    BY <2>1, <2>2, <2>3
  <2>5. ~(n > S!Size)
    BY <1>1, <2>1, <2>2
  <2> QED BY <2>1, <2>4, <2>5
<1> QED BY <1>2, <1>3

LEMMA MeasureContent ==
  ASSUME CodecOK, S!StringInv, RoleInv, ContentInv, CodecStep, Measure
  PROVE  ContentInv'
<1>1. HasArg /\ IsString(Arg.type) /\ UNCHANGED <<sent, out, lines>>
  BY DEF Measure
<1>2. PICK n \in 0 .. SharedBytes \cup {Arg.length} :
        StrLenIs(Arg, n) /\ SetTop([Top EXCEPT !.len = n % LenRange])
  BY DEF Measure
<1> DEFINE f == [Top EXCEPT !.len = n % LenRange]
           i == Top.next
<1>3. /\ FrameContent(Top, Now') /\ i \in DOMAIN Top.msg.args /\ Top \in Frames
      /\ i \in Nat /\ i <= Len(Top.msg.args) /\ Arg \in Args /\ calls # << >>
  BY <1>1, TopContent, TopHolds DEF HasArg
<1>4. f.msg = Top.msg /\ f.data = Top.data /\ f.size = Top.size /\ f.starts = Top.starts
      /\ f.next = i /\ f.len = n % LenRange
  BY <1>3 DEF Frames
<1>5. n \in Nat /\ SharedBytes \in Nat /\ LenRange \in Nat /\ SharedBytes < LenRange
  BY <1>3, SizesOk, CodecAssumption DEF Args
<1> HIDE DEF f
<1>6. PackedInv(f, i - 1) /\ WholeInv(f, i - 1, Now')
  BY <1>3, <1>4, ItemsSame DEF FrameContent, WholeInv
<1>7. MeasuredInv(f, Now')
  <2>1. CASE Arg.shared
    <3>1. SharedLenIs(n)
      BY <1>2, <2>1 DEF StrLenIs
    <3>2. n < SharedBytes /\ (pc = "ready" => n = Len(S!View))
      BY <1>5, <3>1, StringLength
    <3>3. f.len = n
      <4>1. n % LenRange = n
        BY <1>5, <3>2, Z3
      <4> QED BY <1>4, <4>1
    <3>4. Now'.role = "local" \/ ~Now'.torn => Now'.ready /\ Now'.view = S!View /\ pc = "ready"
      BY <1>1, <2>1, CodecStepIs DEF Now, Reading
    <3> QED BY <1>1, <1>3, <1>4, <2>1, <3>2, <3>3, <3>4 DEF MeasuredInv, Arg
  <2>2. CASE ~Arg.shared
    <3>1. f.len = Arg.length % LenRange
      BY <1>2, <1>4, <2>2 DEF StrLenIs
    <3> QED BY <1>1, <1>3, <1>4, <2>2, <3>1 DEF MeasuredInv, Arg
  <2> QED BY <2>1, <2>2
<1>8. FrameContent(f, Now')
  BY <1>4, <1>6, <1>7 DEF FrameContent
<1> QED BY <1>1, <1>2, <1>8, TopReplaced DEF f

\* What is copied is what the argument is to show.
LEMMA TextShows ==
  ASSUME CodecOK, S!StringInv, RoleInv, ContentInv, CodecStep, WriteString
  PROVE  Shows(Top.msg.args, Top.next,
               [type |-> "CString", cells |-> Text(Top.next, Arg, Top.len)], Now')
<1> DEFINE n == Top.len
           i == Top.next
           text == Text(i, Arg, n)
           b == Now'
<1>1. HasArg /\ IsString(Arg.type) /\ n # -1
  BY DEF WriteString
<1>2. /\ MeasuredInv(Top, b) /\ Arg = Top.msg.args[i] /\ n \in Nat
  BY <1>1, TopContent DEF FrameContent, Frames, Arg
<1>3. CASE ~Arg.shared
  <2>1. n = Arg.length % LenRange
    BY <1>1, <1>2, <1>3 DEF MeasuredInv
  <2>2. text = Chars(i, n)
    BY <1>3 DEF Text, Chars
  <2>3. Meant(Top.msg.args, i) = [type |-> "CString", cells |-> Chars(i, n)]
    BY <1>1, <1>2, <2>1 DEF Meant, IsString
  <2> QED BY <1>2, <1>3, <2>2, <2>3 DEF Shows
<1>4. CASE Arg.shared
  <2>1. n < SharedBytes /\ (b.role = "local" \/ ~b.torn => b.ready /\ n = Len(b.view))
    BY <1>1, <1>2, <1>4 DEF MeasuredInv
  <2>2. /\ b.role = role /\ b.torn = torn' /\ b.ready = (pc = "ready") /\ b.view = S!View /\ b.source = source
        /\ role = "local" => pc = "ready"
    BY CodecStepIs DEF Now
  <2> HIDE DEF b
  <2>3. text = [k \in 1 .. n |-> <<"shared", k, shared[k - 1]>>]
    <3>1. \A k \in 1 .. n : k <= SharedBytes
      BY <1>2, <2>1, SizesOk
    <3> QED BY <1>4, <3>1 DEF Text
  <2>4. DOMAIN text = 1 .. n /\ \A k \in 1 .. n : text[k] = <<"shared", k, shared[k - 1]>>
    BY <2>3
  <2> HIDE DEF text
  <2> DEFINE chars == [k \in DOMAIN text |-> text[k][3]]
  <2>5. chars = [k \in 1 .. n |-> shared[k - 1]]
    BY <2>4
  <2>6. ASSUME pc = "ready", n = Len(S!View)
        PROVE  chars = S!View
    <3>1. S!View = [k \in 1 .. S!Size |-> shared[k - 1]] /\ S!Size = n
      BY <2>6, ViewIs DEF S!View
    <3> QED BY <2>5, <3>1
  <2> HIDE DEF chars
  <2>7. b.role = "local" => chars = b.view
    BY <2>1, <2>2, <2>6
  <2>8. b.role = "name" /\ ~b.torn => chars \in {Unnamed, b.source}
    <3>1. SUFFICES ASSUME role = "name", ~b.torn
                   PROVE  chars = source
      BY <2>2
    <3>2. pc = "ready" /\ chars = S!View
      BY <2>1, <2>2, <2>6, <3>1
    <3> QED BY <3>1, <3>2 DEF RoleInv, NameInv, S!Value
  <2>9. b.role = "name" => \A k \in DOMAIN text :
          text[k] \in {<<"shared", k, At1(Unnamed, k)>>, <<"shared", k, At1(b.source, k)>>}
    <3>1. SUFFICES ASSUME b.role = "name", NEW k \in 1 .. n
                   PROVE  text[k] \in {<<"shared", k, At1(Unnamed, k)>>, <<"shared", k, At1(b.source, k)>>}
      BY <2>4
    <3>2. k - 1 \in 0 .. SharedBytes - 2 /\ k - 1 + 1 = k
      BY <1>2, <2>1, SizesOk
    <3>3. NameInv
      BY <2>2, <3>1 DEF RoleInv
    <3>4. shared[k - 1] \in {At1(Unnamed, k), At1(source, k)}
      BY <3>2, <3>3 DEF NameInv
    <3> QED BY <2>2, <2>4, <3>4
  <2>10. ReadsAs(text, b)
    BY <2>7, <2>8, <2>9 DEF ReadsAs, chars
  <2> QED BY <1>2, <1>4, <2>10 DEF Shows, b, text
<1> QED BY <1>3, <1>4

LEMMA WriteStringContent ==
  ASSUME CodecOK, S!StringInv, RoleInv, ContentInv, CodecStep, WriteString
  PROVE  ContentInv'
<1> DEFINE n == Top.len
           i == Top.next
           cells == StringArg(i, Arg, n)
           tag == "CString"
<1>1. HasArg /\ IsString(Arg.type) /\ n # -1 /\ UNCHANGED <<sent, out, lines>>
  BY DEF WriteString
<1>2. /\ FrameContent(Top, Now') /\ i \in DOMAIN Top.msg.args /\ TypeOK /\ i \in Nat /\ n \in Nat
      /\ Top.size \in Nat /\ Capacity \in Nat /\ Arg = Top.msg.args[i]
  BY <1>1, TopContent, CodecAssumption DEF Frames, Arg
<1>3. tag \in ArgType
  BY DEF ArgType
<1>4. /\ cells \in Seq(Cell) /\ Len(cells) = 3 + n /\ cells[1] = <<"tag", tag>>
      /\ Item(tag, cells) = [type |-> tag, cells |-> Text(i, Arg, n)]
  <2>1. TypeOK /\ i \in Nat /\ n \in Nat
    BY <1>2
  <2> HIDE DEF i, n
  <2> QED BY <2>1, StringCells
<1>5. NoText(Top.msg) => Need(Arg) = 3 + n
  <2>1. SUFFICES ASSUME NoText(Top.msg)
                 PROVE  Need(Arg) = 3 + n
    OBVIOUS
  <2>2. ~Arg.shared
    BY <1>2, <2>1 DEF NoText
  <2>3. n = Arg.length % LenRange
    BY <1>1, <1>2, <2>2 DEF FrameContent, MeasuredInv
  <2> QED BY <1>1, <2>3 DEF Need
<1>6. Shows(Top.msg.args, i, Item(tag, cells), Now')
  BY <1>4, TextShows
<1>7. PackedInv(Top, i - 1) /\ WholeInv(Top, i - 1, Now')
  BY <1>2 DEF FrameContent
<1>8. CASE Fits(3 + n)
  <2> DEFINE g == Accepted(Written(cells), TRUE)
  <2>1. Top.size + Len(cells) <= Capacity /\ Len(cells) > 0 /\ Len(cells) >= 3
    <3> HIDE DEF cells, n
    <3> QED BY <1>2, <1>4, <1>8 DEF Fits
  <2>2. NoText(Top.msg) => Len(cells) = Need(Arg)
    BY <1>4, <1>5
  <2>3. FrameContent(g, Now')
    <3> HIDE DEF cells, tag, i, n
    <3> QED BY <1>1, <1>3, <1>4, <1>6, <1>7, <2>1, <2>2, ArgKept DEF i
  <2>4. SetTop(g)
    BY <1>8 DEF WriteString, StringArg
  <2> HIDE DEF g
  <2> QED BY <1>1, <2>3, <2>4, TopReplaced
<1>9. CASE ~Fits(3 + n)
  <2>1. NoText(Top.msg) => Top.size + Need(Arg) > Capacity
    <3> HIDE DEF n
    <3> QED BY <1>2, <1>5, <1>9 DEF Fits
  <2>2. FrameContent(Accepted(Top, FALSE), Now')
    BY <1>1, <1>7, <2>1, ArgDropped
  <2>3. SetTop(Accepted(Top, FALSE))
    BY <1>9 DEF WriteString
  <2> QED BY <1>1, <2>2, <2>3, TopReplaced
<1> QED BY <1>8, <1>9

\* A call of log() begins with nothing in its buffer.
LEMMA FrameContentFresh ==
  ASSUME NEW m \in Sendable, NEW now
  PROVE  FrameContent(Frame(m), now)
<1> DEFINE f == Frame(m)
<1>1. f.msg = m /\ f.next = 1 /\ f.size = 0 /\ f.len = -1
  BY FrameIs
<1>2. f.starts = << >>
  BY DEF Frame
<1>3. Packing(m.args)[0] = [used |-> 0, which |-> << >>]
  <2>1. Len(m.args) \in Nat
    BY ArgIs, LenProperties
  <2> QED BY <2>1, PackingIs
<1> HIDE DEF f
<1>4. PackedInv(f, 0)
  <2>1. f.size = 0 /\ Len(f.starts) = Len(<< >>) /\ DOMAIN f.starts = {}
    BY <1>1, <1>2
  <2> QED BY <1>1, <1>3, <2>1 DEF PackedInv
<1> QED BY <1>1, <1>4 DEF FrameContent, WholeInv, MeasuredInv, f

LEMMA LogContent ==
  ASSUME CodecOK, S!StringInv, RoleInv, ContentInv, CodecStep, NEW m \in Messages, Log(m)
  PROVE  ContentInv'
<1> DEFINE f == Frame(m)
<1>1. calls' = <<f>> /\ UNCHANGED <<sent, out, lines>>
  BY DEF Log
<1>2. FrameContent(f, Now')
  BY FrameContentFresh DEF Sendable
<1> HIDE DEF f
<1>3. \A i \in DOMAIN calls' : FrameContent(calls'[i], Now')
  <2>1. DOMAIN calls' = {1} /\ calls'[1] = f
    BY <1>1
  <2> QED BY <1>2, <2>1
<1>4. ShownInv'
  BY <1>1 DEF ContentInv, ShownInv
<1> QED BY <1>1, <1>3, <1>4, CodecLater DEF ContentInv

LEMMA LogNoticeContent ==
  ASSUME CodecOK, S!StringInv, RoleInv, ContentInv, CodecStep, LogNotice
  PROVE  ContentInv'
<1> DEFINE f == [Top EXCEPT !.noticed = TRUE]
           g == Frame(Notice)
<1>1. /\ calls'[1] = f /\ calls'[2] = g /\ DOMAIN calls' = {1, 2} /\ Len(calls) = 1 /\ calls[1] = Top
      /\ f.msg = Top.msg /\ f.data = Top.data /\ f.size = Top.size /\ f.starts = Top.starts
      /\ f.next = Top.next /\ f.len = Top.len
      /\ UNCHANGED <<sent, out, lines>>
  BY LogNoticeIs
<1>2. FrameContent(g, Now')
  BY NoticeIs, FrameContentFresh
<1> HIDE DEF f, g
<1>3. FrameContent(Top, Now')
  <2>1. 1 \in DOMAIN calls
    BY <1>1, LenProperties DEF CodecOK, TypeOK
  <2> QED BY <1>1, <2>1, CodecLater
<1>4. FrameContent(f, Now')
  <2>1. \A n, now : PackedInv(Top, n) => PackedInv(f, n)
    BY <1>1, ItemsSame
  <2>2. \A n, now : WholeInv(Top, n, now) => WholeInv(f, n, now)
    BY <1>1, ItemsSame DEF WholeInv
  <2> QED BY <1>1, <1>3, <2>1, <2>2 DEF FrameContent, MeasuredInv
<1>5. \A i \in DOMAIN calls' : FrameContent(calls'[i], Now')
  BY <1>1, <1>2, <1>4
<1>6. ShownInv'
  BY <1>1 DEF ContentInv, ShownInv
<1> QED BY <1>1, <1>5, <1>6, CodecLater DEF ContentInv

LEMMA PushContent ==
  ASSUME CodecOK, S!StringInv, RoleInv, ContentInv, CodecStep, Push
  PROVE  ContentInv'
<1> DEFINE p == [msg |-> Top.msg, data |-> Top.data, size |-> Top.size, starts |-> Top.starts]
           n == Len(sent)
           a == Len(Top.msg.args)
<1>1. /\ p.msg = Top.msg /\ p.starts = Top.starts /\ p.size = Top.size /\ p.data = Top.data
      /\ n \in Nat /\ sent' # << >> /\ sent'[n + 1] = p
      /\ \A i \in 1 .. n : sent'[i] = sent[i]
      /\ DOMAIN sent = 1 .. n /\ DOMAIN sent' = 1 .. n + 1
      /\ (sent = << >> <=> n = 0) /\ (n > 0 => Head(sent') = Head(sent))
      /\ Len(calls) = 2 => calls'[1] = calls[1] /\ DOMAIN calls' = {1}
      /\ Len(calls) = 1 => DOMAIN calls' = {}
  BY PushIs
<1> HIDE DEF p
<1>2. calls # << >> /\ Top.next > a /\ UNCHANGED <<out, lines>>
  BY DEF Push, Packed
<1>3. /\ Top.next <= a + 1 /\ a \in Nat /\ Top.next \in Nat /\ Len(calls) \in {1, 2}
      /\ DOMAIN calls = 1 .. Len(calls)
  BY <1>2, TopHolds, LenProperties DEF FrameInv, CodecOK, TypeOK
<1>4. FrameContent(Top, Now')
  <2>1. Len(calls) \in DOMAIN calls
    BY <1>3
  <2> QED BY <2>1, CodecLater DEF Top
<1>5. PacketContent(p, Now')
  <2>1. Top.next - 1 = a
    <3> HIDE DEF a
    <3> QED BY <1>2, <1>3
  <2>2. PackedInv(Top, a) /\ WholeInv(Top, a, Now')
    BY <1>4, <2>1 DEF FrameContent
  <2>3. PackedInv(p, a) /\ \A j : ItemAt(p, j) = ItemAt(Top, j)
    BY <1>1, <2>2, ItemsSame
  <2>4. WholeInv(p, a, Now')
    BY <1>1, <2>2, <2>3 DEF WholeInv
  <2> QED BY <1>1, <2>3, <2>4 DEF PacketContent
<1>6. \A i \in DOMAIN calls' : FrameContent(calls'[i], Now')
  <2>1. CASE Len(calls) = 1
    BY <1>1, <2>1
  <2>2. CASE Len(calls) = 2
    <3>1. 1 \in DOMAIN calls
      BY <1>3
    <3> QED BY <1>1, <2>2, <3>1, CodecLater
  <2> QED BY <1>3, <2>1, <2>2
<1>7. \A i \in DOMAIN sent' : PacketContent(sent'[i], Now')
  <2>1. \A i \in 1 .. n + 1 : i \in 1 .. n \/ i = n + 1
    BY <1>1
  <2> QED BY <1>1, <1>5, <2>1, CodecLater
<1>8. ShownInv'
  <2>1. CASE n = 0
    <3>1. out' = Nothing
      BY <1>1, <1>2, <2>1 DEF CodecOK, CodecInv, PrinterInv
    <3> QED BY <3>1 DEF ShownInv, Nothing
  <2>2. CASE n # 0
    BY <1>1, <1>2, <2>2 DEF ContentInv, ShownInv
  <2> QED BY <2>1, <2>2
<1> QED BY <1>2, <1>6, <1>7, <1>8, CodecLater DEF ContentInv

LEMMA PrintContent ==
  ASSUME CodecOK, S!StringInv, RoleInv, ContentInv, CodecStep, PrintValue \/ PrintString
  PROVE  ContentInv'
<1>1. UNCHANGED <<calls, sent, lines>>
  BY DEF PrintValue, PrintString
<1>2. ShownInv'
  BY ShownPrinted DEF ContentInv
<1> QED BY <1>1, <1>2, CodecLater DEF ContentInv

\* What is printed is what was in the buffer.
LEMMA EndLineContent ==
  ASSUME CodecOK, S!StringInv, RoleInv, ContentInv, CodecStep, EndLine
  PROVE  ContentInv'
<1> DEFINE n == Len(sent)
           k == Len(lines)
           m == sent[1]
           L == lines'[k + 1]
           args == m.msg.args
<1>1. /\ n \in Nat \ {0} /\ k \in Nat /\ DOMAIN sent = 1 .. n /\ DOMAIN lines = 1 .. k
      /\ DOMAIN sent' = 1 .. n - 1 /\ \A i \in 1 .. n - 1 : sent'[i] = sent[i + 1]
      /\ DOMAIN lines' = 1 .. k + 1 /\ \A i \in 1 .. k : lines'[i] = lines[i]
      /\ (Lacks(L) <=> Cut(m)) /\ calls' = calls
  BY EndLineIs
<1>2. /\ m = Head(sent) /\ Len(out.shown) = Len(m.starts) /\ out.shown \in Seq(Items)
      /\ m.starts \in Seq(Nat)
      /\ \A j \in DOMAIN out.shown : out.shown[j] = ItemAt(m, j)
      /\ L.shown = out.shown /\ L.msg = m.msg
      /\ ShownInv'
  BY ShownAtEnd DEF ContentInv
<1> HIDE DEF L
<1>3. /\ PacketContent(m, Now') /\ PacketInv(m) /\ m.msg \in Sendable
      /\ args \in Seq(Args) /\ Len(args) \in Nat /\ DOMAIN args = 1 .. Len(args)
  <2>1. 1 \in DOMAIN sent /\ sent \in Seq(Packets)
    BY <1>1 DEF CodecOK, TypeOK
  <2>2. m \in Packets /\ PacketInv(m) /\ PacketContent(m, Now')
    BY <2>1, CodecLater, ElementOfSeq DEF CodecOK, CodecInv
  <2>3. m.msg \in Sendable
    BY <2>2 DEF Packets
  <2> HIDE DEF m
  <2> QED BY <2>2, <2>3, ArgIs, LenProperties
<1>4. Len(m.starts) \in Nat /\ DOMAIN m.starts = 1 .. Len(m.starts) /\ DOMAIN L.shown = 1 .. Len(m.starts)
      /\ L.shown \in Seq(Items)
  BY <1>2, LenProperties
\* Of what fits, each argument is printed.
<1>5. NoText(L.msg) =>
        L.shown = [j \in DOMAIN Kept(L.msg.args) |-> Meant(L.msg.args, Kept(L.msg.args)[j])]
  <2> DEFINE kept == Packing(args)[Len(args)]
  <2>1. SUFFICES ASSUME NoText(m.msg)
                 PROVE  L.shown = [j \in DOMAIN Kept(args) |-> Meant(args, Kept(args)[j])]
    BY <1>2
  <2>2. kept.which \in Seq(Nat)
    <3>1. Len(args) \in 0 .. Len(args)
      BY <1>3
    <3> QED BY <1>3, <3>1, PackingFits
  <2>3. Len(m.starts) = Len(kept.which) /\ \A j \in DOMAIN m.starts : ItemAt(m, j) = Meant(args, kept.which[j])
    BY <1>3, <2>1 DEF PacketContent, PackedInv
  <2>4. kept.which = Kept(args)
    BY DEF Kept
  <2> HIDE DEF kept, args, m
  <2>5. DOMAIN kept.which = DOMAIN L.shown
    BY <1>4, <2>2, <2>3, LenProperties
  <2>6. \A j \in DOMAIN L.shown : L.shown[j] = Meant(args, kept.which[j])
    BY <1>2, <1>4, <2>3
  <2>7. L.shown = [j \in DOMAIN L.shown |-> L.shown[j]]
    BY <1>4
  <2> QED BY <2>4, <2>5, <2>6, <2>7
<1>6. PrintsWhatFits'
  <2>1. \A l \in 1 .. k : NoText(lines[l].msg)
          => lines[l].shown = [j \in DOMAIN Kept(lines[l].msg.args) |->
                                 Meant(lines[l].msg.args, Kept(lines[l].msg.args)[j])]
    BY <1>1 DEF ContentInv, PrintsWhatFits
  <2>2. \A l \in 1 .. k + 1 : l \in 1 .. k \/ l = k + 1
    BY <1>1
  <2>3. \A l \in DOMAIN lines' : NoText(lines'[l].msg)
          => lines'[l].shown = [j \in DOMAIN Kept(lines'[l].msg.args) |->
                                  Meant(lines'[l].msg.args, Kept(lines'[l].msg.args)[j])]
    BY <1>1, <1>5, <2>1, <2>2 DEF L
  <2> QED BY <2>3 DEF PrintsWhatFits
\* If none was left out, they are the arguments that were logged.
<1>7. ~Lacks(L) => \A i \in DOMAIN L.msg.args : Shows(L.msg.args, i, L.shown[i], Now')
  <2>1. SUFFICES ASSUME ~Cut(m), NEW i \in 1 .. Len(args)
                 PROVE  Shows(args, i, L.shown[i], Now')
    BY <1>1, <1>2, <1>3
  <2>2. Len(m.starts) = Len(args)
    <3> HIDE DEF args, m
    <3> QED BY <1>3, <1>4, <2>1 DEF Cut, PacketInv, args
  <2>3. Shows(args, i, ItemAt(m, i), Now')
    BY <1>3, <2>2 DEF PacketContent, WholeInv
  <2>4. L.shown[i] = ItemAt(m, i)
    BY <1>2, <1>4, <2>2
  <2> QED BY <2>3, <2>4
<1>8. PrintsTheText'
  <2> DEFINE b == Now'
  <2>1. \A l \in 1 .. k : ~Lacks(lines[l]) =>
          \A i \in DOMAIN lines[l].msg.args : Shows(lines[l].msg.args, i, lines[l].shown[i], b)
    BY <1>1, CodecLater
  <2>2. \A l \in 1 .. k + 1 : l \in 1 .. k \/ l = k + 1
    BY <1>1
  <2>3. ~Lacks(L) => \A i \in DOMAIN L.msg.args : Shows(L.msg.args, i, L.shown[i], b)
    BY <1>7
  <2> HIDE DEF b
  <2>4. \A l \in DOMAIN lines' : ~Lacks(lines'[l]) =>
          \A i \in DOMAIN lines'[l].msg.args : Shows(lines'[l].msg.args, i, lines'[l].shown[i], b)
    BY <1>1, <2>1, <2>2, <2>3 DEF L
  <2> QED BY <2>4 DEF PrintsTheText, Lacks, b
<1>9. \A i \in DOMAIN sent' : PacketContent(sent'[i], Now')
  <2>1. \A i \in 1 .. n - 1 : i + 1 \in 1 .. n
    BY <1>1
  <2> QED BY <1>1, <2>1, CodecLater
<1> QED BY <1>1, <1>2, <1>6, <1>8, <1>9, CodecLater DEF ContentInv

LEMMA ContentInit == PathInit => ContentInv
BY DEF PathInit, ContentInv, ShownInv, PrintsWhatFits, PrintsTheText

LEMMA ContentKeeps ==
  CodecOK /\ S!StringInv /\ RoleInv /\ ContentInv /\ [PathNext]_pathVars => ContentInv'
<1> SUFFICES ASSUME CodecOK, S!StringInv, RoleInv, ContentInv, [PathNext]_pathVars
             PROVE  ContentInv'
  OBVIOUS
<1>1. CASE CodecStep
  <2>1. (\E m \in Messages : Log(m)) \/ WriteValue \/ Measure \/ WriteString \/ LogNotice \/ Push
          \/ PrintValue \/ PrintString \/ EndLine
    BY <1>1 DEF CodecStep, LogStep, PrintStep
  <2> QED BY <1>1, <2>1, LogContent, WriteValueContent, MeasureContent, WriteStringContent,
             LogNoticeContent, PushContent, PrintContent, EndLineContent
<1>2. CASE AssignName \/ BuildLocal \/ StringStep \/ UNCHANGED pathVars
  BY <1>2, ContentMoves
<1> QED BY <1>1, <1>2 DEF PathNext

\* The invariant of the text path holds in every reachable state, for buffers, lengths,
\* messages and strings of any size.
THEOREM Inductive == PathSpec => []IndInv
<1>1. PathInit => IndInv /\ CutIsAnnounced
  BY CodecInit, StringInit, RoleInit, ContentInit DEF IndInv, CodecOK
<1>2. (IndInv /\ CutIsAnnounced) /\ [PathNext]_pathVars => (IndInv /\ CutIsAnnounced)'
  BY PathKeepsCodec, StringKeeps, RoleKeeps, ContentKeeps DEF IndInv, CodecOK
<1> QED BY <1>1, <1>2, PTL DEF PathSpec

\* A line that lacks an argument follows the notice that says so, and no other line does
\* (Logger.tpp:72-75).
THEOREM CutsAnnounced == PathSpec => []CutIsAnnounced
<1>1. PathInit => IndInv /\ CutIsAnnounced
  BY CodecInit, StringInit, RoleInit, ContentInit DEF IndInv, CodecOK
<1>2. (IndInv /\ CutIsAnnounced) /\ [PathNext]_pathVars => (IndInv /\ CutIsAnnounced)'
  BY PathKeepsCodec, StringKeeps, RoleKeeps, ContentKeeps DEF IndInv, CodecOK
<1> QED BY <1>1, <1>2, PTL DEF PathSpec

\* write_arg never writes behind the buffer of a message and print() never reads behind
\* what was written, whatever is logged and however long a string is (Logger.tpp:10-44,
\* Serializer.tpp:41-191).
THEOREM StaysInside == PathSpec => []InBounds
<1>1. IndInv => InBounds
  BY StaysInBounds DEF IndInv, CodecOK
<1> QED BY <1>1, Inductive, PTL

\* What is printed is what was logged: of the arguments of a message, in order, those that
\* fit beside the ones kept before, each of its own type and with all its bytes, and
\* nothing else (Logger.tpp:10-44, Serializer.tpp:41-191).
THEOREM PrintsKept == PathSpec => []PrintsWhatFits
<1>1. IndInv => PrintsWhatFits
  BY DEF IndInv, ContentInv
<1> QED BY <1>1, Inductive, PTL

\* A line that lacks nothing shows the string as the logging task had it.  Of a task's
\* name, which createTask assigns while it is printed (Task.cpp:100-101), it shows at each
\* place the old character or the new, and the one name or the other if the assignment
\* came before or after.
THEOREM PrintsText == PathSpec => []PrintsTheText
<1>1. IndInv => PrintsTheText
  BY DEF IndInv, ContentInv
<1> QED BY <1>1, Inductive, PTL

\* c_str() of a string ends inside the object also while another task assigns it, unless
\* it is filled (StaticString.hpp:31).
THEOREM ReadersHeld == PathSpec => []ReadersStayInside
<1>1. IndInv => ReadersStayInside
  BY ReadersInside DEF IndInv
<1> QED BY <1>1, Inductive, PTL

\* Between two calls c_str() and view() of a string are the same text.
THEOREM TextAgrees == PathSpec => []SameText
<1>1. IndInv => SameText
  BY SameTextHolds DEF IndInv, SameText, S!SameText
<1> QED BY <1>1, Inductive, PTL

\* A StaticString implements the bounded string BoundedString: a mutator takes the whole
\* of an argument that fits, at once, and refuses one that does not.
THEOREM Refinement == PathSpec => Bounded
<1>1. PathInit => S!B!Init
  BY BoundedInit
<1>2. IndInv /\ [PathNext]_pathVars => [S!B!Next]_<<S!Value, S!Op>>
  BY BoundedStep DEF IndInv
<1> QED BY <1>1, <1>2, Inductive, PTL DEF PathSpec, Bounded, S!Bounded, S!B!Spec, S!B!boundedVars
=============================================================================
