\* Every argument type, strings in both roles, messages that do not fit.
SPECIFICATION PathSpec
CONSTANTS
  LongBytes = 4
  Capacity = 12
  LenRange = 8
  NoticeLength = 6
  Messages <- MCMessages
  SharedBytes = 4
  MaxLogs = 1
  CharRange = 8
  Letters = {1, 2}
  Strings <- MCStrings
  Unnamed <- MCUnnamed
  Names <- MCNames
INVARIANTS
  IndInv
  InBounds
  PrintsWhatFits
  
  ReadersStayInside
  PrintsTheText
PROPERTY Bounded
CHECK_DEADLOCK FALSE
