SPECIFICATION Spec
CONSTANTS
  Word = 4
  MaxPings = 5
  Delays <- MCDelays
  Overlap = TRUE
INVARIANTS
  TypeOK ReceivedCountedOnce ReplyDroppedOnlyAtWrap
CHECK_DEADLOCK FALSE
