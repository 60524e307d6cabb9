SPECIFICATION Spec
CONSTANTS
  s1 = s1
  s2 = s2
  Slot = {s1, s2}
  Val = {0, 1, 2}
  Forks <- AllForks
  Diffs = {}
  Listed <- MCListed
  UintMod = 1000000
  None = None
  MaxWrites = 3
  MaxDepth = 2
  MaxMsgs = 2
CHECK_DEADLOCK FALSE
INVARIANTS
  RefundNeverNegative
  NetMetering
