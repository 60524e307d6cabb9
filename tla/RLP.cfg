SPECIFICATION Spec
CONSTANTS
  Single = 3
  Short = 4
  WordBytes = 2
  BigBytes = 3
  Parts = {"input", "stream", "buffer", "pool", "cache"}
  Alphabet <- MCAlphabet
  ExactTypes <- MCExactTypes
  LooseTypes <- MCLooseTypes
  UsedValue <- MCUsedValue
  StreamInputs <- MCStreamInputs
  MaxCalls = 7
  Strings <- MCStrings
  Integers64 <- MCIntegers64
  MaxWrites = 4
  MaxDepth = 3
  Message <- MCMessage
  Chunks = {1, 3}
  Rounds = 2
  Types <- MCTypes
  Refs <- MCRefs
  Wanted <- MCWanted
CHECK_DEADLOCK FALSE
INVARIANTS
  ReadingExact
  TypedExact
  WritingExact
  InfoUsable
