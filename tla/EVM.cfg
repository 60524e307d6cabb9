SPECIFICATION FairSpec
CONSTANTS
  Addr <- MCAddr
  Precompiles = {"precompile"}
  Sender = "sender"
  Fresh = {"fresh"}
  Start <- MCStart
  EmptyCode = "empty"
  ZeroHash = "zero"
  None = None
  Codes <- MCCodes
  Target <- MCTarget
  Initcodes = {"init"}
  Deployed = {"empty", "x", "ef", "big"}
  Reserved = {"ef"}
  Size <- MCSize
  MaxCodeSize = 2
  Callees = {"contract", "other", "fresh", "precompile"}
  Heirs = {"sender", "fresh"}
  Values = {0, 1}
  Requests = {3}
  CallValueTransferGas = 2
  CallStipend = 1
  Share = 4
  CallCreateDepth = 2
CHECK_DEADLOCK FALSE
INVARIANTS
  
  GasConserved
  EtherSafe
  StaticKeepsAccounts
PROPERTIES
  FailureLeavesNothing
  Terminates
