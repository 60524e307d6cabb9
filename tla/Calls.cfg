\* Reads, calls, estimates, lists and access lists, beside new blocks and cancellation.
SPECIFICATION Spec
CONSTANTS
  sender = sender
  target = target
  other = other
  third = third
  ecrecover = ecrecover
  Nil = Nil
  Blocks <- MCBlocks
  Branch <- MCBranch
  First <- MCFirst
  Requests <- MCRequests
  Balance = 65000
  BaseFee = 2
  From = sender
  Precompiles <- MCPrecompiles
  UintMod = 1000000000
INVARIANTS
  AnswersWhole
  EstimateSound
  

  
