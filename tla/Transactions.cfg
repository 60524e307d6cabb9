SPECIFICATION MCSpec
CONSTANTS
  Nil = Nil
  Word = 1073741824
  Inners <- MCInners
  Signers <- MCSigners
  Keys = {1}
  Readers = {g1, g2}
  MaxObjects = 2
  MaxAsked = 2
  Txs <- MCTxs
  Data <- MCData
  Clients = {c1, c2}
  Parts = {p1, p2}
  SentSize = 1
  RelaySize = 1
  Fork <- MCFork
  Chain = 1
  BaseFee = 1
  Intrinsic = 2
  GasLimit = 4
  MaxTxGas = 3
  Balance = 5
  Foreign = Foreign
  MaxSends = 3
  MaxFaults = 2
  MaxMined = 1
CHECK_DEADLOCK FALSE
INVARIANTS
  CachesTrue
  ReadAlike
  RelayedOnce
  NothingLost

  
