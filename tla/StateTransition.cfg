SPECIFICATION Spec
CONSTANTS
  alice = alice
  bob = bob
  miner = miner
  fresh = fresh
  Nil = Nil
  Addr <- MCAddr
  Coinbase = miner
  NewAddrs = {fresh}
  Chains <- MCChains
  NoBaseFee = TRUE
  GasCap = 120000
  MaxInitCodeSize = 80
  UintMod = 262144
  Worlds0 <- MCWorlds
  Requests <- MCRequests
  Burns = {0, 20000}
  Refunds = {0, 30000}
  MaxMsgs = 2
CHECK_DEADLOCK FALSE
INVARIANTS
  GasAccounted
  EtherConserved
  Solvent
PROPERTIES
  NonceConsumed
