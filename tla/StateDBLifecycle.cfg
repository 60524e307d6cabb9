SPECIFICATION MCSpec
CONSTANTS
  contract = contract
  funded = funded
  newcomer = newcomer
  empty = empty
  codeA = codeA
  codeB = codeB
  Foci = {"accounts", "accessList"}
  Addr = {funded, newcomer}
  Slot = {s1, s2}
  Val = {0, 1}
  Code = {empty, codeA, codeB}
  EmptyCode = empty
  ZeroHash = zeroHash
  Nil = Nil
  DB <- MCDB
  UintMod = 8
  Touched = {funded, newcomer}
  Amounts = {1}
  Nonces = {}
  Codes = {}
  Balances = {5}
  Words = {}
  Refunds = {5}
  Storages = {}
  MaxJournal = 4
  MaxSnaps = 2
  MaxTx = 2
INVARIANTS
  RevertSafe
  
PROPERTIES
  CreationKeepsBalance
