SPECIFICATION MCSpec
CONSTANTS
  contract = contract
  funded = funded
  newcomer = newcomer
  empty = empty
  codeA = codeA
  codeB = codeB
  Foci = {"all"}
  Addr = {newcomer}
  Slot = {s1}
  Val = {0, 1}
  Code = {empty, codeA, codeB}
  EmptyCode = empty
  ZeroHash = zeroHash
  Nil = Nil
  DB <- MCDB
  UintMod = 8
  Touched = {newcomer}
  Amounts = {}
  Nonces = {}
  Codes = {codeB}
  Balances = {}
  Words = {}
  Refunds = {}
  Storages = {}
  MaxJournal = 2
  MaxSnaps = 1
  MaxTx = 1
INVARIANTS
  ExtCodeHashOfContract
