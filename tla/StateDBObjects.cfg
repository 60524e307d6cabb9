SPECIFICATION MCSpec
CONSTANTS
  contract = contract
  funded = funded
  newcomer = newcomer
  empty = empty
  codeA = codeA
  codeB = codeB
  Foci = {"all"}
  Addr = {contract}
  Slot = {s1}
  Val = {0, 1}
  Code = {empty, codeA, codeB}
  EmptyCode = empty
  ZeroHash = zeroHash
  Nil = Nil
  DB <- MCDB
  UintMod = 8
  Touched = {contract}
  Amounts = {1}
  Nonces = {2}
  Codes = {codeB}
  Balances = {5}
  Words = {0}
  Refunds = {}
  Storages <- MCStorages
  MaxJournal = 3
  MaxSnaps = 2
  MaxTx = 1
INVARIANTS
  JournalSound
PROPERTIES
  ImplementsSnapshotStore
