SPECIFICATION Spec
CONSTANTS
  StackLimit = 17
  UintMod = 65536
  MaxMemory = 8160
  Rules <- MCRules
  Operands <- MCOperands
  Gas = {2700, 60000}
  View <- MCView
  None = None
CHECK_DEADLOCK FALSE
INVARIANTS
  StepsSound
  GasExact
  ReadOnlyKeepsState
