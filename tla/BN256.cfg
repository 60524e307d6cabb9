CONSTANTS
  P = 103
  Order = 97
  u = 1
  xiY = 8
  curveB = 5
  curveGen <- MCcurveGen
  twistGen <- MCtwistGen
  twistB <- MCtwistB
  sixuPlus2NAF <- MCsixuPlus2NAF
  xiToPMinus1Over6 <- MCxiToPMinus1Over6
  xiToPMinus1Over3 <- MCxiToPMinus1Over3
  xiToPMinus1Over2 <- MCxiToPMinus1Over2
  xiTo2PMinus2Over3 <- MCxiTo2PMinus2Over3
  xiToPSquaredMinus1Over3 = 56
  xiTo2PSquaredMinus2Over3 = 46
  xiToPSquaredMinus1Over6 = 57
  Quarter = 2
  Words = 2
  p2 <- MCp2
  np <- MCnp
  rN1 = 68
  R2 = 28
  R3 = 61
  lambda = 61
  gT <- MCgT
  Parts = {"words", "lattice", "tower", "G1", "G2", "GT", "pairing"}
  Scalars <- MCScalars
  WordValues <- MCWordValues
  MaxScalar = 300
  Elements <- MCElements
  Inputs1 <- MCInputs1
  Inputs2 <- MCInputs2
  MaxCalls = 2
  MaxPairs = 2
SPECIFICATION Spec
CHECK_DEADLOCK FALSE
INVARIANTS
  ArithmeticExact
  
  PairingBilinear
