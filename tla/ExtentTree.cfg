CONSTANTS
  d1 = d1
  d2 = d2
  InvalidDev = invalid
  SizeMax <- MCSizeMax
  NonceMax <- MCNonceMax
  CsumBytesMax <- MCCsumBytesMax
  NumSectors = 3
  Devs <- MCDevs
  Shapes <- MCShapes
  Replicas = {1}
  MaxOps = 4
  MaxWrites = 2
  Abutting = FALSE
SPECIFICATION Spec
INVARIANTS WellFormed EditsExact
PROPERTIES ImplementsMap ResCovers
CHECK_DEADLOCK FALSE
