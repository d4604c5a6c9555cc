\* Three candidates for each stored step, one of them an attack.
SPECIFICATION Spec
CONSTANTS
  Word <- Byte
  Plus <- PlusByte
  Minus <- MinusByte
  Xor <- XorByte
  And <- AndByte
  Or <- OrByte
  Rol <- RolByte
  Ror <- RorByte
  K <- KBytes
  Candidates <- MCCandidates
INVARIANTS AgreesWithCompression BoundaryOnTheWay SameTest
CHECK_DEADLOCK FALSE
