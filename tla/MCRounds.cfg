\* Every program of macro calls, on two inputs.
SPECIFICATION ProgramSpec
CONSTANTS
  Word <- Byte
  Plus <- PlusByte
  Minus <- MinusByte
  Xor <- XorByte
  And <- AndByte
  Or <- OrByte
  Rol <- RolByte
  Ror <- RorByte
  K <- KBytes
  Programs <- AllPrograms
  Inputs <- MCInputs
INVARIANTS StepsLineUp
CHECK_DEADLOCK FALSE
