\* Eight blocks through each backend.
SPECIFICATION AnySpec
CONSTANTS
  Word <- Byte
  Plus <- PlusByte
  Minus <- MinusByte
  Xor <- XorByte
  And <- AndByte
  Or <- OrByte
  Rol <- RolByte
  Ror <- RorByte
  K <- KBytes
  Zero = 0
  BitsOf <- BitsByte
  Inputs <- MCInputs
  Builds <- MCBuilds
  Hardware = {"sha_ni", "armv8"}
INVARIANTS RegistersSpellState EveryStepHasItsWord AllLeaveTheSame AnswersForPartner
CHECK_DEADLOCK FALSE
