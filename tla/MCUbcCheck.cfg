SPECIFICATION Spec
CONSTANTS
  Machines <- MCMachines
  Blocks <- MCBlocks
CHECK_DEADLOCK FALSE
INVARIANTS
  SpansTheRules
  KeepsExactly
  SettlesInOrder
  PartnerMeetsTheSame
  RecompressesFromAgreement
