\* Every setting and backend, runs of two and three blocks.
SPECIFICATION FairSpec
CONSTANTS
  Chaining <- MCChaining
  InitialH = 0
  Blocks <- MCBlocks
  Feed <- MCFeed
  Dvs <- MCDvs
  Kind <- MCKind
  Inputs <- MCInputs
  Filter <- MCFilter
  DvStep <- MCDvStep
  NoBlock = NoBlock
  Cpus <- MCCpus
INVARIANT FromOwnState
PROPERTIES ImplementsBlockSpec CallReturns
