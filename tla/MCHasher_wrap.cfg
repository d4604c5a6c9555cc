\* One hasher, one byte value, a length counter that wraps at 16.
CONSTANTS
  BlockSize = 4
  LengthSize = 2
  Radix = 4
  BitsPerByte = 2
  LenMod = 16
  Attack <- MCAttack
  Ids = {a}
  Settings <- AllSettings
  DataBytes = {2}
  MaxData = 9
  Data <- MCData
  NoResult = NoResult
  MaxFed = 22
SPECIFICATION Spec
INVARIANTS BufferHoldsTail ChainHoldsBlocks FoundMatchesChain
PROPERTIES ImplementsHashSpec AttackIsRemembered
