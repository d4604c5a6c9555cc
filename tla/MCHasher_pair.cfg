\* Two hashers, one clone of the other or not, blocks of two bytes.
CONSTANTS
  BlockSize = 2
  LengthSize = 1
  Radix = 8
  BitsPerByte = 3
  LenMod = 8
  Attack <- MCAttack
  Ids = {a, b}
  Settings <- BothSettings
  DataBytes = {4}
  MaxData = 2
  Data <- MCData
  NoResult = NoResult
  MaxFed = 6
SPECIFICATION Spec
INVARIANTS SameMessageSameState EqualDigestsEqualMessages HashersAgreeUnlessFlagged
