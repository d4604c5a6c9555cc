\* A source several times what a pipe holds.
SPECIFICATION CallSpec
CONSTANTS
  PipeSize = 2
  Length = 7
INVARIANTS
  OkIsWhole
PROPERTIES
  CallWindsUp
