SPECIFICATION Spec
CONSTANTS
  Targets <- MCTargets
  Upstream = "upstream.rs"
  Strays = {"stray.rs"}
  Versions = {"v1", "v2"}
  Refused <- MCRefused
INVARIANTS
  ExitTellsTheTruth
PROPERTIES
  WritesInTurn
  CommandEnds
