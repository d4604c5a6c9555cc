\* Every residue, and prefixes of up to four conditions.
SPECIFICATION LastSpec
CONSTANTS
  Vertex <- MCVertex
  Dv = {0, 1}
  Published <- MCPublished
  Ubcs <- MCUbcs
  WORDS = 2
  LENGTH_WORDS = 1
  WORD_BYTES = 4
  BYTE = 2
  Taps = {1, 2}
  STEPS = 6
  LENGTH_LOW = 1
  LENGTH_HIGH = 4
  LENGTH_BITS = 6
  LANES = 2
  TAKEN = 4
INVARIANTS ChancesMatchCounting TotalsFollow
