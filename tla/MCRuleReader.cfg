\* Five bits, two samples a DV and one random schedule.
SPECIFICATION ReaderSpec
CONSTANTS
  Bits = {0, 1, 2, 3, 4}
  DVS = 2
  Upstreams <- MCUpstreams
  Messages <- MCMessages
  SAMPLES = 2
  RANDOM = 1
INVARIANT ReadsUpstream
