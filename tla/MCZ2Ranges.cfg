\* maxRecurse 2: below the scaled curve's three levels, as 7 is below the code's 31, so the depth cut and the flush of unresolved cells happen.
\* NdsLonBits 6 and NdsMaxLevel 2 keep the code's LonBits = 2 * MaxLevel + 2 (32 = 2 * 15 + 2) with three levels, so tiles of both hemispheres, the south row and the wrap of 180 and 90 occur.
\* Z3Bits 2 with a week of 3 seconds: time bins of 1.5 s at precision 1 and 0.75 s at precision 2, so Invert's rounding to the second meets bins both longer and shorter than a second.
CONSTANTS
  Dimensions = 2
  BitsPerDimension = 3
  WordBits = 8
  CombineBits = 4
  NdsLonBits = 6
  NdsMaxLevel = 2
  Z3Bits = 2
  Z3WeekSeconds = 3
  Precision = 8
  MaxRanges = 0
  MaxRecurse = 2
  Queries <- MCQueries
SPECIFICATION Spec
INVARIANTS Exhaustive ContainedSound ResultMerged LevelDiscipline NoPanic SfcRoundTrip Z3SfcRoundTrip NdsTileRoundTrip
PROPERTIES Terminates
CHECK_DEADLOCK FALSE
