\* Time frames over several weeks: one bound per week in one search.
CONSTANTS
  Dimensions = 3
  BitsPerDimension = 2
  WordBits = 7
  CombineBits = 2
  Precision = 7
  MaxRanges = 0
  MaxRecurse = 7
  WeekSeconds = 8
  MaxWeek = 2
  Queries <- MCQueries
SPECIFICATION Spec
INVARIANT Exhaustive
CHECK_DEADLOCK FALSE
