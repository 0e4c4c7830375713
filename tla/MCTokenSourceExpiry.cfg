\* A rotation delay of 2 ticks, tokens valid for 4 ticks, and fetches that
\* take up to 1 tick: one fetch per tick would keep every token valid.
CONSTANTS
  Rotation = 2
  Lifetime = 4
  MaxFetch = 1
  MaxErrors = 0
  MaxTime = 12
SPECIFICATION Spec
INVARIANT TokenUnexpired
CHECK_DEADLOCK FALSE
