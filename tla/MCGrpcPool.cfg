\* Three clients over a pool of capacity 2 prefilled with one connection; the factory dials at most 4.  A panic ends the program, so deadlock is not checked.
CONSTANTS
  Clients = {c1, c2, c3}
  InitialCap = 1
  MaxCap = 2
  MaxConns = 4
SPECIFICATION Spec
INVARIANT NoLeakAfterClose
PROPERTY PoolRefinement
CHECK_DEADLOCK FALSE
