\* Two clients making three calls in all on two keys, and the monitor.  The calls are bounded, and without a running monitor the program stops, so deadlock is not checked.
CONSTANTS
  Clients = {c1, c2}
  Monitor = m
  Keys = {k1, k2}
  MaxOps = 3
  NoKey = NoKey
SPECIFICATION Spec
PROPERTY EventuallyConsistent
CHECK_DEADLOCK FALSE
