\* Up to 9 queued elements: the buffer grows 2 -> 4 -> 8 -> 16 and shrinks back.
CONSTANTS
  Values = {v1, v2}
  Nil = Nil
  MaxCount = 9
SPECIFICATION Spec
INVARIANTS TypeOK NoResizePanic Occupancy
PROPERTIES FifoRefinement
