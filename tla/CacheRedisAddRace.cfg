CONSTANTS
  Clients = {c1, c2}
  Keys = {k1}
  Values = {v1, v2}
  Missing = Missing
  MaxCalls = 2
SPECIFICATION RSpec
PROPERTY RefinesMemoryStore
CHECK_DEADLOCK FALSE
