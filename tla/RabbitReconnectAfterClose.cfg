\* Connect then Close, with no connection lost and no channel error: the
\* reconnect goroutine alone must not bring the closed wrapper back.
CONSTANTS
  ConnIds = {1, 2}
  MaxCalls = 2
  MaxDrops = 0
  MaxFails = 0
SPECIFICATION Spec
INVARIANT ClosedStaysClosed
CHECK_DEADLOCK FALSE
