\* Four connection ids: r.connection, a dropped one still named by
\* r.exchangeChannel, one left open by a failed tryConnect, and one to
\* dial.  Two application calls: Connect twice, or Connect then Close.
CONSTANTS
  ConnIds = {1, 2, 3, 4}
  MaxCalls = 2
  MaxDrops = 2
  MaxFails = 1
SPECIFICATION Spec
PROPERTY Reconnects
\* After the bounded calls and drops the program may rest for good.
CHECK_DEADLOCK FALSE
