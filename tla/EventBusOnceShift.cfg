\* Three subscriptions of distinct functions and one or two Publish calls.  The bounds end every behaviour, so deadlock is not checked.
CONSTANTS
  Callbacks = {f1, f2, f3}
  MaxHandlers = 3
  MaxPublishes = 2
SPECIFICATION Spec
PROPERTY DispatchMatchesSnapshot
CHECK_DEADLOCK FALSE
