CONSTANTS
  Names = {"kafka", "nats", "stan", "amqp"}
  MaxFails = 1
  MaxDrops = 1
  MaxCalls = 4
SPECIFICATION Spec
INVARIANT NoPanicAfterConnect
CHECK_DEADLOCK FALSE
