\* The retry a mount is waiting for has no timer any more.
SPECIFICATION Spec
CONSTANTS
  Clients = {"irodsfs"}
  MaxAttempts = 2
  AutoRemount = FALSE
  Restore = {}
  Faults = {"cancel"}
  MaxGen = 3
  MaxRestarts = 0
CHECK_DEADLOCK FALSE
INVARIANT RetryIsPending
