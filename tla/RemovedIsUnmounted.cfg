\* An unmount succeeds and the filesystem is mounted all the same.
SPECIFICATION Spec
CONSTANTS
  Clients = {"nfs"}
  MaxAttempts = 2
  AutoRemount = FALSE
  Restore = {}
  Faults = {}
  MaxGen = 3
  MaxRestarts = 0
CHECK_DEADLOCK FALSE
INVARIANT RemovedIsUnmounted
