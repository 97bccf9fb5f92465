\* A persisted unmount becomes an ordinary record again.
SPECIFICATION Spec
CONSTANTS
  Clients = {"irodsfs"}
  MaxAttempts = 2
  AutoRemount = FALSE
  Restore = {}
  Faults = {}
  MaxGen = 3
  MaxRestarts = 0
CHECK_DEADLOCK FALSE
PROPERTY TombstoneIsFinal
