\* A retried unmount removes files that a lazy detach left unsynchronised.
SPECIFICATION Spec
CONSTANTS
  Clients = {"davfs"}
  MaxAttempts = 2
  AutoRemount = FALSE
  Restore = {}
  Faults = {"lazy"}
  MaxGen = 4
  MaxRestarts = 0
CHECK_DEADLOCK FALSE
PROPERTY UnsyncedDataKept
