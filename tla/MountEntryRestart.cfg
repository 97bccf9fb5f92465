SPECIFICATION Spec
CONSTANTS
  Clients = {"irodsfs"}
  MaxAttempts = 1
  AutoRemount = FALSE
  Restore = {TRUE, FALSE}
  Faults = {"shutdown", "crash", "unmount", "disk"}
  MaxGen = 3
  MaxRestarts = 1
CHECK_DEADLOCK FALSE
PROPERTY  ShutdownKeepsIntent
