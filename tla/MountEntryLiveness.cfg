SPECIFICATION FairSpec
CONSTANTS
  Clients = {"irodsfs"}
  MaxAttempts = 2
  AutoRemount = TRUE
  Restore = {}
  Faults = {"unmount", "shutdown"}
  MaxGen = 3
  MaxRestarts = 0
CHECK_DEADLOCK FALSE
PROPERTY Settles ShutdownTerminates
