SPECIFICATION Spec
CONSTANTS
  Clients = {"irodsfs", "davfs", "nfs"}
  MaxAttempts = 2
  AutoRemount = TRUE
  Restore = {}
  Faults = {"db", "cancel", "probe", "unmount", "lazy", "disk"}
  MaxGen = 3
  MaxRestarts = 0
CHECK_DEADLOCK FALSE
INVARIANT TypeOK ExitDoneClosedOnce ExitDoneHasCloser UnmountPrevails AttemptsBounded RunningChildIsRecorded OneLiveClient
PROPERTY KeepsPromise
