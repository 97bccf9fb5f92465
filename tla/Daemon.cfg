SPECIFICATION FairSpec
CONSTANTS
  d1 = d1  d2 = d2  watcher = watcher  waiter = waiter
  NoDaemon = NoDaemon
  IDs = {m1}
  Watchers = {watcher, waiter}
  Waiters = {waiter}
  Capacity = 2
  MaxConcurrentMounts = 1
  Daemons = {d1, d2}
  Callers = {c1}
  Inodes = {1, 2, 3}
  Scenes <- MCScenes
INVARIANTS TypeOK UsesOpenStore PIDFileKept 
PROPERTIES CleanupSparesOthers StopFinishes  
