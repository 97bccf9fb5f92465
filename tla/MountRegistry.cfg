CONSTANTS
  m1 = m1
  m2 = m2
  c1 = c1
  c2 = c2
  IDs = {m1, m2}
  Callers = {c1, c2}
  Paths <- MCPaths
  Location <- MCLocation
  Requests <- MCRequests
  AllowedRoots = {"/m"}
  Reserved = {"/m/d/w"}
  AllowOther = TRUE
  MaxConcurrentMounts = 2
  ReuseIDs = FALSE
  NoID = NoID
  Nobody = Nobody
  MaxEntries = 3
  MaxFaults = 2
  MaxWrites = 1
  MaxRestarts = 1
SPECIFICATION FairSpec
CHECK_DEADLOCK FALSE
INVARIANTS
  TypeOK
  IndexMatchesRecords
  PathsDistinct
  AcknowledgedIsRecorded
  AcceptedByPolicy
PROPERTIES
  ImplementsOwnership
  OrphanTombstoneCleared
