CONSTANTS
  v1 = v1
  v2 = v2
  b1 = b1
  b2 = b2
  n1 = n1
  n2 = n2
  n3 = n3
  h1 = h1
  Procs = {1, 2}
  Scenarios <- Configurations
  RecordIDs = {1, 2, 3, 4, 5}
  QueueSize = 3
  Hosts = {h1}
  MaxErrors = 1
  Nodes = {1, 2}
  Nobody = 0
  MaxKeys = 3
  MaxEvents = 3
  ReportSize = 1
  NoData = 2
  DockerNodeJoin = 2
  WaitDescribeInstances = 2
  WaitBeforeInstanceDestroy = 1
  WaitBeforeReprovision = 2
  WaitBeforeCleanup = 2
SPECIFICATION FairSpec
INVARIANT OneRecord
 
 
PROPERTY StoppedEnrollersEnd
 
PROPERTY WantedStays
PROPERTY FormerLeadersRest
INVARIANT DataPresent
 
 
 
PROPERTY KeepsWanted
PROPERTY MadeOnce
 
CHECK_DEADLOCK FALSE
