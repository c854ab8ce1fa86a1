CONSTANTS
  A = A
  B = B
  L1 = L1
  L2 = L2
  L3 = L3
  k1 = k1
  k2 = k2
  IDs = {1, 2, 3, 4, 5}
  Configs = {A, B}
  Bootstrap = Bootstrap
  LogicalIDs = {L1, L2, L3}
  NoLID = NoLID
  Self = NoLID
  MaxParallelNum = 0
  UpdatingCount = 0
  UpdatingDuration = 1
  Found <- Nothing
  Specs <- Supervised
  Sizes = {}
  Targets = {}
  Calls = {"CommitGroup", "FreeGroup"}
  Clients = {k1}
  MaxContexts = 2
  MaxPlans = 1
SPECIFICATION SuperviseSpec
INVARIANT NoOvershoot
INVARIANT StableSelection
INVARIANT WatchedIsSupervised
 
PROPERTY SizeMaintained
 
ACTION_CONSTRAINT OneClass
CHECK_DEADLOCK FALSE
