CONSTANTS
  A = A
  B = B
  L1 = L1
  L2 = L2
  L3 = L3
  k1 = k1
  k2 = k2
  IDs = {1, 2}
  Configs = {A, B}
  Bootstrap = Bootstrap
  LogicalIDs = {L1, L2, L3}
  NoLID = NoLID
  Self = NoLID
  MaxParallelNum = 0
  UpdatingCount = 0
  UpdatingDuration = 0
  Found <- OneToLabel
  Specs <- A1B0
  Sizes = {2}
  Targets = {{2}, {1, 2}}
  Calls = {"CommitGroup", "Pretend", "SetSize", "FreeGroup", "DestroyGroup", "DestroyInstances"}
  Clients = {k1, k2}
  MaxContexts = 1
  MaxPlans = 1
SPECIFICATION Spec
INVARIANT TypeOK
 
SYMMETRY ClientSymmetry
CHECK_DEADLOCK FALSE
