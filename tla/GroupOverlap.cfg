CONSTANTS
  A = A
  B = B
  L1 = L1
  L2 = L2
  L3 = L3
  k1 = k1
  k2 = k2
  IDs = {1, 2, 3, 4}
  Configs = {A, B}
  Bootstrap = Bootstrap
  LogicalIDs = {L1, L2, L3}
  NoLID = NoLID
  Self = NoLID
  MaxParallelNum = 0
  UpdatingCount = 0
  UpdatingDuration = 0
  Found <- TwoOfA
  Specs <- A2B2
  Sizes = {}
  Targets = {}
  Calls = {"CommitGroup"}
  Clients = {k1}
  MaxContexts = 1
  MaxPlans = 3
SPECIFICATION CalmManaged2
INVARIANT UpdatesDoNotOverlap
CHECK_DEADLOCK FALSE
