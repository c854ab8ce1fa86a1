CONSTANTS
  A = A
  B = B
  L1 = L1
  L2 = L2
  L3 = L3
  k1 = k1
  k2 = k2
  IDs = {1, 2, 3, 4, 5}
  Configs = {A, B}
  Bootstrap = Bootstrap
  LogicalIDs = {L1, L2, L3}
  NoLID = NoLID
  Self = L1
  MaxParallelNum = 1
  UpdatingCount = 2
  UpdatingDuration = 0
  Found <- Nothing
  Specs <- Updated
  Sizes = {}
  Targets = {}
  Calls = {"CommitGroup"}
  Clients = {k1}
  MaxContexts = 1
  MaxPlans = 1
SPECIFICATION UpdateSpec
INVARIANT OneDownAtATime
PROPERTY SelfSurvives
PROPERTY CommitTakesEffect
ACTION_CONSTRAINT OneClass
CHECK_DEADLOCK FALSE
