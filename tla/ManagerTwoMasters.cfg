CONSTANTS
  grp = grp
  ctl = ctl
  n1 = n1
  n2 = n2
  k1 = k1
  k2 = k2
  X = X
  NoSpec = NoSpec
  NoNode = NoNode
  Nodes = {n1, n2}
  Order <- OneGroup
  Groups = {grp}
  Configs = {X}
  Sizes = {1}
  Clients = {k1}
  Calls = {}
  CallKeys = {}
  QueueSize = 12
  Retries = 2
  MaxElections = 1
  MaxFailures = 0
SPECIFICATION CalmHandoverSpec
PROPERTY OneMaster
CHECK_DEADLOCK FALSE
