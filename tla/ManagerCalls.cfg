CONSTANTS
  grp = grp
  ctl = ctl
  n1 = n1
  n2 = n2
  k1 = k1
  k2 = k2
  X = X
  NoSpec = NoSpec
  NoNode = NoNode
  Nodes = {n1}
  Order <- GroupFirst
  Groups = {grp}
  Configs = {X}
  Sizes = {1}
  Clients = {k1, k2}
  Calls = {"CommitGroup", "FreeGroup", "SetSize", "Enforce", "Destroy", "Free"}
  CallKeys = {grp, ctl}
  QueueSize = 1
  Retries = 2
  MaxElections = 0
  MaxFailures = 0
SPECIFICATION LeadingSpec
INVARIANT GroupsAgree
PROPERTY CallsReturn
