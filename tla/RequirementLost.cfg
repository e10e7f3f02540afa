SPECIFICATION Spec
CONSTANTS
  k1 = k1  s1 = s1  s2 = s2  s3 = s3  s4 = s4  c1 = c1  c2 = c2  h1 = h1  h2 = h2  pr = pr
  Cluster = {k1}
  Service = {s1, s2, s3, s4}
  Component = {}
  Host = {}
  Provider = {}
  clusterOf <- MCClusterOfFour
  serviceOf <- MCNothing
  providerOf <- MCNothing
  None = None
  Unset = {}
  GroupFields = {}
  PluginFields = {}
  Imports = {}
  Required = {}
  requires <- MCRequiresThird
  constraint <- MCNothing
  needs <- MCNoNeeds
  needsServices <- MCNothing
  boundTo <- MCNothing
  JobDeletes = {}
  Flagging = {}
  Lockable = {}
  MaxLocks = 0
PROPERTIES RequirementStays
