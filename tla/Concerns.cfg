SPECIFICATION Spec
CONSTANTS
  k1 = k1  s1 = s1  s2 = s2  s3 = s3  s4 = s4  c1 = c1  c2 = c2  h1 = h1  h2 = h2  pr = pr
  Cluster = {k1}
  Service = {s1, s2}
  Component = {c1, c2}
  Host = {h1, h2}
  Provider = {pr}
  clusterOf <- MCClusterOf
  serviceOf <- MCServiceOf
  providerOf <- MCProviderOf
  None = None
  Unset = {c1, s2}
  GroupFields = {c1}
  PluginFields = {s2}
  Imports = {s1}
  Required = {s1}
  requires <- MCRequires
  constraint <- MCConstraint
  needs <- MCNeeds
  needsServices <- MCNeedsServices
  boundTo <- MCBoundTo
  JobDeletes = {s2}
  Flagging = {c2}
  Lockable = {k1, pr}
  MaxLocks = 2
SYMMETRY Symmetry
INVARIANTS
  NoFalseAlarm  LinksAreExact ClusterLockFollowsMapping LockIsMutual
