SPECIFICATION Spec
CONSTANTS
  k1 = k1  s1 = s1  c1 = c1  h1 = h1  h2 = h2  pr = pr  ga = ga
  Cluster = {k1}
  Service = {s1}
  Component = {c1}
  Host = {h1, h2}
  Provider = {pr}
  clusterOf <- MCClusterOf
  serviceOf <- MCServiceOf
  providerOf <- MCProviderOf
  Patched = {h1, s1}
  MaxRequests = 2
  HasAction = {h1}
  Group = {ga}
  ActionGroup = {ga}
  groupOwner <- MCGroupOwner
INVARIANTS
   ModesAgree ChangingHasTask GroupHostsAreMapped
PROPERTIES
  ChangingEnds
