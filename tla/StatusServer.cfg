SPECIFICATION FairSpec
CONSTANTS
  h1 = h1  c1 = c1  c2 = c2  s1 = s1  g1 = g1  g2 = g2
  Host = {h1}
  Component = {c1, c2}
  Service = {s1}
  serviceOf <- MCServiceOf
  TheCluster = cl
  Value = {0, 1}
  Map <- MCMap
  Maintenance = {{}, {c2}}
  Goroutine = {g1, g2}
  MaxPosts = 2
  None = None
 
PROPERTIES LastTimerClears StatusExpires PostIsReported
CHECK_DEADLOCK FALSE
