SPECIFICATION Spec
CONSTANTS
  s1 = s1  s2 = s2  s3 = s3  c1 = c1  c2 = c2  c3 = c3  c4 = c4  h1 = h1  r1 = r1  r2 = r2
  Service = {s1, s2, s3}
  Component = {c1, c2, c3, c4}
  Host = {h1}
  serviceOf <- MCServiceOf
  TheCluster = TheCluster
  None = None
  MaxVersion = 2
  offered <- MCOffered
  configured <- MCConfigured
  added <- MCAdded
  Touched = {c2}
  Request = {r1, r2}
  MaxChanges = 3
SYMMETRY RequestSymmetry
INVARIANTS   SwitchIsPossible
 
CHECK_DEADLOCK FALSE
