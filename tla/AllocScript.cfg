SPECIFICATION Spec
CONSTANTS
  Servers = {s1}
  Scripts = {script}
  Experiments = {x1, xp}
  ScriptExperiments = {xp}
  PoolIps = {ip1}
  PoolSubnets = {net1, net2}
  Durations <- AnyDurations
  MaxTime = 1
  MaxCrashes = 1
  DbErrors = TRUE
  None = None
SYMMETRY PoolSymmetry
INVARIANTS
  TypeOK
  Accounted
