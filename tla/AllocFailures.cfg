SPECIFICATION Spec
CONSTANTS
  Servers = {s1}
  Scripts = {}
  Experiments = {x1, x2, x3}
  ScriptExperiments = {}
  PoolIps = {ip1, ip2}
  PoolSubnets = {net1, net2}
  Durations <- AnyDurations
  MaxTime = 2
  MaxCrashes = 1
  DbErrors = TRUE
  None = None
SYMMETRY Symmetry
INVARIANTS
  LeasesExclusive
  LeaseBacked
PROPERTIES
  ImplementsRegistry
