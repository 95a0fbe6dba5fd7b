\* No symmetry: a liveness property is checked.
SPECIFICATION FairSpec
CONSTANTS
  Servers = {s1}
  Scripts = {}
  Experiments = {x1, x2, x3}
  ScriptExperiments = {}
  PoolIps = {ip1, ip2}
  PoolSubnets = {net1, net2}
  Durations <- UsefulDurations
  MaxTime = 2
  MaxCrashes = 1
  DbErrors = FALSE
  None = None
INVARIANTS
  AnswersAreFresh
PROPERTIES
  RefusedOnlyWhenFull
  ExpiredReclaimed
