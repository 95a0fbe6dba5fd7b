SPECIFICATION Spec
CONSTANTS
  Servers = {s1}
  Scripts = {script}
  Experiments = {x1, xp}
  ScriptExperiments = {xp}
  PoolIps = {ip1, ip2}
  PoolSubnets = {net1, net2}
  Durations <- UsefulDurations
  MaxTime = 2
  MaxCrashes = 0
  DbErrors = FALSE
  None = None
PROPERTIES
  ReturnedIsStored
