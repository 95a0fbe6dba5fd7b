SPECIFICATION Spec
CONSTANTS
  Experiments = {x1, x2}
  PoolIps = {ip1, ip2}
  PoolSubnets <- FirstSubnets
  Times <- ShortTimes
  MaxTime = 1
  Commands = {c1, c2}
  MaxUploads = 2
  Brought <- OldParams
  None = None
SYMMETRY Symmetry
INVARIANTS
  TypeOK
  LiveArchivesDisjoint
  OneUpload
  ScriptHasCharts
  GetIsComplete
