CONSTANTS
  p1 = p1
  p2 = p2
  s1 = s1
  s2 = s2
  s3 = s3
  a = a
  b = b
  Procs <- MCProcs
  Unlocked = {p2}
  Sectors <- MCSectors
  Values <- MCValues
  V0 = V0
  NoValue = NoValue
  Junk = Junk
  NoSector = NoSector
  FreshSectors = {NoSector}
  NoProc = NoProc
  CACHE_SIZE = 2
  MaxOps = 2
  MaxTicks = 1
SPECIFICATION Spec
PROPERTY CacheImplementsStore
