CONSTANTS
  p1 = p1
  a = a
  b = b
  Procs <- MCProcs
  Names <- MCNames
  Root = 1
  Pool = {2, 3, 4}
  FdSlots = {2}
  PathArgs <- MCPathArgs
  FileSizes = {0, 1}
  MaxCnt = 1
SPECIFICATION Spec
CONSTRAINT CountBound
INVARIANT SectorsAccounted
