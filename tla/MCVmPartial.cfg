\* One process touching two file pages and two stack pages through two
\* frames and two swap slots: every kind of page is evicted, swapped out and
\* back in, and the swap device can fill up.
CONSTANTS
  p1 = p1  p2 = p2  g1 = g1  g2 = g2  g3 = g3  g4 = g4  f1 = f1  f2 = f2  v1 = v1
  Procs <- MCProcs1
  Pages <- MCPages4
  FilePages = {g1, g2}
  PartialPages = {g2}
  Frames = {f1, f2}
  Data = {v1}
  FileData = FileData
  Zero = Zero
  StaleTail = StaleTail
  NoValue = NoValue
  NoProc = NoProc
  NoFrame = NoFrame
  SwapSize = 4
  SECTORS_PER_PAGE = 2
  MaxOps = 5
SPECIFICATION Spec
PROPERTY MemoryImplementsVirtualMemory
