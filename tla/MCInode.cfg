\* Two files on a disk large enough for the biggest file the calls can make.
CONSTANTS
  n1 = n1  n2 = n2  v1 = v1
  Names <- MCNames
  Bytes <- MCBytes
  NSECTORS = 14
  Reserved = {0, 1}
  DISK_SECTOR_SIZE = 2
  DIRECT_BLOCKS = 2
  PTRS = 2
  Zero = Zero
  Garbage = Garbage
  Junk = Junk
  NoInode = NoInode
  NoEntry = NoEntry
  NoInum = NoInum
  NoCall = NoCall
  Lens = {0, 1}
  Offsets = {0, 3, 8}
  Sizes = {1, 2}
  MaxOps = 6
SPECIFICATION Spec
INVARIANT TypeOK
INVARIANT BlockMapSound
