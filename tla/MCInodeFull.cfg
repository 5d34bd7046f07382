\* A small disk: inode_expand runs out of sectors part way.
CONSTANTS
  n1 = n1  n2 = n2  v1 = v1
  Names <- MCNames
  Bytes <- MCBytes
  NSECTORS = 8
  Reserved = {0, 1}
  DISK_SECTOR_SIZE = 2
  DIRECT_BLOCKS = 2
  PTRS = 2
  Zero = Zero
  Garbage = Garbage
  Junk = Junk
  NoInode = NoInode
  NoEntry = NoEntry
  NoInum = NoInum
  NoCall = NoCall
  Lens = {0}
  Offsets = {3, 8}
  Sizes = {1, 2}
  MaxOps = 7
SPECIFICATION Spec
INVARIANT BlockMapSound
