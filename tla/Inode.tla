------------------------------- MODULE Inode -------------------------------
(***************************************************************************)
(* Indexed inodes of project 4 (filesys/inode.c) with the calls that use   *)
(* them: filesys_create, open, close, filesys_remove (dir_remove), and     *)
(* reads and writes through inode_read_at and inode_write_at, which grow   *)
(* a file with inode_expand.  Every call runs under filesys_lock           *)
(* (userprog/syscall.c:63-245), so calls never interleave; a create or a   *)
(* write that grows a file takes one step per iteration of inode_expand's  *)
(* loops, and then finishes, while the other calls wait.  Data sectors     *)
(* go through the buffer cache; inode_expand zeroes new sectors and the    *)
(* index blocks are read and written with disk_read/disk_write, past the   *)
(* cache.  The cache has 64 entries and the modelled disk fewer sectors,   *)
(* so it never evicts and nothing is written back while the model runs.    *)
(* The block counts are scaled down: DIRECT_BLOCKS for the 12 direct       *)
(* blocks, PTRS for the 128 pointers of an index block, PTRS * PTRS for    *)
(* the 128 * 128 doubly indirect ones.                                     *)
(***************************************************************************)
EXTENDS Integers, Sequences, FiniteSetsExt

CONSTANTS
  Names,            \* file names the programs use
  NSECTORS,         \* sectors of the file-system disk
  Reserved,         \* sectors format leaves in use (free map, root directory)
  DISK_SECTOR_SIZE, \* bytes of a sector (512 in the code)
  DIRECT_BLOCKS,    \* inode.c:17 (12 in the code)
  PTRS,             \* NUM_DIRECT_PTRS, inode.c:20 (128 in the code)
  Bytes,            \* byte values programs write
  Zero, Garbage,    \* the zero byte; bytes of a sector holding pointers
  Junk,             \* an uninitialized sector number
  NoInode, NoEntry, NoInum,
  NoCall,           \* ex when no call is inside inode_expand
  Lens, Offsets, Sizes,
  MaxOps            \* calls the programs make

Sectors == 0..(NSECTORS - 1)
NoSector == -1                       \* byte_to_sector's "no such sector"
Slots == 0..(DIRECT_BLOCKS + 1)      \* blocks[]: direct, indirect, doubly indirect
Ptrs == 0..(PTRS - 1)
Offs == 0..(DISK_SECTOR_SIZE - 1)
ZeroBytes == [b \in Offs |-> Zero]
ZeroPtrs == [k \in Ptrs |-> 0]       \* a zeroed sector read as pointers
JunkPtrs == [k \in Ptrs |-> Junk]    \* an uninitialized block[] on the stack

VARIABLES
  used,      \* the free map: sectors in use
  inodeDisk, \* inodeDisk[s]: the struct inode_disk stored in sector s
  ptrDisk,   \* ptrDisk[s]: sector s read as an array of sector numbers
  dataDisk,  \* dataDisk[s]: sector s read as bytes
  cache,     \* cache[s]: the payload of the cache entry of s, or NoEntry
  oi,        \* oi[s]: the open struct inode of sector s, or NoInode
  dirent,    \* dirent[n]: the inode sector the directory maps n to
  fd,        \* fd[n]: the inode sector of the file opened through n
  rbuf,      \* rbuf[n]: the bytes the last read through n returned
  ex,        \* the create or write inside inode_expand, or NoCall
  ops        \* calls made

vars == <<used, inodeDisk, ptrDisk, dataDisk, cache, oi, dirent, fd, rbuf, ex, ops>>

-----------------------------------------------------------------------------
(* byte_to_sector (inode.c:72-101) for an inode record ino: length,        *)
(* direct, indirect, dbl (double_indirect) and blocks.                      *)

\* The index block in sector s as disk_read returns it (through an
\* uninitialized sector number: an uninitialized block), and its entry k.
Block(pd, s) == IF s = Junk THEN JunkPtrs ELSE pd[s]
Ptr(pd, s, k) == Block(pd, s)[k]

\* The sector of the k-th data block of ino, the order inode_expand fills
\* and inode_free_resources frees them in.
BlockOf(ino, pd, k) ==
  LET i1 == k - DIRECT_BLOCKS
      i2 == i1 - PTRS
  IN  IF k < DIRECT_BLOCKS THEN ino.blocks[k]
      ELSE IF i1 < PTRS THEN Ptr(pd, ino.blocks[DIRECT_BLOCKS], i1)
      ELSE IF i2 < PTRS * PTRS
             THEN Ptr(pd, Ptr(pd, ino.blocks[DIRECT_BLOCKS + 1], i2 \div PTRS), i2 % PTRS)
      ELSE NoSector

ByteToSector(ino, pd, pos) ==
  IF pos >= ino.length THEN NoSector ELSE BlockOf(ino, pd, pos \div DISK_SECTOR_SIZE)

\* DIV_ROUND_UP (size, DISK_SECTOR_SIZE), inode.c:40-44.
BytesToSectors(size) == (size + DISK_SECTOR_SIZE - 1) \div DISK_SECTOR_SIZE

-----------------------------------------------------------------------------
(* inode_expand (inode.c:507-587), one step per loop iteration, index-     *)
(* block read or index-block write.  The call in progress is ex: the       *)
(* caller (create or write) and its arguments, the inode ino being grown,  *)
(* the sectors still to add (extra), and the locals block (blk),           *)
(* block_ptrs (bp), block_index (bi) and index (idx).  pc is where it is;  *)
(* "ok" and "fail" are its two returns.  filesys_lock is held throughout,  *)
(* so no other call runs until the caller finishes.                        *)

\* free_map_allocate (1, &x): the first free sector (bitmap_scan_and_flip).
FirstFree(u) == IF Sectors \ u = {} THEN NoSector ELSE Min(Sectors \ u)

Free == FirstFree(used)

\* free_map_allocate failed: return false; nothing else changes.
Fail ==
  /\ Free = NoSector
  /\ ex' = [ex EXCEPT !.pc = "fail"]
  /\ UNCHANGED <<used, ptrDisk, dataDisk>>

\* free_map_allocate of a data sector and disk_write (.., zeros) to it.
AddData ==
  /\ Free # NoSector
  /\ used' = used \cup {Free}
  /\ ptrDisk' = [ptrDisk EXCEPT ![Free] = ZeroPtrs]
  /\ dataDisk' = [dataDisk EXCEPT ![Free] = ZeroBytes]

\* free_map_allocate of an index block, which is not zeroed.
AddIndex ==
  /\ Free # NoSector
  /\ used' = used \cup {Free}
  /\ UNCHANGED <<ptrDisk, dataDisk>>

\* disk_write of the index block blk to sector s; through an uninitialized
\* sector number, to whichever sector it names.
PutIndex(s, blk) ==
  \E j \in IF s = Junk THEN Sectors ELSE {s} :
    /\ ptrDisk' = [ptrDisk EXCEPT ![j] = blk]
    /\ dataDisk' = [dataDisk EXCEPT ![j] = [b \in Offs |-> Garbage]]
    /\ UNCHANGED used

\* What inode_expand leaves alone.
ExpandFrame == <<inodeDisk, cache, oi, dirent, fd, rbuf, ops>>

\* inode_expand is at pc.
At(pc) == ex # NoCall /\ ex.pc = pc

Goto(pc) == ex' = [ex EXCEPT !.pc = pc] /\ UNCHANGED <<used, ptrDisk, dataDisk>>

\* Mutant: the direct loop runs one block too far (<= 12).
DirectStepOverrun ==
  /\ At("direct") /\ UNCHANGED ExpandFrame
  /\ IF ex.ino.direct > DIRECT_BLOCKS THEN Goto("indirect")
     ELSE \/ Fail
          \/ /\ AddData
             /\ ex' = [ex EXCEPT !.ino.blocks[ex.ino.direct] = Free,
                                 !.ino.direct = @ + 1, !.extra = @ - 1,
                                 !.pc = IF ex.extra = 1 THEN "ok" ELSE "direct"]

\* inode.c:513-523: one direct block; return true when none is left to add.
DirectStep ==
  /\ At("direct") /\ UNCHANGED ExpandFrame
  /\ IF ex.ino.direct >= DIRECT_BLOCKS THEN Goto("indirect")
     ELSE \/ Fail
          \/ /\ AddData
             /\ ex' = [ex EXCEPT !.ino.blocks[ex.ino.direct] = Free,
                                 !.ino.direct = @ + 1, !.extra = @ - 1,
                                 !.pc = IF ex.extra = 1 THEN "ok" ELSE "direct"]

\* inode.c:525-532: read the indirect block, or allocate blocks[12] and
\* start from an uninitialized block[].
IndirectStart ==
  /\ At("indirect") /\ UNCHANGED ExpandFrame
  /\ IF ex.ino.indirect >= PTRS THEN Goto("double")
     ELSE IF ex.ino.indirect > 0
       THEN /\ ex' = [ex EXCEPT !.blk = Block(ptrDisk, ex.ino.blocks[DIRECT_BLOCKS]),
                                !.pc = "iloop"]
            /\ UNCHANGED <<used, ptrDisk, dataDisk>>
     ELSE \/ Fail
          \/ /\ AddIndex
             /\ ex' = [ex EXCEPT !.ino.blocks[DIRECT_BLOCKS] = Free, !.blk = JunkPtrs,
                                 !.pc = "iloop"]

\* inode.c:533-544: one pointer of the indirect block; after the loop,
\* write the block back and return true, or go on to the doubly indirect
\* blocks.  A failed allocation returns before the write-back.
IndirectStep ==
  /\ At("iloop") /\ UNCHANGED ExpandFrame
  /\ IF ex.ino.indirect < PTRS /\ ex.extra > 0
       THEN \/ Fail
            \/ /\ AddData
               /\ ex' = [ex EXCEPT !.blk[ex.ino.indirect] = Free,
                                   !.ino.indirect = @ + 1, !.extra = @ - 1]
       ELSE /\ PutIndex(ex.ino.blocks[DIRECT_BLOCKS], ex.blk)
            /\ ex' = [ex EXCEPT !.pc = IF ex.extra = 0 THEN "ok" ELSE "double"]

\* inode.c:547-554: read block_ptrs, or allocate blocks[13] and start from
\* an uninitialized block_ptrs; with every doubly indirect block in use,
\* return false (inode.c:586).
DoubleStart ==
  /\ At("double") /\ UNCHANGED ExpandFrame
  /\ IF ex.ino.dbl >= PTRS * PTRS THEN Goto("fail")
     ELSE IF ex.ino.dbl > 0
       THEN /\ ex' = [ex EXCEPT !.bp = Block(ptrDisk, ex.ino.blocks[DIRECT_BLOCKS + 1]),
                                !.pc = "dloop"]
            /\ UNCHANGED <<used, ptrDisk, dataDisk>>
     ELSE \/ Fail
          \/ /\ AddIndex
             /\ ex' = [ex EXCEPT !.ino.blocks[DIRECT_BLOCKS + 1] = Free, !.bp = JunkPtrs,
                                 !.pc = "dloop"]

\* inode.c:556-566, 582-584: the next second-level block, allocated when
\* it is a new one, else read; after the loop, write block_ptrs back and
\* return whether every sector was added.
DoubleStep ==
  /\ At("dloop") /\ UNCHANGED ExpandFrame
  /\ IF ex.ino.dbl < PTRS * PTRS /\ ex.extra > 0
       THEN LET bi == ex.ino.dbl \div PTRS IN
            IF ex.ino.dbl % PTRS = 0
              THEN \/ Fail
                   \/ /\ AddIndex
                      /\ ex' = [ex EXCEPT !.bp[bi] = Free, !.blk = JunkPtrs, !.bi = bi,
                                          !.idx = 0, !.pc = "leaf"]
              ELSE /\ ex' = [ex EXCEPT !.blk = Block(ptrDisk, ex.bp[bi]), !.bi = bi,
                                       !.idx = ex.ino.dbl % PTRS, !.pc = "leaf"]
                   /\ UNCHANGED <<used, ptrDisk, dataDisk>>
       ELSE /\ PutIndex(ex.ino.blocks[DIRECT_BLOCKS + 1], ex.bp)
            /\ ex' = [ex EXCEPT !.pc = IF ex.extra = 0 THEN "ok" ELSE "fail"]

\* inode.c:567-577: one pointer of the second-level block; after the inner
\* loop, write the block back.
LeafStep ==
  /\ At("leaf") /\ UNCHANGED ExpandFrame
  /\ IF ex.idx < PTRS /\ ex.extra > 0
       THEN \/ Fail
            \/ /\ AddData
               /\ ex' = [ex EXCEPT !.blk[ex.idx] = Free, !.ino.dbl = @ + 1,
                                   !.idx = @ + 1, !.extra = @ - 1]
       ELSE /\ PutIndex(ex.bp[ex.bi], ex.blk)
            /\ ex' = [ex EXCEPT !.pc = "dloop"]

\* The state inode_expand (ino, newLength) starts from for a call.
Expanding(call, args, ino, newLength) ==
  LET extra == BytesToSectors(newLength) - BytesToSectors(ino.length) IN
  [call |-> call, args |-> args, ino |-> ino, extra |-> extra, blk |-> JunkPtrs, bp |-> JunkPtrs,
   bi |-> 0, idx |-> 0, pc |-> IF extra = 0 THEN "ok" ELSE "direct"]

-----------------------------------------------------------------------------
(* Open inodes.                                                             *)

\* The data blocks inode_free_resources releases (inode.c:467-505): the
\* first bytes_to_sectors (length) blocks; the index blocks are not.
DataBlocks(ino, pd) ==
  {BlockOf(ino, pd, k) : k \in 0..(BytesToSectors(ino.length) - 1)} \ {Junk}

\* inode_close (inode.c:246-283) of the open inode of sector s: the last
\* close frees a removed inode's data blocks and its sector, or writes the
\* inode back to its sector.
CloseInode(s) ==
  LET o == oi[s] IN
  IF o.cnt > 1 THEN /\ oi' = [oi EXCEPT ![s].cnt = @ - 1]
                    /\ UNCHANGED <<used, inodeDisk>>
  ELSE /\ oi' = [oi EXCEPT ![s] = NoInode]
       /\ IF o.removed
            THEN /\ used' = used \ (DataBlocks(o.ino, ptrDisk) \cup {s})
                 /\ UNCHANGED inodeDisk
            ELSE /\ inodeDisk' = [inodeDisk EXCEPT ![s] = o.ino]
                 /\ UNCHANGED used

\* inode_open (inode.c:184-224): the open inode, or a new one read from s.
Opened(s) ==
  IF oi[s] # NoInode THEN [oi[s] EXCEPT !.cnt = @ + 1]
  ELSE [ino |-> inodeDisk[s], cnt |-> 1, removed |-> FALSE]

\* A byte through the cache: cache_get_sector, or cache_fetch_sector, which
\* reads the sector from the disk into a new entry (cache.c:35-62).
Payload(c, t) == IF c[t] # NoEntry THEN c[t] ELSE dataDisk[t]

\* The sectors an uninitialized sector number met at the positions P may
\* be: any, when byte_to_sector returns one.
JunkTargets(ino, pd, P) ==
  IF \E pos \in P : ByteToSector(ino, pd, pos) = Junk THEN Sectors ELSE {NoSector}

-----------------------------------------------------------------------------
(* The calls, each under filesys_lock.                                      *)

\* filesys_create (filesys.c:55-78) up to inode_create's inode_expand
\* (inode.c:120-150): a sector for the inode, and the expand of a fresh
\* inode to len begins.  With no free sector the call fails.
Create(n, len) ==
  LET s == Free
      fresh == [length |-> 0, direct |-> 0, indirect |-> 0, dbl |-> 0,
                blocks |-> [k \in Slots |-> Junk]]
  IN
  /\ ops < MaxOps /\ ex = NoCall
  /\ IF s = NoSector
       THEN UNCHANGED <<used, ex>>
       ELSE /\ used' = used \cup {s}
            /\ ex' = Expanding("create", [n |-> n, s |-> s, len |-> len], fresh, len)
  /\ ops' = ops + 1
  /\ UNCHANGED <<inodeDisk, ptrDisk, dataDisk, cache, oi, dirent, fd, rbuf>>

\* The rest of inode_create (inode.c:151-178): the inode is written when
\* the expand succeeded; then dir_add (directory.c:135-179), which fails
\* for a name in use; on failure filesys_create releases the inode's
\* sector (only, filesys.c:68-69).
CreateDone ==
  LET a == ex.args
      ok == ex.pc = "ok"
      added == ok /\ dirent[a.n] = NoInum
  IN
  /\ ex # NoCall /\ ex.call = "create" /\ ex.pc \in {"ok", "fail"}
  /\ used' = IF added THEN used ELSE used \ {a.s}
  /\ ptrDisk' = IF ok THEN [ptrDisk EXCEPT ![a.s] = JunkPtrs] ELSE ptrDisk
  /\ dataDisk' = IF ok THEN [dataDisk EXCEPT ![a.s] = [b \in Offs |-> Garbage]] ELSE dataDisk
  /\ inodeDisk' = IF ok THEN [inodeDisk EXCEPT ![a.s] = [ex.ino EXCEPT !.length = a.len]]
                  ELSE inodeDisk
  /\ dirent' = IF added THEN [dirent EXCEPT ![a.n] = a.s] ELSE dirent
  /\ ex' = NoCall
  /\ UNCHANGED <<cache, oi, fd, rbuf, ops>>

\* filesys_open (filesys.c:86-124): dir_lookup and inode_open.
Open(n) ==
  LET s == dirent[n] IN
  /\ ops < MaxOps /\ ex = NoCall /\ s # NoInum /\ fd[n] = NoInum
  /\ oi' = [oi EXCEPT ![s] = Opened(s)]
  /\ fd' = [fd EXCEPT ![n] = s]
  /\ ops' = ops + 1
  /\ UNCHANGED <<used, inodeDisk, ptrDisk, dataDisk, cache, dirent, rbuf, ex>>

\* close (syscall.c:212-230): file_close, that is inode_close.
Close(n) ==
  /\ ops < MaxOps /\ ex = NoCall /\ fd[n] # NoInum
  /\ CloseInode(fd[n])
  /\ fd' = [fd EXCEPT ![n] = NoInum]
  /\ ops' = ops + 1
  /\ UNCHANGED <<ptrDisk, dataDisk, cache, dirent, rbuf, ex>>

\* Mutant: the blocks are freed at remove even while the file is open.
RemoveFreeWhileOpen(n) ==
  LET s == dirent[n] IN
  /\ ops < MaxOps /\ ex = NoCall /\ s # NoInum
  /\ LET o == [Opened(s) EXCEPT !.removed = TRUE] IN
       /\ oi' = [oi EXCEPT ![s] = IF o.cnt > 1 THEN [o EXCEPT !.cnt = @ - 1] ELSE NoInode]
       /\ used' = used \ (DataBlocks(o.ino, ptrDisk) \cup {s})
  /\ dirent' = [dirent EXCEPT ![n] = NoInum]
  /\ ops' = ops + 1
  /\ UNCHANGED <<inodeDisk, ptrDisk, dataDisk, cache, fd, rbuf, ex>>

\* filesys_remove (filesys.c:131-141) with dir_remove (directory.c:181-225):
\* the entry is erased, and the inode opened, marked removed and closed.
Remove(n) ==
  LET s == dirent[n] IN
  /\ ops < MaxOps /\ ex = NoCall /\ s # NoInum
  /\ LET o == [Opened(s) EXCEPT !.removed = TRUE] IN
       IF o.cnt > 1
         THEN /\ oi' = [oi EXCEPT ![s] = [o EXCEPT !.cnt = @ - 1]]
              /\ UNCHANGED used
         ELSE /\ oi' = [oi EXCEPT ![s] = NoInode]
              /\ used' = used \ (DataBlocks(o.ino, ptrDisk) \cup {s})
  /\ dirent' = [dirent EXCEPT ![n] = NoInum]
  /\ ops' = ops + 1
  /\ UNCHANGED <<inodeDisk, ptrDisk, dataDisk, cache, fd, rbuf, ex>>

\* The chunk loop of inode_write_at (inode.c:380-435): every byte of
\* off..off+size-1 below the length of ino goes into the cache entry of
\* byte_to_sector's sector, fetched on a miss.  A sector number read from
\* uninitialized memory is some sector j.
WriteBytes(ino, off, size, v) ==
  LET P == {pos \in off..(off + size - 1) : pos < ino.length} IN
  \E j \in JunkTargets(ino, ptrDisk, P) :
    LET Sec(pos) == LET t == ByteToSector(ino, ptrDisk, pos) IN IF t = Junk THEN j ELSE t
        T == {Sec(pos) : pos \in P}
    IN  cache' = [t \in Sectors |->
                   IF t \notin T THEN cache[t]
                   ELSE [b \in Offs |->
                           IF \E pos \in P : Sec(pos) = t /\ pos % DISK_SECTOR_SIZE = b
                             THEN v ELSE Payload(cache, t)[b]]]

\* inode_write_at (inode.c:364-379): a write past the end starts
\* inode_expand; any other writes its bytes at once.
WriteAt(n, off, size, v) ==
  LET s == fd[n]
      ino == oi[s].ino
  IN
  /\ ops < MaxOps /\ ex = NoCall /\ s # NoInum
  /\ IF off + size > ino.length
       THEN /\ ex' = Expanding("write", [n |-> n, off |-> off, size |-> size, v |-> v],
                               ino, off + size)
            /\ UNCHANGED cache
       ELSE /\ WriteBytes(ino, off, size, v)
            /\ UNCHANGED ex
  /\ ops' = ops + 1
  /\ UNCHANGED <<used, inodeDisk, ptrDisk, dataDisk, oi, dirent, fd, rbuf>>

\* After inode_expand: the new length only when it returned true
\* (inode.c:376-377), the counters and blocks[] it changed either way;
\* then the bytes below the length.
WriteDone ==
  LET a == ex.args
      s == fd[a.n]
      ino == IF ex.pc = "ok" THEN [ex.ino EXCEPT !.length = a.off + a.size] ELSE ex.ino
  IN
  /\ ex # NoCall /\ ex.call = "write" /\ ex.pc \in {"ok", "fail"}
  /\ oi' = [oi EXCEPT ![s].ino = ino]
  /\ WriteBytes(ino, a.off, a.size, a.v)
  /\ ex' = NoCall
  /\ UNCHANGED <<used, inodeDisk, ptrDisk, dataDisk, dirent, fd, rbuf, ops>>

\* inode_read_at (inode.c:298-356): the bytes from off up to the length,
\* each from the cache entry of its sector, fetched on a miss.
ReadAt(n, off, size) ==
  LET s == fd[n]
      ino == oi[s].ino
      k == IF off >= ino.length THEN 0
           ELSE (IF off + size < ino.length THEN off + size ELSE ino.length) - off
  IN
  /\ ops < MaxOps /\ ex = NoCall /\ s # NoInum
  /\ \E j \in JunkTargets(ino, ptrDisk, off..(off + k - 1)) :
       LET Sec(pos) == LET t == ByteToSector(ino, ptrDisk, pos) IN IF t = Junk THEN j ELSE t
           T == {Sec(pos) : pos \in off..(off + k - 1)}
       IN  /\ rbuf' = [rbuf EXCEPT ![n] =
                        [i \in 1..k |-> Payload(cache, Sec(off + i - 1))[(off + i - 1) % DISK_SECTOR_SIZE]]]
           /\ cache' = [t \in Sectors |-> IF t \in T THEN Payload(cache, t) ELSE cache[t]]
  /\ ops' = ops + 1
  /\ UNCHANGED <<used, inodeDisk, ptrDisk, dataDisk, oi, dirent, fd, ex>>

-----------------------------------------------------------------------------

\* After do_format: the reserved sectors in use, the disk zeroed, the
\* cache empty, no file.
Init ==
  /\ used = Reserved
  /\ inodeDisk = [s \in Sectors |-> NoInode]
  /\ ptrDisk = [s \in Sectors |-> ZeroPtrs]
  /\ dataDisk = [s \in Sectors |-> ZeroBytes]
  /\ cache = [s \in Sectors |-> NoEntry]
  /\ oi = [s \in Sectors |-> NoInode]
  /\ dirent = [n \in Names |-> NoInum]
  /\ fd = [n \in Names |-> NoInum]
  /\ rbuf = [n \in Names |-> <<>>]
  /\ ex = NoCall
  /\ ops = 0

Next ==
  \/ \E n \in Names, len \in Lens : Create(n, len)
  \/ \E n \in Names : Open(n) \/ Close(n) \/ Remove(n)
  \/ \E n \in Names, off \in Offsets, size \in Sizes :
       \/ ReadAt(n, off, size)
       \/ \E v \in Bytes : WriteAt(n, off, size, v)
  \/ CreateDone \/ WriteDone
  \/ DirectStep \/ IndirectStart \/ IndirectStep
  \/ DoubleStart \/ DoubleStep \/ LeafStep
  \/ ops = MaxOps /\ ex = NoCall /\ UNCHANGED vars

Spec == Init /\ [][Next]_vars

-----------------------------------------------------------------------------
(* Properties.                                                              *)

InodeRecs == [length : Nat, direct : 0..DIRECT_BLOCKS, indirect : 0..PTRS,
              dbl : 0..(PTRS * PTRS), blocks : [Slots -> Sectors \cup {Junk}]]

TypeOK ==
  /\ used \subseteq Sectors /\ Reserved \subseteq used
  /\ \A s \in Sectors : oi[s] = NoInode \/ (oi[s].ino \in InodeRecs /\ oi[s].cnt \in Nat \ {0})
  /\ \A s \in Sectors : inodeDisk[s] = NoInode \/ inodeDisk[s] \in InodeRecs
  /\ dirent \in [Names -> Sectors \cup {NoInum}] /\ fd \in [Names -> Sectors \cup {NoInum}]
  /\ ex = NoCall \/ /\ ex.call \in {"create", "write"} /\ ex.ino \in InodeRecs
                    /\ ex.extra \in Nat
                    /\ ex.pc \in {"direct", "indirect", "iloop", "double", "dloop",
                                 "leaf", "ok", "fail"}
  /\ ops \in 0..MaxOps

\* A file still in use: named in the directory, or open.
Live == {s \in Sectors : oi[s] # NoInode \/ \E n \in Names : dirent[n] = s}

\* The inode of a live file: the open struct inode, else the disk inode.
InoOf(s) == IF oi[s] # NoInode THEN oi[s].ino ELSE inodeDisk[s]

\* Every sector a live file relies on: its inode, the data block of each
\* block index below its length, and the index blocks those go through.
Claims ==
  UNION {LET ino == InoOf(s)
             nd  == BytesToSectors(ino.length)
             nb  == (nd - DIRECT_BLOCKS - PTRS + PTRS - 1) \div PTRS
         IN  {<<s, "inode", 0>>}
             \cup {<<s, "data", k>> : k \in 0..(nd - 1)}
             \cup (IF nd > DIRECT_BLOCKS THEN {<<s, "ind", 0>>} ELSE {})
             \cup (IF nd > DIRECT_BLOCKS + PTRS THEN {<<s, "dbl", 0>>} ELSE {})
             \cup {<<s, "leaf", b>> : b \in 0..(nb - 1)}
         : s \in Live}

ClaimSector(c) ==
  LET ino == InoOf(c[1]) IN
  CASE c[2] = "inode" -> c[1]
    [] c[2] = "data"  -> BlockOf(ino, ptrDisk, c[3])
    [] c[2] = "ind"   -> ino.blocks[DIRECT_BLOCKS]
    [] c[2] = "dbl"   -> ino.blocks[DIRECT_BLOCKS + 1]
    [] c[2] = "leaf"  -> Ptr(ptrDisk, ino.blocks[DIRECT_BLOCKS + 1], c[3])

\* The block map is sound: every sector a live file relies on (through the
\* blocks[] of its inode and the index blocks on disk) is a real sector the
\* free map has in use, outside the reserved ones, and no sector serves two
\* purposes.  inode_expand's allocations, its early returns and the index
\* blocks it writes back, and the frees of inode_close must keep this.
BlockMapSound ==
  /\ \A c \in Claims : ClaimSector(c) \in used \ Reserved
  /\ Cardinality({ClaimSector(c) : c \in Claims}) = Cardinality(Claims)

\* The contents of live file s, read as inode_read_at reads them.
ByteAt(s, pos) ==
  LET t == ByteToSector(InoOf(s), ptrDisk, pos) IN
  IF t = Junk THEN Garbage ELSE Payload(cache, t)[pos % DISK_SECTOR_SIZE]

Store == INSTANCE FileStore
           WITH Inums <- Sectors, NoFile <- NoInode,
                files <- [s \in Sectors |->
                           IF s \in Live THEN [k \in 1..InoOf(s).length |-> ByteAt(s, k - 1)]
                           ELSE NoInode],
                names <- dirent, handles <- fd

\* The file system behaves as a store of byte sequences (FileStore): a
\* created file reads as zeros, a read returns what was last written, a
\* write past the end zero-fills the gap, and no call changes another
\* file; across creates, writes that grow files, removes and reuse of
\* freed sectors through the buffer cache.
InodeImplementsFileStore == Store!Spec

=============================================================================
