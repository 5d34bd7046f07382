---------------------------- MODULE BufferCache ----------------------------
(***************************************************************************)
(* The buffer cache of project 4 (filesys/cache.c) as used by            *)
(* inode_read_at and inode_write_at (filesys/inode.c) for one sector-sized *)
(* chunk, called from the READ, WRITE and READDIR system calls             *)
(* (userprog/syscall.c).  READ and WRITE hold filesys_lock; READDIR does  *)
(* not.  cache_get_sector scans the list without buffer_cache_lock; on a  *)
(* miss cache_fetch_sector takes the lock, picks a new or a victim entry   *)
(* (writing it back if dirty), relabels it and reads the sector from disk. *)
(* A caller copies its chunk after the lock is released.                   *)
(*                                                                         *)
(*   pc = "get"      about to scan the cache (inode.c:322)                 *)
(*   pc = "fetch"    missed, about to call cache_fetch_sector (inode.c:324)*)
(*   pc = "relabel"  holds buffer_cache_lock, entry chosen, any write-back *)
(*                   issued (cache.c:39-53)                                *)
(*   pc = "read"     entry relabelled, disk_read in progress (cache.c:58)  *)
(*   pc = "copy"     has an entry, about to memcpy (inode.c:326/401)       *)
(***************************************************************************)
EXTENDS Naturals, Sequences, SequencesExt

CONSTANTS
  Procs,       \* threads making file-system calls
  Unlocked,    \* those reading through READDIR, without filesys_lock
  Sectors,     \* disk sectors
  Values,      \* contents a WRITE may put in a sector
  V0,          \* contents of every sector at boot
  NoValue,     \* a caller's buffer before its first read
  Junk,        \* payload of a freshly malloc'ed entry
  NoSector,    \* an uninitialized sector_num matching no sector
  FreshSectors, \* what sector_num of a malloc'ed entry may hold
  NoProc,      \* a free lock
  CACHE_SIZE,  \* 64 in cache.c:39
  MaxOps,      \* calls each thread makes
  MaxTicks     \* bound of timer_ticks()

ASSUME /\ Unlocked \subseteq Procs /\ V0 \notin Values
       /\ NoSector \in FreshSectors /\ FreshSectors \subseteq Sectors \cup {NoSector}
       /\ CACHE_SIZE \in Nat \ {0} /\ MaxOps \in Nat /\ MaxTicks \in Nat

VARIABLES
  disk,       \* contents of the sectors on disk
  cache,      \* buffer_cache: a sequence of struct cache_entry
  ticks,      \* timer_ticks()
  cacheLock,  \* buffer_cache_lock holder
  fsLock,     \* filesys_lock holder
  pc, op,     \* each thread's place and the call it is making
  slot,       \* the entry index the thread works with
  ops,        \* calls each thread still makes
  buf,        \* each caller's buffer (what its last read copied)
  shut        \* filesys_done has run free_cache

vars == <<disk, cache, ticks, cacheLock, fsLock, pc, op, slot, ops, buf, shut>>

AllValues == Values \cup {V0}

Entries == [sec : Sectors \cup {NoSector}, accessed : BOOLEAN,
            dirty : BOOLEAN, time : 0..MaxTicks,
            payload : AllValues \cup {Junk}]

Ops == [kind : {"read"}, sec : Sectors, val : {NoValue}]
         \cup [kind : {"write"}, sec : Sectors, val : Values]

IsWrite(p) == op[p].kind = "write"

-----------------------------------------------------------------------------
(* Cache lookup and replacement.                                            *)

\* Mutant: the scan stops one entry early.
FindSectorSkipLast(s) ==
  SelectInSeq(SubSeq(cache, 1, Len(cache) - 1), LAMBDA e : e.sec = s)

\* cache_get_sector (cache.c:19-33): index of the first entry whose
\* sector_num is s, 0 if none.
FindSector(s) == SelectInSeq(cache, LAMBDA e : e.sec = s)

\* victim_sector (cache.c:84-101): the first entry not accessed, else the
\* first of least access_time.
VictimSector ==
  LET unacc == SelectInSeq(cache, LAMBDA e : ~e.accessed)
      least == Min({cache[i].time : i \in DOMAIN cache})
  IN  IF unacc # 0 THEN unacc ELSE SelectInSeq(cache, LAMBDA e : e.time = least)

\* Mutant: a dirty entry is dropped without disk_write.
WriteBackNever(d, e) == d

\* disk_write of an entry if it is dirty (cache.c:51-52, 72-73).
WriteBack(d, e) == IF e.dirty THEN [d EXCEPT ![e.sec] = e.payload] ELSE d

\* Mutant: buffer_cache_size <= 64.
HasRoomOffByOne == Len(cache) <= CACHE_SIZE

\* buffer_cache_size < 64 (cache.c:39): buffer_cache_size counts the
\* entries ever linked in, which is the length of the list.
HasRoom == Len(cache) < CACHE_SIZE

-----------------------------------------------------------------------------
(* Steps of thread p.                                                       *)

\* A READ or WRITE (syscall.c:127-181) takes filesys_lock; a READDIR
\* (syscall.c:248-262) reads a directory sector without it.
Begin(p) ==
  /\ pc[p] = "idle" /\ ops[p] > 0 /\ ~shut
  /\ \E o \in Ops : /\ p \in Unlocked => o.kind = "read"
                    /\ op' = [op EXCEPT ![p] = o]
  /\ IF p \in Unlocked THEN UNCHANGED fsLock
     ELSE fsLock = NoProc /\ fsLock' = p
  /\ pc' = [pc EXCEPT ![p] = "get"]
  /\ UNCHANGED <<disk, cache, ticks, cacheLock, slot, ops, buf, shut>>

\* cache_get_sector(sector, set_dirty), without any lock.
Get(p) ==
  LET i == FindSector(op[p].sec) IN
  /\ pc[p] = "get"
  /\ IF i = 0
       THEN /\ pc' = [pc EXCEPT ![p] = "fetch"]
            /\ UNCHANGED <<cache, slot>>
       ELSE /\ cache' = [cache EXCEPT ![i].accessed = TRUE, ![i].time = ticks,
                                      ![i].dirty = @ \/ IsWrite(p)]
            /\ slot' = [slot EXCEPT ![p] = i]
            /\ pc' = [pc EXCEPT ![p] = "copy"]
  /\ UNCHANGED <<disk, ticks, cacheLock, fsLock, op, ops, buf, shut>>

\* cache_fetch_sector up to the disk_read (cache.c:36-53): below 64
\* entries a new entry is malloc'ed and linked in with its fields not yet
\* set (its sector_num is whatever the memory held); otherwise the victim
\* is written back if dirty.
Fetch(p) ==
  /\ pc[p] = "fetch" /\ cacheLock = NoProc
  /\ cacheLock' = p
  /\ IF HasRoom
       THEN /\ \E g \in FreshSectors :
                 cache' = Append(cache, [sec |-> g, accessed |-> FALSE, dirty |-> FALSE,
                                         time |-> 0, payload |-> Junk])
            /\ slot' = [slot EXCEPT ![p] = Len(cache) + 1]
            /\ UNCHANGED disk
       ELSE /\ disk' = WriteBack(disk, cache[VictimSector])
            /\ slot' = [slot EXCEPT ![p] = VictimSector]
            /\ UNCHANGED cache
  /\ pc' = [pc EXCEPT ![p] = "relabel"]
  /\ UNCHANGED <<ticks, fsLock, op, ops, buf, shut>>

\* The fields of the entry are set for the new sector and disk_read is
\* issued (cache.c:54-58).
Relabel(p) ==
  /\ pc[p] = "relabel"
  /\ cache' = [cache EXCEPT ![slot[p]] = [@ EXCEPT !.sec = op[p].sec, !.accessed = TRUE,
                                          !.dirty = IsWrite(p), !.time = ticks]]
  /\ pc' = [pc EXCEPT ![p] = "read"]
  /\ UNCHANGED <<disk, ticks, cacheLock, fsLock, op, slot, ops, buf, shut>>

\* Mutant: buffer_cache_lock is not released.
ReadDoneKeepLock(p) ==
  /\ pc[p] = "read"
  /\ cache' = [cache EXCEPT ![slot[p]].payload = disk[op[p].sec]]
  /\ pc' = [pc EXCEPT ![p] = "copy"]
  /\ UNCHANGED <<disk, ticks, cacheLock, fsLock, op, slot, ops, buf, shut>>

\* disk_read completes, buffer_cache_lock is released (cache.c:58-61).
ReadDone(p) ==
  /\ pc[p] = "read"
  /\ cache' = [cache EXCEPT ![slot[p]].payload = disk[op[p].sec]]
  /\ cacheLock' = NoProc
  /\ pc' = [pc EXCEPT ![p] = "copy"]
  /\ UNCHANGED <<disk, ticks, fsLock, op, slot, ops, buf, shut>>

\* The memcpy out of (inode.c:326) or into (inode.c:401) the entry, and
\* the end of the system call, which releases filesys_lock.
Copy(p) ==
  /\ pc[p] = "copy"
  /\ IF IsWrite(p)
       THEN cache' = [cache EXCEPT ![slot[p]].payload = op[p].val] /\ UNCHANGED buf
       ELSE buf' = [buf EXCEPT ![p] = cache[slot[p]].payload] /\ UNCHANGED cache
  /\ fsLock' = IF p \in Unlocked THEN fsLock ELSE NoProc
  /\ ops' = [ops EXCEPT ![p] = @ - 1]
  /\ pc' = [pc EXCEPT ![p] = "idle"]
  /\ UNCHANGED <<disk, ticks, cacheLock, op, slot, shut>>

\* The timer interrupt advances timer_ticks().
Tick ==
  /\ ticks < MaxTicks /\ ~shut
  /\ ticks' = ticks + 1
  /\ UNCHANGED <<disk, cache, cacheLock, fsLock, pc, op, slot, ops, buf, shut>>

\* filesys_done calls free_cache (cache.c:64-80) once the threads are done:
\* every dirty entry is written back, in list order, and freed.
FreeCache ==
  /\ ~shut /\ \A p \in Procs : pc[p] = "idle" /\ ops[p] = 0
  /\ disk' = FoldLeft(WriteBack, disk, cache)
  /\ cache' = <<>>
  /\ shut' = TRUE
  /\ UNCHANGED <<ticks, cacheLock, fsLock, pc, op, slot, ops, buf>>

-----------------------------------------------------------------------------

\* filesys_init: buffer_cache_init leaves the cache empty (cache.c:13-17).
Init ==
  /\ disk = [s \in Sectors |-> V0]
  /\ cache = <<>>
  /\ ticks = 0
  /\ cacheLock = NoProc /\ fsLock = NoProc
  /\ pc = [p \in Procs |-> "idle"]
  /\ op = [p \in Procs |-> CHOOSE o \in Ops : o.kind = "read"]
  /\ slot = [p \in Procs |-> 0]
  /\ ops = [p \in Procs |-> MaxOps]
  /\ buf = [p \in Procs |-> NoValue]
  /\ shut = FALSE

Step(p) == Begin(p) \/ Get(p) \/ Fetch(p) \/ Relabel(p) \/ ReadDone(p) \/ Copy(p)

Next ==
  \/ \E p \in Procs : Step(p)
  \/ Tick \/ FreeCache
  \/ shut /\ UNCHANGED vars

\* Each thread keeps running while it can: its steps are enabled until it
\* blocks on a lock, which its holder releases within its own steps.  The
\* kernel shuts the file system down once the threads are done.
Fairness == /\ \A p \in Procs : WF_vars(Step(p))
            /\ WF_vars(FreeCache)

Spec == Init /\ [][Next]_vars /\ Fairness

-----------------------------------------------------------------------------
(* Properties.                                                              *)

TypeOK ==
  /\ disk \in [Sectors -> AllValues]
  /\ cache \in Seq(Entries) /\ Len(cache) <= CACHE_SIZE
  /\ ticks \in 0..MaxTicks
  /\ cacheLock \in Procs \cup {NoProc} /\ fsLock \in Procs \cup {NoProc}
  /\ pc \in [Procs -> {"idle", "get", "fetch", "relabel", "read", "copy"}]
  /\ op \in [Procs -> Ops] /\ slot \in [Procs -> 0..CACHE_SIZE]
  /\ ops \in [Procs -> 0..MaxOps] /\ buf \in [Procs -> AllValues \cup {NoValue, Junk}]
  /\ shut \in BOOLEAN

\* Entries that a fetch holding buffer_cache_lock is refilling.
Filling == {slot[p] : p \in {q \in Procs : pc[q] \in {"relabel", "read"}}}

Live == (DOMAIN cache) \ Filling

\* No sector is cached twice: cache_fetch_sector is only called after
\* cache_get_sector missed, and relies on nobody having fetched the sector
\* in between.
EntryUnique ==
  \A i, j \in Live : i # j => cache[i].sec # cache[j].sec

\* The contents a reader of sector s would get now: the first live entry
\* for s, else the disk.
Content(s) ==
  LET I == {i \in Live : cache[i].sec = s}
  IN  IF I = {} THEN disk[s] ELSE cache[Min(I)].payload

Store == INSTANCE SectorStore WITH content <- [s \in Sectors |-> Content(s)],
                                   left <- ops, buf <- buf

\* The cache with its write-back, LRU replacement and free_cache at
\* shutdown implements a store of sectors: every WRITE changes the
\* sector's contents to what it wrote, at the instant of its memcpy, and
\* every READ copies the sector's last written contents; no other step
\* (eviction, fetch, free_cache) changes what the sectors hold.
CacheImplementsStore == Store!Spec

\* Every call returns and the file system is shut down: no thread waits
\* forever for filesys_lock or buffer_cache_lock.
AllDone == <>shut

=============================================================================
