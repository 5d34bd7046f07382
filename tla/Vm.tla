--------------------------------- MODULE Vm ---------------------------------
(***************************************************************************)
(* The virtual-memory layer of project 3: the supplemental page table and *)
(* load_page (vm/page.c), the frame table with allocate_frame and          *)
(* victim_frame (vm/frame.c), the swap bitmap with swap_out and swap_in    *)
(* (vm/swap.c), and process exit (destroy_spt).  Each process is one user *)
(* thread that reads and writes its pages; an access to a page without a  *)
(* present PTE faults, and the handler (userprog/exception.c, outside      *)
(* src/) runs load_page in the faulting thread.  Steps of different        *)
(* processes interleave at every point where the kernel may be preempted.  *)
(***************************************************************************)
EXTENDS Integers, Sequences, SequencesExt

CONSTANTS
  Procs,            \* user processes, one thread each
  Pages,            \* user virtual pages (same addresses in every process)
  FilePages,        \* pages the loader installs as FILE pages (read_bytes > 0)
  PartialPages,     \* FILE pages with 0 < read_bytes < PGSIZE (a segment's end)
  Frames,           \* the frames of the user pool
  Data,             \* values a process writes
  FileData,         \* contents of the executable's pages
  Zero,             \* a zeroed page
  StaleTail,        \* a file page's bytes followed by a frame's old bytes
  SwapSize,         \* sectors of the swap disk
  SECTORS_PER_PAGE, \* swap.h:15 (8 in the code)
  NoProc, NoFrame, NoValue,
  MaxOps            \* accesses each process performs

StackPages == Pages \ FilePages

ASSUME PartialPages \subseteq FilePages
Kinds == {"FILE", "STACK", "SWAPPED", "MMAP"}
Sectors == 0..(SwapSize - 1)
BITMAP_ERROR == -1

VARIABLES
  spt,        \* spt[p][g]: the SPTE of page g of p (ins: in the hash table)
  pte,        \* pte[p][g]: the page-table entry of g in p's page directory
  frameTable, \* frame_table: a list of [frame, owner, sp] (sp: the SPTE's <<p, g>>)
  freeFrames, \* frames palloc_get_page(PAL_USER) can return
  frameData,  \* contents of each frame
  swapBits,   \* swap_table: the bitmap of used swap sectors
  swapData,   \* contents of each swap sector
  frameLock,  \* holder of frame_table_lock
  pc,         \* where each process is
  fpage,      \* the faulting page of each process
  fkind,      \* the kind load_page dispatched on
  fframe,     \* the frame allocate_frame returned (or is evicting)
  slot,       \* the index swap_out returned
  ops,        \* accesses each process has still to perform
  buf,        \* the value each process read last
  panicked    \* the kernel has panicked (swap device full)

vars == <<spt, pte, frameTable, freeFrames, frameData, swapBits, swapData,
          frameLock, pc, fpage, fkind, fframe, slot, ops, buf, panicked>>

-----------------------------------------------------------------------------
(* Pure helpers.                                                            *)

\* The kind load_page_swap gives back to a swapped-in page from the SPTE's
\* file and map_id fields (page.c:213-218).
RestoredKind(e) ==
  IF e.file /\ ~e.mapped THEN "FILE" ELSE IF e.file THEN "MMAP" ELSE "STACK"

\* bitmap_scan_and_flip(swap_table, 0, SECTORS_PER_PAGE, false): the first
\* run of SECTORS_PER_PAGE free sectors (swap.c:67), or BITMAP_ERROR.
SwapScan(bits) ==
  LET starts == {i \in 0..(SwapSize - SECTORS_PER_PAGE) :
                   \A j \in i..(i + SECTORS_PER_PAGE - 1) : ~bits[j]}
  IN  IF starts = {} THEN BITMAP_ERROR ELSE Min(starts)

Run(i) == i..(i + SECTORS_PER_PAGE - 1)

\* One iteration of the loop of victim_frame (frame.c:128-144): the class of
\* an entry is read from the accessed and dirty bits of the CURRENT
\* thread's page directory at the entry's user address.
Classify(c, acc, e) ==
  LET a == pte[c][e.sp[2]].a
      d == pte[c][e.sp[2]].d
  IN  IF a /\ d /\ acc[3] = NoFrame THEN [acc EXCEPT ![3] = e.frame]
      ELSE IF a /\ ~d /\ acc[2] = NoFrame THEN [acc EXCEPT ![2] = e.frame]
      ELSE IF ~a /\ d /\ acc[1] = NoFrame THEN [acc EXCEPT ![1] = e.frame]
      ELSE IF acc[0] = NoFrame THEN [acc EXCEPT ![0] = e.frame]
      ELSE acc

\* victim_frame() run by process c (frame.c:120-152).
VictimFrame(c) ==
  LET f == FoldLeft(LAMBDA acc, e : Classify(c, acc, e), [k \in 0..3 |-> NoFrame], frameTable)
  IN  IF f[0] # NoFrame THEN f[0] ELSE IF f[1] # NoFrame THEN f[1]
      ELSE IF f[2] # NoFrame THEN f[2] ELSE f[3]

\* The position of frame f in the frame table.
EntryOf(f) == SelectInSeq(frameTable, LAMBDA e : e.frame = f)

-----------------------------------------------------------------------------
(* The user thread of process p.                                            *)

\* p may access g: after a fault, the thread re-executes the faulting access.
CanAccess(p, g) ==
  /\ ~panicked /\ ops[p] > 0
  /\ \/ pc[p] = "user"
     \/ pc[p] = "retry" /\ g = fpage[p]

\* A load or store that finds a present PTE; the MMU sets the accessed bit,
\* and the dirty bit on a store.
ReadPage(p, g) ==
  /\ CanAccess(p, g) /\ pte[p][g].present
  /\ buf' = [buf EXCEPT ![p] = frameData[pte[p][g].frame]]
  /\ pte' = [pte EXCEPT ![p][g].a = TRUE]
  /\ ops' = [ops EXCEPT ![p] = @ - 1]
  /\ pc' = [pc EXCEPT ![p] = "user"]
  /\ UNCHANGED <<spt, frameTable, freeFrames, frameData, swapBits, swapData,
                 frameLock, fpage, fkind, fframe, slot, panicked>>

WritePage(p, g, v) ==
  /\ CanAccess(p, g) /\ pte[p][g].present
  /\ frameData' = [frameData EXCEPT ![pte[p][g].frame] = v]
  /\ pte' = [pte EXCEPT ![p][g].a = TRUE, ![p][g].d = TRUE]
  /\ ops' = [ops EXCEPT ![p] = @ - 1]
  /\ pc' = [pc EXCEPT ![p] = "user"]
  /\ UNCHANGED <<spt, frameTable, freeFrames, swapBits, swapData, frameLock,
                 fpage, fkind, fframe, slot, buf, panicked>>

\* The page fault on g: get_page, and for a stack address with no SPTE
\* allocate_page_stack, whose file and map_id fields are left
\* uninitialized (page.c:76-86); then load_page dispatches on the kind
\* (page.c:98-113).  A fault on a page already loaded returns at once.
Fault(p, g) ==
  LET e == spt[p][g] IN
  /\ CanAccess(p, g) /\ ~pte[p][g].present /\ ~(e.ins /\ e.loaded)
  /\ \/ /\ ~e.ins /\ g \in StackPages
        /\ \E fl, mp \in BOOLEAN :
             spt' = [spt EXCEPT ![p][g] = [e EXCEPT !.kind = "STACK",
                       !.loaded = FALSE, !.file = fl, !.mapped = mp]]
        /\ fkind' = [fkind EXCEPT ![p] = "STACK"]
     \/ /\ e.ins
        /\ fkind' = [fkind EXCEPT ![p] = e.kind]
        /\ UNCHANGED spt
  /\ fpage' = [fpage EXCEPT ![p] = g]
  /\ pc' = [pc EXCEPT ![p] = "alloc"]
  /\ UNCHANGED <<pte, frameTable, freeFrames, frameData, swapBits, swapData,
                 frameLock, fframe, slot, ops, buf, panicked>>

\* allocate_frame (frame.c:28-58): a frame from the pool, zeroed for stack
\* and swap pages, linked into the frame table by insert_frame; when the
\* pool is empty, frame_table_lock is taken and victim_frame chooses.
Alloc(p) ==
  LET zero == fkind[p] \in {"STACK", "SWAPPED"} IN
  /\ ~panicked /\ pc[p] = "alloc" /\ frameLock = NoProc
  /\ IF freeFrames # {}
       THEN LET f == CHOOSE f \in freeFrames : TRUE IN
            /\ freeFrames' = freeFrames \ {f}
            /\ frameTable' = Append(frameTable,
                               [frame |-> f, owner |-> p, sp |-> <<p, fpage[p]>>])
            /\ frameData' = [frameData EXCEPT ![f] = IF zero THEN Zero ELSE @]
            /\ fframe' = [fframe EXCEPT ![p] = f]
            /\ pc' = [pc EXCEPT ![p] = "fill"]
            /\ UNCHANGED frameLock
       ELSE /\ frameLock' = p
            /\ fframe' = [fframe EXCEPT ![p] = VictimFrame(p)]
            /\ pc' = [pc EXCEPT ![p] = "swapout"]
            /\ UNCHANGED <<freeFrames, frameTable, frameData>>
  /\ UNCHANGED <<spt, pte, swapBits, swapData, fpage, fkind, slot, ops, buf,
                 panicked>>

\* Mutant: the BITMAP_ERROR test of swap_out dropped.
SwapOutNoCheck(p) ==
  LET i == SwapScan(swapBits) IN
  /\ ~panicked /\ pc[p] = "swapout"
  /\ swapBits' = [j \in Sectors |-> j \in Run(i) \/ swapBits[j]]
  /\ swapData' = [j \in Sectors |-> IF j \in Run(i) THEN frameData[fframe[p]] ELSE swapData[j]]
  /\ slot' = [slot EXCEPT ![p] = i]
  /\ pc' = [pc EXCEPT ![p] = "retarget"]
  /\ UNCHANGED <<spt, pte, frameTable, freeFrames, frameData, frameLock, fpage,
                 fkind, fframe, ops, buf, panicked>>

\* Mutant: bitmap_scan in place of bitmap_scan_and_flip; the slot stays free.
SwapOutNoFlip(p) ==
  LET i == SwapScan(swapBits) IN
  /\ ~panicked /\ pc[p] = "swapout"
  /\ IF i = BITMAP_ERROR
       THEN panicked' = TRUE /\ UNCHANGED <<swapData, slot, pc>>
       ELSE /\ swapData' = [j \in Sectors |-> IF j \in Run(i) THEN frameData[fframe[p]] ELSE swapData[j]]
            /\ slot' = [slot EXCEPT ![p] = i]
            /\ pc' = [pc EXCEPT ![p] = "retarget"]
            /\ UNCHANGED panicked
  /\ UNCHANGED <<spt, pte, frameTable, freeFrames, frameData, frameLock, fpage,
                 fkind, fframe, ops, buf, swapBits>>

\* swap_out of the victim's frame (swap.c:63-80), under swap_lock: the
\* kernel panics when no run of free sectors is left.
SwapOut(p) ==
  LET i == SwapScan(swapBits) IN
  /\ ~panicked /\ pc[p] = "swapout"
  /\ IF i = BITMAP_ERROR
       THEN panicked' = TRUE /\ UNCHANGED <<swapBits, swapData, slot, pc>>
       ELSE /\ swapBits' = [j \in Sectors |-> j \in Run(i) \/ swapBits[j]]
            /\ swapData' = [j \in Sectors |->
                              IF j \in Run(i) THEN frameData[fframe[p]] ELSE swapData[j]]
            /\ slot' = [slot EXCEPT ![p] = i]
            /\ pc' = [pc EXCEPT ![p] = "retarget"]
            /\ UNCHANGED panicked
  /\ UNCHANGED <<spt, pte, frameTable, freeFrames, frameData, frameLock, fpage,
                 fkind, fframe, ops, buf>>

\* Mutant: pagedir_clear_page of the victim's owner dropped.
RetargetNoClear(p) ==
  LET k == EntryOf(fframe[p])
      e == frameTable[k]
  IN
  /\ ~panicked /\ pc[p] = "retarget"
  /\ spt' = [spt EXCEPT ![e.sp[1]][e.sp[2]].loaded = FALSE,
                        ![e.sp[1]][e.sp[2]].kind = "SWAPPED",
                        ![e.sp[1]][e.sp[2]].index = slot[p]]
  /\ frameTable' = [frameTable EXCEPT ![k] =
                      [frame |-> e.frame, owner |-> p, sp |-> <<p, fpage[p]>>]]
  /\ frameLock' = NoProc
  /\ frameData' = [frameData EXCEPT ![e.frame] =
                     IF fkind[p] \in {"STACK", "SWAPPED"} THEN Zero ELSE @]
  /\ pc' = [pc EXCEPT ![p] = "fill"]
  /\ UNCHANGED <<pte, freeFrames, swapBits, swapData, fpage, fkind, fframe, slot,
                 ops, buf, panicked>>

\* Mutant: frame_table_lock is not released.
RetargetKeepLock(p) ==
  LET k == EntryOf(fframe[p])
      e == frameTable[k]
  IN
  /\ ~panicked /\ pc[p] = "retarget"
  /\ spt' = [spt EXCEPT ![e.sp[1]][e.sp[2]].loaded = FALSE,
                        ![e.sp[1]][e.sp[2]].kind = "SWAPPED",
                        ![e.sp[1]][e.sp[2]].index = slot[p]]
  /\ pte' = [pte EXCEPT ![e.owner][e.sp[2]].present = FALSE]
  /\ frameTable' = [frameTable EXCEPT ![k] =
                      [frame |-> e.frame, owner |-> p, sp |-> <<p, fpage[p]>>]]
  /\ frameData' = [frameData EXCEPT ![e.frame] =
                     IF fkind[p] \in {"STACK", "SWAPPED"} THEN Zero ELSE @]
  /\ pc' = [pc EXCEPT ![p] = "fill"]
  /\ UNCHANGED <<freeFrames, swapBits, swapData, fpage, fkind, fframe, slot,
                 ops, buf, panicked, frameLock>>

\* The rest of the eviction (frame.c:42-54): the victim's SPTE becomes a
\* SWAPPED page at the slot, the owner's PTE is cleared, the entry is
\* retargeted to the faulting process and the lock released.
Retarget(p) ==
  LET k == EntryOf(fframe[p])
      e == frameTable[k]
      h == e.sp[2]
  IN
  /\ ~panicked /\ pc[p] = "retarget"
  /\ spt' = [spt EXCEPT ![e.sp[1]][h].loaded = FALSE,
                        ![e.sp[1]][h].kind = "SWAPPED",
                        ![e.sp[1]][h].index = slot[p]]
  /\ pte' = [pte EXCEPT ![e.owner][h].present = FALSE]
  /\ frameTable' = [frameTable EXCEPT ![k] =
                      [frame |-> e.frame, owner |-> p, sp |-> <<p, fpage[p]>>]]
  /\ frameLock' = NoProc
  /\ frameData' = [frameData EXCEPT ![e.frame] =
                     IF fkind[p] \in {"STACK", "SWAPPED"} THEN Zero ELSE @]
  /\ pc' = [pc EXCEPT ![p] = "fill"]
  /\ UNCHANGED <<freeFrames, swapBits, swapData, fpage, fkind, fframe, slot,
                 ops, buf, panicked>>

\* swap_in(index, frame) (swap.c:36-47): under swap_lock, each sector of
\* the slot is flipped (to free) and read into the frame.
SwapIn(i, f) ==
  /\ swapBits' = [j \in Sectors |-> IF j \in Run(i) THEN ~swapBits[j] ELSE swapBits[j]]
  /\ frameData' = [frameData EXCEPT ![f] = swapData[i]]

\* A FILE page's frame after file_read_at of read_bytes (page.c:124-135):
\* the whole page for a full one; for a partial one, whose frame is not
\* zeroed (allocate_frame with zero_bytes != PGSIZE, the memset of the tail
\* commented out), the file's bytes and whatever the frame held after them,
\* zero only when the frame was zeroed before.
FileFill(g, old) ==
  IF g \notin PartialPages \/ old = Zero THEN {FileData} ELSE {FileData, StaleTail}

\* Filling the frame (page.c:124-136, 186, 207): file_read_at of the page's
\* bytes, under filesys_lock; hash_insert of a new stack page's SPTE; or
\* swap_in from the slot the SPTE records now (swap.c:36-47), which flips
\* the slot's sectors free.
Fill(p) ==
  LET g == fpage[p]
      i == spt[p][g].index
  IN
  /\ ~panicked /\ pc[p] = "fill"
  /\ CASE fkind[p] = "FILE" ->
            /\ \E v \in FileFill(g, frameData[fframe[p]]) :
                 frameData' = [frameData EXCEPT ![fframe[p]] = v]
            /\ UNCHANGED <<spt, swapBits>>
       [] fkind[p] = "STACK" ->
            /\ spt' = [spt EXCEPT ![p][g].ins = TRUE]
            /\ UNCHANGED <<frameData, swapBits>>
       [] fkind[p] = "SWAPPED" ->
            /\ SwapIn(i, fframe[p])
            /\ UNCHANGED spt
  /\ pc' = [pc EXCEPT ![p] = "map"]
  /\ UNCHANGED <<pte, frameTable, freeFrames, swapData, frameLock, fpage, fkind,
                 fframe, slot, ops, buf, panicked>>

\* pagedir_set_page with a fresh PTE, then loaded = true; a swapped-in page
\* is given back a kind from its file and map_id fields (page.c:137-143,
\* 191-197, 208-220).
Map(p) ==
  LET g == fpage[p] IN
  /\ ~panicked /\ pc[p] = "map"
  /\ pte' = [pte EXCEPT ![p][g] = [present |-> TRUE, frame |-> fframe[p],
                                   a |-> FALSE, d |-> FALSE]]
  /\ spt' = [spt EXCEPT ![p][g].loaded = TRUE,
                        ![p][g].kind = IF fkind[p] = "SWAPPED"
                                         THEN RestoredKind(spt[p][g]) ELSE @]
  /\ pc' = [pc EXCEPT ![p] = "retry"]
  /\ UNCHANGED <<frameTable, freeFrames, frameData, swapBits, swapData,
                 frameLock, fpage, fkind, fframe, slot, ops, buf, panicked>>

\* free_frame for each frame of fs (frame.c:71-88): its entry, if the
\* frame table has one, is removed and the frame given back to palloc.
FreeFrame(fs) ==
  LET found == fs \cap {e.frame : e \in ToSet(frameTable)} IN
  /\ frameTable' = SelectSeq(frameTable, LAMBDA e : e.frame \notin found)
  /\ freeFrames' = freeFrames \cup found

\* Process exit: destroy_spt (page.c:223-248) frees, through free_frame
\* (frame.c:71-88), the frame its PTE maps for every loaded page, then the
\* SPTEs; the page directory is destroyed.  Swap slots are not released.
Exit(p) ==
  LET loaded == {g \in Pages : spt[p][g].ins /\ spt[p][g].loaded /\ pte[p][g].present}
      frames == {pte[p][g].frame : g \in loaded}
  IN
  /\ ~panicked /\ pc[p] = "user" /\ ops[p] = 0 /\ frameLock = NoProc
  /\ FreeFrame(frames)
  /\ spt' = [spt EXCEPT ![p] = [g \in Pages |-> [@[g] EXCEPT !.ins = FALSE]]]
  /\ pte' = [pte EXCEPT ![p] = [g \in Pages |-> [@[g] EXCEPT !.present = FALSE]]]
  /\ pc' = [pc EXCEPT ![p] = "done"]
  /\ UNCHANGED <<frameData, swapBits, swapData, frameLock, fpage, fkind, fframe,
                 slot, ops, buf, panicked>>

-----------------------------------------------------------------------------

\* The loader has installed the FILE pages of each process, none loaded;
\* stack pages are created by the first fault on them.
Init ==
  /\ spt = [p \in Procs |-> [g \in Pages |->
             [ins |-> g \in FilePages, kind |-> IF g \in FilePages THEN "FILE" ELSE "STACK",
              loaded |-> FALSE, file |-> g \in FilePages, mapped |-> FALSE, index |-> 0]]]
  /\ pte = [p \in Procs |-> [g \in Pages |->
             [present |-> FALSE, frame |-> NoFrame, a |-> FALSE, d |-> FALSE]]]
  /\ frameTable = <<>>
  /\ freeFrames = Frames
  /\ frameData = [f \in Frames |-> NoValue]
  /\ swapBits = [j \in Sectors |-> FALSE]
  /\ swapData = [j \in Sectors |-> NoValue]
  /\ frameLock = NoProc
  /\ pc = [p \in Procs |-> "user"]
  /\ fpage = [p \in Procs |-> CHOOSE g \in Pages : TRUE]
  /\ fkind = [p \in Procs |-> "FILE"]
  /\ fframe = [p \in Procs |-> NoFrame]
  /\ slot = [p \in Procs |-> 0]
  /\ ops = [p \in Procs |-> MaxOps]
  /\ buf = [p \in Procs |-> NoValue]
  /\ panicked = FALSE

Step(p) ==
  \/ \E g \in Pages : ReadPage(p, g) \/ Fault(p, g) \/ \E v \in Data : WritePage(p, g, v)
  \/ Alloc(p) \/ SwapOut(p) \/ Retarget(p) \/ Fill(p) \/ Map(p) \/ Exit(p)

\* Every process has exited, or the kernel has panicked: the system stops.
Halted == panicked \/ \A p \in Procs : pc[p] = "done"

Next == (\E p \in Procs : Step(p)) \/ (Halted /\ UNCHANGED vars)

\* Each user thread that can run is eventually scheduled (timer preemption).
Spec == Init /\ [][Next]_vars /\ \A p \in Procs : WF_vars(Step(p))

-----------------------------------------------------------------------------
(* Properties.                                                              *)

PTEs == [present : BOOLEAN, frame : Frames \cup {NoFrame}, a : BOOLEAN, d : BOOLEAN]
SPTEs == [ins : BOOLEAN, kind : Kinds, loaded : BOOLEAN, file : BOOLEAN,
          mapped : BOOLEAN, index : Sectors]
PCs == {"user", "retry", "alloc", "swapout", "retarget", "fill", "map", "done"}

TypeOK ==
  /\ spt \in [Procs -> [Pages -> SPTEs]]
  /\ pte \in [Procs -> [Pages -> PTEs]]
  /\ frameTable \in Seq([frame : Frames, owner : Procs, sp : Procs \X Pages])
  /\ freeFrames \subseteq Frames
  /\ frameLock \in Procs \cup {NoProc}
  /\ pc \in [Procs -> PCs] /\ fframe \in [Procs -> Frames \cup {NoFrame}]
  /\ ops \in [Procs -> 0..MaxOps]

\* The page p is loading right now.
InFault(p, g) == pc[p] \in {"alloc", "swapout", "retarget", "fill", "map"} /\ fpage[p] = g

\* Spec P6 and the data model of the frame table: an SPTE is loaded exactly
\* when one frame-table entry points to it and its PTE maps that entry's
\* frame, and no frame is mapped by two pages.  allocate_frame, eviction
\* (frame.c:39-49), load_page and destroy_spt must keep the three
\* structures in step while faults evict the process's own other pages
\* (with two processes, an eviction takes a frame still being filled:
\* MCVmSteal.cfg).
FrameSpteBiconditional ==
  /\ \A p \in Procs, g \in Pages :
       spt[p][g].ins /\ spt[p][g].loaded =>
         /\ pte[p][g].present
         /\ \E i \in DOMAIN frameTable :
              /\ frameTable[i].sp = <<p, g>> /\ frameTable[i].frame = pte[p][g].frame
              /\ \A j \in DOMAIN frameTable : frameTable[j].sp = <<p, g>> => j = i
  /\ \A i \in DOMAIN frameTable :
       LET q == frameTable[i].sp[1]
           h == frameTable[i].sp[2]
       IN  ~InFault(q, h) =>
             spt[q][h].loaded /\ pte[q][h].present /\ pte[q][h].frame = frameTable[i].frame
  /\ \A p1, p2 \in Procs, g1, g2 \in Pages :
       pte[p1][g1].present /\ pte[p2][g2].present /\ <<p1, g1>> # <<p2, g2>> =>
         pte[p1][g1].frame # pte[p2][g2].frame

\* The contents of page g as process p sees them: its frame when mapped,
\* its swap slot when swapped out, else the page's initial contents.
Initial == [g \in Pages |-> IF g \in FilePages THEN FileData ELSE Zero]
Content(p, g) ==
  IF pc[p] = "done" THEN NoValue
  ELSE IF pte[p][g].present THEN frameData[pte[p][g].frame]
  ELSE IF spt[p][g].ins /\ spt[p][g].kind = "SWAPPED" THEN swapData[spt[p][g].index]
  ELSE Initial[g]

Memory == INSTANCE VirtualMemory
            WITH mem <- [p \in Procs |-> [g \in Pages |-> Content(p, g)]],
                 left <- ops

\* Paging is invisible to a process (spec P7, swap round-trip, and the
\* contract of 4.3): every load returns the last value stored to the page,
\* through any number of evictions, swap-outs and swap-ins.  A partial
\* FILE page breaks it (FileFill: MCVmPartial.cfg).
MemoryImplementsVirtualMemory == Memory!Spec

\* Every process runs all its accesses and exits, unless the kernel panics.
AllDone == <>Halted

\* Spec 4.3, eviction policy: the victim is the first frame of the lowest
\* class (not accessed, not dirty) < (not accessed, dirty) < (accessed,
\* not dirty) < (accessed, dirty), by the accessed and dirty bits of the
\* victim's PTE in its owner's page directory.  victim_frame (frame.c:120-152)
\* chooses it.
PolicyClass(e) ==
  LET b == pte[e.owner][e.sp[2]] IN
  (IF b.a THEN 2 ELSE 0) + (IF b.d THEN 1 ELSE 0)
PolicyVictim ==
  LET m == Min({PolicyClass(frameTable[i]) : i \in DOMAIN frameTable})
      k == SelectInSeq(frameTable, LAMBDA e : PolicyClass(e) = m)
  IN  frameTable[k].frame
VictimFollowsPolicy ==
  [][\A p \in Procs : pc[p] = "alloc" /\ pc'[p] = "swapout" => fframe'[p] = PolicyVictim]_vars

\* Spec 4.3: a swapped-in page is reclassified to its original kind, so a
\* loaded page is a FILE page if the loader installed it and a STACK page
\* otherwise; load_page_swap decides it from the SPTE's file and map_id
\* fields (page.c:213-218).
KindRestored ==
  \A p \in Procs, g \in Pages :
    spt[p][g].ins /\ spt[p][g].loaded =>
      spt[p][g].kind = IF g \in FilePages THEN "FILE" ELSE "STACK"

\* Spec 3, swap: a swap slot is either free or holds exactly one evicted
\* page.  The used sectors are exactly the slots of the swapped-out pages
\* of live processes and the slot an eviction has just written; swap_in
\* frees a slot (swap.c:43) and nothing else may leave one in use.
SwappedOut(q, h) ==
  /\ pc[q] # "done" /\ spt[q][h].ins /\ spt[q][h].kind = "SWAPPED"
  /\ ~(pc[q] = "map" /\ fpage[q] = h)
OwnedSectors ==
  UNION {IF SwappedOut(q, h) THEN Run(spt[q][h].index) ELSE {} : q \in Procs, h \in Pages}
  \cup UNION {IF pc[q] = "retarget" THEN Run(slot[q]) ELSE {} : q \in Procs}
SwapSlotsOwned == {j \in Sectors : swapBits[j]} = OwnedSectors

=============================================================================
