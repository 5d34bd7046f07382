------------------------------ MODULE FdTable ------------------------------
(***************************************************************************)
(* The per-process file table of Project 3 (userprog/syscall.c): the       *)
(* open_files array indexed by fd, filled by SYS_OPEN through get_free_fd, *)
(* used by FILESIZE/SEEK/TELL and emptied by SYS_CLOSE, and the mappings   *)
(* mmap lays out in the supplemental page table over a file_reopen'ed      *)
(* handle.  One process is modelled: its system calls run one at a time.   *)
(*                                                                         *)
(* A struct file * is a member of Handles; `live` are those allocated and  *)
(* not yet file_close'd.  An fd outside 0..NFD-1 indexes past the array:   *)
(* that read is undefined, and the model lets it yield NULL or a pointer   *)
(* that is not a live handle.  Passing such a pointer to file_* is         *)
(* recorded in `wild` (a record kept for the rest of the behaviour; the    *)
(* table itself is left as it was).  unmap (userprog/process.c) is not in the repository and  *)
(* is taken from spec.md 4.3: it removes the map id's pages and closes    *)
(* the mapping's handle, which it finds through those pages.              *)
(***************************************************************************)
EXTENDS Integers, FiniteSetsExt

CONSTANTS
    NFD,        \* capacity of open_files (128 in the code)
    Files,      \* files filesys_open can find
    FileLen,    \* FileLen[f]: length of f in pages
    Handles,    \* struct file objects the allocator can hand out
    FdArgs,     \* fds the process passes (in range and out of range)
    AddrArgs,   \* page-aligned, non-NULL user addresses passed to mmap
    UserTop,    \* first page at or above PHYS_BASE
    MaxMap,     \* bound on curr->map_id
    NULL,       \* the null pointer
    Garbage,    \* whatever lies past the end of open_files
    NoPage      \* a page with no MMAP entry

ASSUME NFD > 2 /\ AddrArgs \subseteq 1..(UserTop - 1)

\* Every page a mapping can reach, the ones at or above PHYS_BASE included.
Pages == 1..(UserTop + Max({FileLen[f] : f \in Files}))

VARIABLES
    slot,       \* slot[i]: open_files[i]
    live,       \* handles allocated and not yet closed
    hf,         \* hf[h]: the file handle h was opened on
    spt,        \* spt[p]: the MMAP entry of page p, [id, file], or NoPage
    mapId,      \* curr->map_id
    wild        \* a pointer that is not a live handle reached file_*

vars == <<slot, live, hf, spt, mapId, wild>>

Entry == [id : 1..MaxMap, file : Handles]

TypeOK ==
    /\ slot \in [0..(NFD - 1) -> Handles \cup {NULL}]
    /\ slot[0] = NULL /\ slot[1] = NULL
    /\ live \subseteq Handles
    /\ hf \in [Handles -> Files]
    /\ spt \in [Pages -> Entry \cup {NoPage}]
    /\ mapId \in 0..MaxMap
    /\ wild \in BOOLEAN

Init ==
    /\ slot = [i \in 0..(NFD - 1) |-> NULL]
    /\ live = {}
    /\ hf = [h \in Handles |-> CHOOSE f \in Files : TRUE]
    /\ spt = [p \in Pages |-> NoPage]
    /\ mapId = 0
    /\ wild = FALSE

-----------------------------------------------------------------------------
\* thread_current()->open_files[fd]: in range, the slot; past the array,
\* g, whatever the memory there holds (NULL or Garbage, chosen in Next).
Read(fd, g) == IF fd \in 0..(NFD - 1) THEN slot[fd] ELSE g

\* A pointer the file layer would dereference without it being a file.
Bad(p) == p \notin live \cup {NULL}

\* A mutant of FreeFd: the scan starts at 0.
FreeFdFromZero ==
    LET free == {i \in 0..(NFD - 1) : slot[i] = NULL}
    IN IF free = {} THEN -1 ELSE Min(free)

\* get_free_fd: the lowest free index from 2, or -1.
FreeFd ==
    LET free == {i \in 2..(NFD - 1) : slot[i] = NULL}
    IN IF free = {} THEN -1 ELSE Min(free)

\* A file_* call on a pointer that is not a file: the kernel is lost.
Lost ==
    /\ wild' = TRUE
    /\ UNCHANGED <<slot, live, hf, spt, mapId>>

\* SYS_OPEN of an existing file; filesys_open allocates a fresh handle.
\* When the table is full the call returns -1 and the handle stays open.
Open(f) ==
    /\ \E h \in Handles \ live :
        /\ live' = live \cup {h}
        /\ hf' = [hf EXCEPT ![h] = f]
        /\ slot' = IF FreeFd = -1 THEN slot ELSE [slot EXCEPT ![FreeFd] = h]
    /\ UNCHANGED <<spt, mapId, wild>>

\* SYS_FILESIZE, SYS_SEEK, SYS_TELL: open_files[fd] with no range check;
\* a NULL slot returns 0 / nothing / -1, a file is only read.
Inspect(fd, g) ==
    LET p == Read(fd, g) IN
    IF Bad(p) THEN Lost ELSE UNCHANGED vars

\* A mutant of Close: the handle is closed but the slot is not cleared.
CloseKeepSlot(fd, g) ==
    LET p == Read(fd, g) IN
    p # NULL /\
        IF Bad(p) THEN Lost
        ELSE /\ fd \in 0..(NFD - 1)
             /\ live' = live \ {p}
             /\ UNCHANGED <<slot, hf, spt, mapId, wild>>

\* SYS_CLOSE: a NULL slot returns (a stuttering step); otherwise file_close
\* and clear the slot (for an fd past the array, a write past it).
Close(fd, g) ==
    LET p == Read(fd, g) IN
    p # NULL /\
        IF Bad(p) THEN Lost
        ELSE /\ fd \in 0..(NFD - 1)
             /\ live' = live \ {p}
             /\ slot' = [slot EXCEPT ![fd] = NULL]
             /\ UNCHANGED <<hf, spt, mapId, wild>>

\* unmap(map_id) (spec.md 4.3): drop the id's pages and close the handle
\* they name; an id with no pages closes nothing.
Unmapped(id, s) == [p \in Pages |-> IF s[p] # NoPage /\ s[p].id = id THEN NoPage ELSE s[p]]
MapHandles(id, s) == {s[p].file : p \in {q \in Pages : s[q] # NoPage /\ s[q].id = id}}

\* The mmap page loop: pages a .. a+n-1 are inserted in order and the
\* first that fails (hash_insert finds an entry, or malloc fails in
\* allocate_page_mmap) stops it.  Failure at page k leaves pages a..k-1.
MapPages(a, n, id, h, k) ==
    [p \in Pages |-> IF p \in a..(k - 1) THEN [id |-> id, file |-> h] ELSE spt[p]]

\* The pages where the loop may stop: the first collision, or any earlier
\* page (malloc failure); a + n means it ran to the end.
StopPoints(a, n) ==
    LET coll == {p \in a..(a + n - 1) : spt[p] # NoPage}
        last == IF coll = {} THEN a + n ELSE Min(coll)
    IN a..last

\* A mutant of Reopened: mmap maps the fd's own handle.
ReopenedSame(p) == {p}

\* file_reopen (oldf): a fresh handle on the same inode.
Reopened(p) == Handles \ live

\* A mutant of Abort: the failure path returns -1 without munmap.
AbortKeep(id, s, h) ==
    /\ spt' = s
    /\ live' = live \cup {h}

\* munmap (curr->map_id); return -1; after the loop stopped early.
Abort(id, s, h) ==
    /\ spt' = Unmapped(id, s)
    /\ live' = (live \cup {h}) \ MapHandles(id, s)

\* The page loop of mmap for a file of n > 0 pages under map id `id`.
MapLoop(a, n, id, h) ==
    \E k \in StopPoints(a, n) :
        LET s == MapPages(a, n, id, h, k) IN
        IF k = a + n
        THEN /\ spt' = s
             /\ live' = live \cup {h}
        ELSE Abort(id, s, h)

\* mmap(fd, vaddr) for a valid vaddr: open_files[fd] with no range check,
\* file_reopen, the zero-length check (which returns with the reopened
\* handle still open), ++map_id and the page loop.  A NULL slot returns -1
\* and changes nothing (a stuttering step).
Mmap(fd, g, a) ==
    LET p == Read(fd, g) IN
    p # NULL /\
        IF Bad(p) THEN Lost
        ELSE \E h \in Reopened(p) :
              LET n == FileLen[hf[p]] IN
              /\ hf' = [hf EXCEPT ![h] = hf[p]]
              /\ IF n = 0
                 THEN /\ live' = live \cup {h}
                      /\ UNCHANGED <<slot, spt, mapId, wild>>
                 ELSE /\ mapId < MaxMap
                      /\ mapId' = mapId + 1
                      /\ MapLoop(a, n, mapId + 1, h)
                      /\ UNCHANGED <<slot, wild>>

\* munmap(map_id): unmap.
Munmap(id) ==
    /\ spt' = Unmapped(id, spt)
    /\ live' = live \ MapHandles(id, spt)
    /\ UNCHANGED <<slot, hf, mapId, wild>>

Next ==
    \/ \E f \in Files : Open(f)
    \/ \E fd \in FdArgs, g \in {NULL, Garbage} : Inspect(fd, g) \/ Close(fd, g)
    \/ \E fd \in FdArgs, g \in {NULL, Garbage}, a \in AddrArgs : Mmap(fd, g, a)
    \/ \E id \in 1..MaxMap : Munmap(id)

Spec == Init /\ [][Next]_vars

-----------------------------------------------------------------------------
(* Properties.                                                             *)

\* The handles a slot or a page entry names.
SlotRefs == {slot[i] : i \in {j \in 0..(NFD - 1) : slot[j] # NULL}}
MapRefs == {spt[p].file : p \in {q \in Pages : spt[q] # NoPage}}

\* No fd and no mapped page names a closed handle: SYS_CLOSE clears the
\* slot it closes, and unmap drops every page of the handle it closes,
\* however opens, closes, mmaps (failed ones included) and munmaps mix.
NoDanglingHandle == SlotRefs \cup MapRefs \subseteq live

\* A handle belongs to one owner: no two fds share it and no mapping uses
\* an fd's handle, so closing the fd leaves the mapping's file open and
\* munmap closes only its own (mmap maps a file_reopen'ed handle).
OneOwner ==
    /\ \A i, j \in 0..(NFD - 1) : slot[i] = slot[j] /\ slot[i] # NULL => i = j
    /\ SlotRefs \cap MapRefs = {}
    /\ \A p, q \in Pages :
          spt[p] # NoPage /\ spt[q] # NoPage /\ spt[p].file = spt[q].file
            => spt[p].id = spt[q].id

\* A mapping is all or nothing: every map id in the page table covers
\* exactly its file's length in consecutive pages, so an mmap that stops
\* part-way through its page loop leaves no pages behind.
MappingWhole ==
    \A p \in Pages : spt[p] # NoPage =>
        LET id == spt[p].id
            ps == {q \in Pages : spt[q] # NoPage /\ spt[q].id = id}
        IN Cardinality(ps) = FileLen[hf[spt[p].file]]
           /\ Max(ps) - Min(ps) + 1 = Cardinality(ps)

\* The file layer only ever sees live handles: every fd a system call
\* dereferences is in range or finds NULL (spec.md 7: a missing fd gives
\* 0 for FILESIZE and -1 for TELL, the process continues).
NoWildPointer == ~wild

\* Every open handle is reachable from an fd or a mapping, so a later
\* CLOSE, munmap or exit can close it.
HandlesAccounted == live \subseteq SlotRefs \cup MapRefs

\* Every page entry mmap installs is a user page, below PHYS_BASE.
MapsUserPages == \A p \in Pages : spt[p] # NoPage => p < UserTop

=============================================================================
